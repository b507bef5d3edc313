----------------------- MODULE TrajectoryCommandProofs -----------------------
(***************************************************************************)
(* The target of trajectory_command for every path, ramp, pool and set of  *)
(* scenarios: an approved run never invalidates itself, however many laps  *)
(* it flies, and a hold rests where the operator left it.                  *)
(***************************************************************************)
EXTENDS TrajectoryCommand, TLAPS

-----------------------------------------------------------------------------
(* The arithmetic of laps.                                                 *)

LEMMA DivMod ==
  ASSUME NEW a \in Int, NEW n \in Int, n > 0
  PROVE  a = n * (a \div n) + (a % n)
BY SMTT(60)

LEMMA SmallMultiple ==
  ASSUME NEW n \in Nat \ {0}, NEW k \in Int, -n < n * k, n * k < n
  PROVE  k = 0
<1>1. CASE k >= 1
  <2>1. n * k >= n * 1
    BY <1>1
  <2> QED BY <2>1
<1>2. CASE k <= -1
  <2>1. n * k <= n * (-1)
    BY <1>2
  <2> QED BY <2>1
<1> QED BY <1>1, <1>2

LEMMA Distribute ==
  ASSUME NEW n \in Nat, NEW a \in Int, NEW b \in Int, NEW c \in Int
  PROVE  n * ((a - b) - c) = n * a - n * b - n * c
OBVIOUS

LEMMA ModShift ==
  ASSUME NEW a \in Nat, NEW b \in Nat, NEW n \in Nat \ {0}
  PROVE  (b + (a % n)) % n = (b + a) % n
<1> DEFINE x == b + (a % n)
           y == b + a
           qa == a \div n
           qx == x \div n
           qy == y \div n
           rx == x % n
           ry == y % n
<1> n \in Int /\ n > 0
  OBVIOUS
<1>1. a % n \in 0..(n-1) /\ qa \in Int /\ a = n * qa + (a % n)
  BY DivMod
<1>2. x \in Int /\ y \in Int
  BY <1>1
<1> HIDE DEF qa, x, y
<1>3. rx \in 0..(n-1) /\ qx \in Int /\ x = n * qx + rx
  BY <1>2, DivMod
<1>4. ry \in 0..(n-1) /\ qy \in Int /\ y = n * qy + ry
  BY <1>2, DivMod
<1> HIDE DEF qx, qy, rx, ry
<1>5. n * qa \in Int /\ n * qx \in Int /\ n * qy \in Int
  BY <1>1, <1>3, <1>4
<1>6. y - x = n * qa
  <2> DEFINE r == a % n
             p == n * qa
  <2>1. r \in 0..(n-1) /\ p \in Int /\ a = p + r
    BY <1>1, <1>5, Zenon
  <2> HIDE DEF r, p
  <2>2. (b + a) - (b + r) = p
    BY <2>1
  <2> QED BY <2>2 DEF x, y, r, p
<1>7. n * ((qy - qx) - qa) = n * qy - n * qx - n * qa
  BY <1>1, <1>3, <1>4, Distribute
<1>8. n * ((qy - qx) - qa) = rx - ry
  BY <1>2, <1>3, <1>4, <1>5, <1>6, <1>7
<1> DEFINE k == (qy - qx) - qa
<1>9. k \in Int
  BY <1>1, <1>3, <1>4
<1>10. -n < n * k /\ n * k < n
  BY <1>3, <1>4, <1>8
<1> HIDE DEF k
<1>11. k = 0
  BY <1>9, <1>10, SmallMultiple
<1>12. n * k = 0
  BY <1>11
<1>13. rx = ry
  BY <1>3, <1>4, <1>8, <1>12 DEF k
<1> QED BY <1>13 DEF rx, ry, x, y

(* Every time of an endless run shows the offset of a time within the lap  *)
(* and ramp that Validate sampled.                                         *)
LEMMA LapsRepeat ==
  ASSUME NEW t \in Nat
  PROVE  \E u \in 0..(Len(Path) + Ramp) : PathOffset(u) = PathOffset(t)
<1> DEFINE lap == Len(Path)
<1>1. lap \in Nat \ {0} /\ Ramp \in Nat
  BY TrajectoryAssumption DEF TrajectoryAssumption
<1> HIDE DEF lap
<1>2. CASE t < Ramp
  <2>1. t \in 0..(lap + Ramp)
    BY <1>1, <1>2
  <2> QED BY <2>1 DEF lap
<1>3. CASE t >= Ramp
  <2> DEFINE half == Ramp \div 2
             a == t - Ramp
             b == Ramp - half
             u == Ramp + (a % lap)
  <2>1. half \in Nat /\ half <= Ramp
    BY <1>1
  <2> HIDE DEF half
  <2>2. a \in Nat /\ b \in Nat
    BY <1>1, <1>3, <2>1
  <2>3. a % lap \in 0..(lap - 1)
    BY <1>1, <2>2
  <2>4. (b + (a % lap)) % lap = (b + a) % lap
    BY <1>1, <2>2, ModShift
  <2>5. u \in 0..(lap + Ramp) /\ u >= Ramp
    BY <1>1, <2>3
  <2>6. u - half = b + (a % lap) /\ t - half = b + a
    BY <1>1, <2>1, <2>3
  <2>7. ~(u < Ramp) /\ ~(t < Ramp)
    BY <1>1, <1>3, <2>5
  <2> HIDE DEF u
  <2>8. RampedTime(u) = u - half /\ RampedTime(t) = t - half
    BY <2>7 DEF RampedTime, half
  <2>9. RampedTime(u) % lap = RampedTime(t) % lap
    BY <2>4, <2>6, <2>8
  <2>10. PathOffset(u) = PathOffset(t)
    BY <2>9 DEF PathOffset, lap
  <2> QED BY <2>5, <2>10 DEF lap
<1> QED BY <1>1, <1>2, <1>3

LEMMA ApprovedSamples ==
  ASSUME NEW s, NEW start, LapInside(s, start), NEW t \in Nat
  PROVE  InPool(SampleAt(s, start, t))
<1>1. PICK u \in 0..(Len(Path) + Ramp) : PathOffset(u) = PathOffset(t)
  BY LapsRepeat
<1>2. SampleAt(s, start, u) = SampleAt(s, start, t)
  BY <1>1 DEF SampleAt
<1>3. InPool(SampleAt(s, start, u))
  BY DEF LapInside, ValidationHorizon
<1> QED BY <1>2, <1>3

-----------------------------------------------------------------------------
(* Poses.                                                                  *)

LEMMA TrajectoryConstants ==
  /\ Scenarios \subseteq Scenario /\ Ramp \in Nat /\ MaxElapsed \in Nat
  /\ Center \in Poses /\ Vehicle \subseteq Poses
  /\ PoolMin \in [Bounded -> Int] /\ PoolMax \in [Bounded -> Int]
  /\ SticksSets \subseteq SUBSET Components
  /\ \A pose \in Vehicle : pose["heading"] # NoPose["heading"]
BY TrajectoryAssumption DEF TrajectoryAssumption

LEMMA NoPoseIsNone ==
  /\ NoPose \in Poses /\ NoHeight \in Int
  /\ \A pose \in Vehicle : pose # NoPose
BY TrajectoryConstants DEF NoPose, Poses, NoHeight

LEMMA TargetClipFacts ==
  ASSUME NEW pose \in Poses
  PROVE  /\ ClipToPool(pose) \in Poses
         /\ ClipToPool(ClipToPool(pose)) = ClipToPool(pose)
         /\ ClipToPool(pose)["heading"] = pose["heading"]
         /\ (\A c \in Bounded : PoolMin[c] < PoolMax[c]) =>
              InPool(ClipToPool(pose))
<1>1. ASSUME NEW c \in Components
      PROVE  ClipToPool(pose)[c] \in Int
  BY TrajectoryConstants DEF ClipToPool, Poses
<1>2. ClipToPool(pose) \in Poses
  BY <1>1 DEF ClipToPool, Poses
<1>3. ASSUME NEW c \in Components
      PROVE  ClipToPool(ClipToPool(pose))[c] = ClipToPool(pose)[c]
  <2>1. CASE c \in Bounded
    BY <1>3, <2>1, TrajectoryConstants DEF ClipToPool, Poses
  <2>2. CASE c \notin Bounded
    BY <1>3, <2>2 DEF ClipToPool
  <2> QED BY <2>1, <2>2
<1>4. ClipToPool(ClipToPool(pose)) = ClipToPool(pose)
  BY <1>3 DEF ClipToPool
<1>5. ClipToPool(pose)["heading"] = pose["heading"]
  BY DEF ClipToPool, Components, Bounded
<1>6. (\A c \in Bounded : PoolMin[c] < PoolMax[c]) => InPool(ClipToPool(pose))
  BY TrajectoryConstants DEF ClipToPool, Poses, InPool, Components, Bounded
<1> QED BY <1>2, <1>4, <1>5, <1>6

(* Each component is clipped by itself.                                    *)
LEMMA ClipByComponent ==
  ASSUME NEW p \in Poses, NEW q \in Poses, NEW c \in Components, p[c] = q[c]
  PROVE  ClipToPool(p)[c] = ClipToPool(q)[c]
BY DEF ClipToPool

LEMMA HeldPoseFacts ==
  ASSUME NEW s, NEW start \in Poses
  PROVE  /\ HeldPose(s, start) \in Poses
         /\ HeldPose(s, start)["heading"] = start["heading"]
<1>1. Center["height"] \in Int
  BY TrajectoryConstants DEF Poses, Components
<1> QED BY <1>1 DEF HeldPose, AtHeight, Poses, Components

-----------------------------------------------------------------------------
(* The inductive invariant.                                                *)

(* While the operator has touched nothing since the last stop, no stick is *)
(* in and none is remembered.                                              *)
NothingPushed ==
  ~touched => /\ sticks = {} /\ ~heave
              /\ station_active = {} /\ ~altitude_heave_active

(* A station hold that runs has a target; a remembered start pose is one.  *)
HasHeading(pose) == pose["heading"] # NoPose["heading"]

HoldHasTarget ==
  /\ RunsAsStarted /\ StationHold(scenario) => HasHeading(station_target)
  /\ start_pose # NoPose => HasHeading(start_pose)

(* What Validate approved is still what is latched.                        *)
ApprovalHolds ==
  approved => /\ Compatible(scenario) /\ envelope_valid
              /\ EnvelopeInsideLimits(scenario, motion_start)

(* Where there is a start pose there is a measurement.                     *)
MeasuredBefore ==
  /\ motion_start # NoPose => latest # NoPose
  /\ RunsAsStarted => latest # NoPose

(* The node's flags are the sticks of the last tick: a hold that starts    *)
(* begins with none, and no other run touches them.                        *)
FlagsAreLastPush ==
  RunsAsStarted =>
    /\ StationHold(scenario) => station_active = last_push
    /\ AltitudeHold(scenario) => altitude_heave_active = ("height" \in last_push)

Rests == MeasuredBefore /\ FlagsAreLastPush /\ HoldRestsWhereLeft

TrajectoryInv ==
  /\ TrajectoryTypeOK
  /\ NothingPushed
  /\ HoldHasTarget
  /\ UntouchedHoldStaysPut
  /\ ApprovalHolds
  /\ Rests

LEMMA TrajectoryInitially == TrajectoryInit => TrajectoryInv
<1> SUFFICES ASSUME TrajectoryInit PROVE TrajectoryInv
  OBVIOUS
<1>1. TrajectoryTypeOK
  <2>1. elapsed \in 0..MaxElapsed
    BY TrajectoryConstants DEF TrajectoryInit
  <2> QED BY <2>1, NoPoseIsNone DEF TrajectoryInit, TrajectoryTypeOK
<1>2. /\ NothingPushed /\ HoldHasTarget /\ UntouchedHoldStaysPut /\ ApprovalHolds
      /\ Rests
  BY DEF TrajectoryInit, NothingPushed, HoldHasTarget, UntouchedHoldStaysPut,
         ApprovalHolds, Rests, MeasuredBefore, FlagsAreLastPush,
         HoldRestsWhereLeft, RunsAsStarted
<1> QED BY <1>1, <1>2 DEF TrajectoryInv

LEMMA TypedPoses ==
  ASSUME TrajectoryTypeOK
  PROVE  /\ latest \in Poses /\ motion_start \in Poses
         /\ latest # NoPose => HasHeading(latest)
         /\ motion_start # NoPose => HasHeading(motion_start)
BY TrajectoryConstants, NoPoseIsNone DEF TrajectoryTypeOK, HasHeading

LEMMA StepOnValidateScenario ==
  ASSUME TrajectoryInv, OnValidateScenario
  PROVE  TrajectoryInv'
<1>1. UNCHANGED <<scenario, latest, attitude, holdVars, startVars, elapsed,
                  operatorVars, published>>
  BY DEF OnValidateScenario, measuredVars
<1>2. /\ motion_start' \in Vehicle \cup {NoPose}
      /\ envelope_valid' \in BOOLEAN /\ approved' \in BOOLEAN
      /\ approved' => /\ Compatible(scenario) /\ envelope_valid'
                      /\ EnvelopeInsideLimits(scenario, motion_start')
  <2>1. CASE Compatible(scenario) /\ latest # NoPose /\ attitude
    <3>1. /\ motion_start' = latest
          /\ envelope_valid' = EnvelopeInsideLimits(scenario, latest)
          /\ approved' = envelope_valid'
      BY <2>1 DEF OnValidateScenario
    <3>2. EnvelopeInsideLimits(scenario, latest) \in BOOLEAN
      BY DEF EnvelopeInsideLimits
    <3> QED BY <2>1, <3>1, <3>2 DEF TrajectoryInv, TrajectoryTypeOK
  <2>2. CASE ~(Compatible(scenario) /\ latest # NoPose /\ attitude)
    BY <2>2 DEF OnValidateScenario, TrajectoryInv, TrajectoryTypeOK
  <2> QED BY <2>1, <2>2
<1>3. TrajectoryTypeOK'
  BY <1>1, <1>2 DEF TrajectoryInv, TrajectoryTypeOK, holdVars, startVars,
                    operatorVars
<1>4. NothingPushed' /\ HoldHasTarget' /\ UntouchedHoldStaysPut'
  BY <1>1 DEF TrajectoryInv, NothingPushed, HoldHasTarget, HasHeading,
              UntouchedHoldStaysPut, RunsAsStarted, holdVars, startVars,
              operatorVars
<1>5. ApprovalHolds'
  BY <1>1, <1>2 DEF ApprovalHolds
<1>6. Rests'
  <2>1. MeasuredBefore'
    BY <1>1 DEF OnValidateScenario, TrajectoryInv, Rests, MeasuredBefore,
                RunsAsStarted, startVars
  <2>2. FlagsAreLastPush' /\ HoldRestsWhereLeft'
    BY <1>1 DEF TrajectoryInv, Rests, FlagsAreLastPush, HoldRestsWhereLeft,
                RunsAsStarted, holdVars, startVars
  <2> QED BY <2>1, <2>2 DEF Rests
<1> QED BY <1>3, <1>4, <1>5, <1>6 DEF TrajectoryInv

LEMMA StepOnResetScenario ==
  ASSUME TrajectoryInv, OnResetScenario
  PROVE  TrajectoryInv'
<1> DEFINE held == HeldPose(scenario, motion_start)
<1>1. /\ held \in Poses /\ HasHeading(held) /\ Center["height"] \in Int
  BY TypedPoses, HeldPoseFacts, TrajectoryConstants
     DEF OnResetScenario, TrajectoryInv, HasHeading, Poses, Components
<1>2. /\ UNCHANGED <<scenario, motion_start, envelope_valid, approved, latest,
                     attitude, sticks, heave, touched, published>>
      /\ tracking_started' = TRUE /\ elapsed' = 0 /\ as_started' = TRUE
      /\ start_pose' = IF touched \/ ~StationHold(scenario) THEN NoPose ELSE held
      /\ last_push' = {} /\ left_at' = held
  BY DEF OnResetScenario, scenarioVars, measuredVars
<1>3. /\ altitude_hold_z' = IF AltitudeHold(scenario) THEN Center["height"]
                            ELSE altitude_hold_z
      /\ altitude_heave_active' =
           (altitude_heave_active /\ ~AltitudeHold(scenario))
      /\ station_target' = IF StationHold(scenario) THEN held ELSE station_target
      /\ station_active' = IF StationHold(scenario) THEN {} ELSE station_active
  BY DEF OnResetScenario, LatchAtStart
<1> HIDE DEF held
<1>4. TrajectoryTypeOK'
  <2>1. start_pose' \in Poses /\ station_target' \in Poses
    BY <1>1, <1>2, <1>3, NoPoseIsNone DEF TrajectoryInv, TrajectoryTypeOK
  <2>2. altitude_hold_z' \in Int /\ altitude_heave_active' \in BOOLEAN
    BY <1>1, <1>3 DEF TrajectoryInv, TrajectoryTypeOK
  <2>3. elapsed' \in 0..MaxElapsed /\ station_active' \in SUBSET Components
    BY <1>2, <1>3, TrajectoryConstants DEF TrajectoryInv, TrajectoryTypeOK
  <2>4. last_push' \in SUBSET Components /\ left_at' \in Poses
    BY <1>1, <1>2
  <2> QED BY <1>2, <2>1, <2>2, <2>3, <2>4 DEF TrajectoryInv, TrajectoryTypeOK
<1>5. NothingPushed'
  BY <1>2, <1>3 DEF TrajectoryInv, NothingPushed
<1>6. HoldHasTarget'
  BY <1>1, <1>2, <1>3 DEF TrajectoryInv, HoldHasTarget, HasHeading, StationHold
<1>7. UntouchedHoldStaysPut'
  BY <1>1, <1>2, <1>3
     DEF UntouchedHoldStaysPut, RunsAsStarted, StationHold, AltitudeHold
<1>8. ApprovalHolds'
  BY <1>2 DEF TrajectoryInv, ApprovalHolds
<1>9. Rests'
  <2>1. MeasuredBefore'
    BY <1>2 DEF OnResetScenario, TrajectoryInv, Rests, MeasuredBefore
  <2>2. FlagsAreLastPush'
    BY <1>2, <1>3 DEF FlagsAreLastPush, StationHold, AltitudeHold
  <2>3. AltitudeHold(scenario) => held["height"] = Center["height"]
    BY TypedPoses DEF held, HeldPose, AtHeight, AltitudeHold, TrajectoryInv,
                      Poses, Components
  <2>4. HoldRestsWhereLeft'
    BY <1>2, <1>3, <2>3 DEF HoldRestsWhereLeft, StationHold, AltitudeHold
  <2> QED BY <2>1, <2>2, <2>4 DEF Rests
<1> QED BY <1>4, <1>5, <1>6, <1>7, <1>8, <1>9 DEF TrajectoryInv

LEMMA StepOnStopScenario ==
  ASSUME TrajectoryInv, OnStopScenario
  PROVE  TrajectoryInv'
<1>1. TrajectoryTypeOK'
  <2>1. elapsed' \in 0..MaxElapsed
    BY TrajectoryConstants DEF OnStopScenario
  <2> QED BY <2>1, NoPoseIsNone
          DEF OnStopScenario, ForgetInputs, measuredVars, TrajectoryInv,
              TrajectoryTypeOK
<1>2. /\ NothingPushed' /\ HoldHasTarget' /\ UntouchedHoldStaysPut'
      /\ ApprovalHolds' /\ Rests'
  BY DEF OnStopScenario, ForgetInputs, NothingPushed, HoldHasTarget,
         UntouchedHoldStaysPut, ApprovalHolds, RunsAsStarted, Rests,
         MeasuredBefore, FlagsAreLastPush, HoldRestsWhereLeft
<1> QED BY <1>1, <1>2 DEF TrajectoryInv

LEMMA StepSetParameters ==
  ASSUME TrajectoryInv, NEW s \in Scenarios, SetParameters(s)
  PROVE  TrajectoryInv'
<1>1. TrajectoryTypeOK'
  BY NoPoseIsNone
     DEF SetParameters, measuredVars, holdVars, operatorVars, TrajectoryInv,
         TrajectoryTypeOK
<1>2. /\ NothingPushed' /\ HoldHasTarget' /\ UntouchedHoldStaysPut'
      /\ ApprovalHolds'
  BY DEF SetParameters, holdVars, operatorVars, TrajectoryInv, NothingPushed,
         HoldHasTarget, HasHeading, UntouchedHoldStaysPut, ApprovalHolds,
         RunsAsStarted
<1>3. Rests'
  BY DEF SetParameters, measuredVars, TrajectoryInv, Rests, MeasuredBefore,
         FlagsAreLastPush, HoldRestsWhereLeft, RunsAsStarted
<1> QED BY <1>1, <1>2, <1>3 DEF TrajectoryInv

(* A measurement, an input or a tick that leaves the hold where it is.     *)
LEMMA StepMeasured ==
  ASSUME TrajectoryInv,
         UNCHANGED <<scenarioVars, holdVars, startVars, operatorVars>>,
         latest' \in Vehicle \cup {NoPose}, attitude' \in BOOLEAN,
         latest # NoPose => latest' # NoPose,
         elapsed' \in 0..MaxElapsed, published' \in BOOLEAN
  PROVE  TrajectoryInv'
<1>1. TrajectoryTypeOK'
  BY DEF scenarioVars, holdVars, startVars, operatorVars, TrajectoryInv,
         TrajectoryTypeOK
<1>2. /\ NothingPushed' /\ HoldHasTarget' /\ UntouchedHoldStaysPut'
      /\ ApprovalHolds'
  BY DEF scenarioVars, holdVars, startVars, operatorVars, TrajectoryInv,
         NothingPushed, HoldHasTarget, HasHeading, UntouchedHoldStaysPut,
         ApprovalHolds, RunsAsStarted
<1>3. Rests'
  BY DEF scenarioVars, holdVars, startVars, TrajectoryInv, Rests,
         MeasuredBefore, FlagsAreLastPush, HoldRestsWhereLeft, RunsAsStarted
<1> QED BY <1>1, <1>2, <1>3 DEF TrajectoryInv

LEMMA StepOperator ==
  ASSUME TrajectoryInv,
         UNCHANGED <<scenarioVars, measuredVars, holdVars, startVars, elapsed,
                     published>>,
         sticks' \in SUBSET Components, heave' \in BOOLEAN, touched' \in BOOLEAN,
         touched => touched', ~touched' => sticks' = {} /\ ~heave',
         start_pose' \in {start_pose, NoPose}
  PROVE  TrajectoryInv'
<1>1. start_pose' \in Poses
  BY NoPoseIsNone DEF TrajectoryInv, TrajectoryTypeOK
<1>2. TrajectoryTypeOK'
  BY <1>1 DEF scenarioVars, measuredVars, holdVars, startVars, TrajectoryInv,
         TrajectoryTypeOK
<1>3. /\ NothingPushed' /\ HoldHasTarget' /\ UntouchedHoldStaysPut'
      /\ ApprovalHolds'
  BY DEF scenarioVars, holdVars, startVars, TrajectoryInv, NothingPushed,
         HoldHasTarget, HasHeading, UntouchedHoldStaysPut, ApprovalHolds,
         RunsAsStarted
<1>4. Rests'
  BY DEF scenarioVars, measuredVars, holdVars, startVars, TrajectoryInv, Rests,
         MeasuredBefore, FlagsAreLastPush, HoldRestsWhereLeft, RunsAsStarted
<1> QED BY <1>2, <1>3, <1>4 DEF TrajectoryInv

LEMMA RememberFacts ==
  ASSUME TrajectoryInv, NEW pushed \in SUBSET Components, Remember(pushed)
  PROVE  /\ last_push' \in SUBSET Components /\ left_at' \in Poses
         /\ RunsAsStarted =>
              /\ last_push' = pushed
              /\ left_at' = [c \in Components |->
                               IF c \in last_push \ pushed THEN latest[c]
                               ELSE left_at[c]]
<1>1. /\ last_push \in SUBSET Components /\ left_at \in Poses
      /\ Measured \in Poses
  BY TypedPoses, TrajectoryConstants
     DEF TrajectoryInv, TrajectoryTypeOK, Measured
<1>2. RunsAsStarted => Measured = latest
  BY DEF TrajectoryInv, Rests, MeasuredBefore, Measured
<1>3. CASE as_started
  <2>1. /\ last_push' = pushed
        /\ left_at' = [c \in Components |->
                         IF c \in last_push \ pushed THEN Measured[c]
                         ELSE left_at[c]]
    BY <1>3 DEF Remember
  <2>2. left_at' \in Poses
    BY <1>1, <2>1 DEF Poses
  <2> QED BY <1>2, <2>1, <2>2
<1>4. CASE ~as_started
  BY <1>1, <1>4 DEF Remember, RunsAsStarted
<1> QED BY <1>3, <1>4

LEMMA StepTickAltitudeHold ==
  ASSUME TrajectoryInv, TickAltitudeHold
  PROVE  TrajectoryInv'
<1> DEFINE pushed == IF heave THEN {"height"} ELSE {}
<1>1. /\ UNCHANGED <<scenarioVars, measuredVars, station_target, station_active,
                     tracking_started, as_started, elapsed, operatorVars>>
      /\ altitude_heave_active' = heave /\ published' \in BOOLEAN
      /\ Remember(pushed) /\ pushed \in SUBSET Components
  BY DEF TickAltitudeHold, TargetIsValid, Components
<1>2. altitude_hold_z' = IF heave \/ altitude_heave_active THEN Measured["height"]
                         ELSE altitude_hold_z
  BY DEF TickAltitudeHold, Follows
<1>3. Measured["height"] \in Int
  BY TypedPoses, TrajectoryConstants
     DEF TrajectoryInv, Measured, Poses, Components
<1>r. /\ last_push' \in SUBSET Components /\ left_at' \in Poses
      /\ RunsAsStarted =>
           /\ last_push' = pushed
           /\ left_at' = [c \in Components |->
                            IF c \in last_push \ pushed THEN latest[c]
                            ELSE left_at[c]]
  BY <1>1, RememberFacts
<1>4. TrajectoryTypeOK'
  BY <1>1, <1>2, <1>3, <1>r DEF scenarioVars, measuredVars, operatorVars,
                                TrajectoryInv, TrajectoryTypeOK
<1>5. NothingPushed'
  BY <1>1 DEF operatorVars, TrajectoryInv, NothingPushed
<1>6. HoldHasTarget' /\ ApprovalHolds'
  BY <1>1 DEF scenarioVars, operatorVars, TrajectoryInv,
              HoldHasTarget, HasHeading, ApprovalHolds, RunsAsStarted
<1>7. UntouchedHoldStaysPut'
  BY <1>1, <1>2 DEF scenarioVars, operatorVars, TrajectoryInv,
                    NothingPushed, UntouchedHoldStaysPut, RunsAsStarted
<1>8. Rests'
  <2>1. MeasuredBefore'
    BY <1>1 DEF scenarioVars, measuredVars, TrajectoryInv, Rests,
                MeasuredBefore, RunsAsStarted
  <2>2. AltitudeHold(scenario) /\ ~StationHold(scenario)
    BY DEF TickAltitudeHold, AltitudeHold, StationHold, HoldModes
  <2>3. FlagsAreLastPush'
    <3>1. heave = ("height" \in pushed)
      BY DEF TrajectoryInv, TrajectoryTypeOK
    <3>2. RunsAsStarted => altitude_heave_active' = ("height" \in last_push')
      BY <1>1, <1>r, <3>1
    <3>3. scenario' = scenario /\ RunsAsStarted' = RunsAsStarted
      BY <1>1 DEF scenarioVars, RunsAsStarted
    <3> QED BY <2>2, <3>2, <3>3 DEF FlagsAreLastPush, AltitudeHold, StationHold
  <2>4. ASSUME RunsAsStarted, ~heave
        PROVE  altitude_hold_z' = left_at'["height"]
    <3>1. left_at'["height"] = IF "height" \in last_push THEN latest["height"]
                               ELSE left_at["height"]
      BY <1>r, <2>4 DEF Components
    <3>2. altitude_heave_active = ("height" \in last_push)
      BY <2>2, <2>4 DEF TrajectoryInv, Rests, FlagsAreLastPush
    <3>3. Measured = latest
      BY <2>4 DEF TrajectoryInv, Rests, MeasuredBefore, Measured
    <3>4. "height" \notin last_push => altitude_hold_z = left_at["height"]
      BY <2>2, <2>4 DEF TrajectoryInv, Rests, HoldRestsWhereLeft
    <3> QED BY <1>2, <2>4, <3>1, <3>2, <3>3, <3>4
  <2>5. HoldRestsWhereLeft'
    BY <1>1, <1>r, <2>2, <2>4 DEF scenarioVars, HoldRestsWhereLeft,
       RunsAsStarted, AltitudeHold, StationHold
  <2> QED BY <2>1, <2>3, <2>5 DEF Rests
<1> QED BY <1>4, <1>5, <1>6, <1>7, <1>8 DEF TrajectoryInv

(* The pose a tick of a station hold asks for, before it is clipped.       *)
StationPose ==
  [c \in Components |->
     IF latest # NoPose /\ Follows(c, sticks, station_active)
     THEN latest[c] ELSE StationSource[c]]

LEMMA StationPoseFacts ==
  ASSUME TrajectoryInv, TickStationHold
  PROVE  /\ StationPose \in Poses
         /\ station_target' = ClipToPool(StationPose)
         /\ published' = TargetIsValid(ClipToPool(StationPose))
         /\ station_active' = sticks /\ Remember(sticks)
         /\ UNCHANGED <<scenarioVars, measuredVars, altitude_hold_z,
                        altitude_heave_active, tracking_started, as_started,
                        elapsed, operatorVars>>
         /\ RunsAsStarted => /\ StationSource = station_target
                             /\ HasHeading(StationPose)
<1>1. StationSource \in Poses /\ latest \in Poses
  BY TypedPoses, TrajectoryConstants
     DEF TrajectoryInv, TrajectoryTypeOK, StationSource, Measured
<1>2. StationPose \in Poses
  BY <1>1 DEF StationPose, Poses
<1>3. RunsAsStarted => StationSource = station_target /\ HasHeading(StationPose)
  <2> SUFFICES ASSUME RunsAsStarted
               PROVE  StationSource = station_target /\ HasHeading(StationPose)
    OBVIOUS
  <2>1. HasHeading(station_target)
    BY DEF TickStationHold, TrajectoryInv, HoldHasTarget
  <2>2. StationSource = station_target
    BY <2>1 DEF StationSource, HasHeading
  <2>3. latest # NoPose => HasHeading(latest)
    BY TypedPoses DEF TrajectoryInv
  <2>4. HasHeading(StationPose)
    BY <2>1, <2>2, <2>3 DEF StationPose, HasHeading, Components
  <2> QED BY <2>2, <2>4
<1>4. /\ station_target' = ClipToPool(StationPose)
      /\ published' = TargetIsValid(ClipToPool(StationPose))
      /\ station_active' = sticks /\ Remember(sticks)
  BY DEF TickStationHold, StationPose
<1>5. UNCHANGED <<scenarioVars, measuredVars, altitude_hold_z,
                  altitude_heave_active, tracking_started, as_started, elapsed,
                  operatorVars>>
  BY DEF TickStationHold
<1> QED BY <1>2, <1>3, <1>4, <1>5

LEMMA StepTickStationHold ==
  ASSUME TrajectoryInv, TickStationHold
  PROVE  TrajectoryInv'
<1>1. /\ StationPose \in Poses
      /\ station_target' = ClipToPool(StationPose)
      /\ station_active' = sticks
      /\ RunsAsStarted => /\ StationSource = station_target
                          /\ HasHeading(StationPose)
  BY StationPoseFacts
<1>2. UNCHANGED <<scenarioVars, measuredVars, altitude_hold_z,
                  altitude_heave_active, tracking_started, as_started, elapsed,
                  operatorVars>>
  BY StationPoseFacts
<1>r. /\ last_push' \in SUBSET Components /\ left_at' \in Poses
      /\ RunsAsStarted =>
           /\ last_push' = sticks
           /\ left_at' = [c \in Components |->
                            IF c \in last_push \ sticks THEN latest[c]
                            ELSE left_at[c]]
  BY StationPoseFacts, RememberFacts DEF TrajectoryInv, TrajectoryTypeOK
<1>3. /\ station_target' \in Poses
      /\ RunsAsStarted => HasHeading(station_target')
  BY <1>1, TargetClipFacts DEF HasHeading
<1>4. published' \in BOOLEAN
  BY StationPoseFacts DEF TargetIsValid
<1>5. TrajectoryTypeOK'
  BY <1>1, <1>2, <1>3, <1>4, <1>r
     DEF scenarioVars, measuredVars, operatorVars, TrajectoryInv,
         TrajectoryTypeOK
<1>6. NothingPushed'
  BY <1>1, <1>2 DEF operatorVars, TrajectoryInv, NothingPushed
<1>7. HoldHasTarget' /\ ApprovalHolds'
  BY <1>2, <1>3 DEF scenarioVars, operatorVars, TrajectoryInv,
                    HoldHasTarget, HasHeading, ApprovalHolds, RunsAsStarted
<1>8. UntouchedHoldStaysPut'
  <2> SUFFICES ASSUME RunsAsStarted, ~touched
               PROVE  /\ StationHold(scenario) /\ start_pose # NoPose =>
                           station_target' \in {start_pose,
                                                ClipToPool(start_pose)}
                      /\ AltitudeHold(scenario) =>
                           altitude_hold_z' = Center["height"]
    <3>1. UNCHANGED <<scenario, tracking_started, as_started, touched,
                      start_pose>>
      BY <1>2 DEF scenarioVars, operatorVars
    <3> QED BY <3>1 DEF UntouchedHoldStaysPut, RunsAsStarted, StationHold,
                        AltitudeHold, ClipToPool
  <2>1. AltitudeHold(scenario) => altitude_hold_z' = Center["height"]
    BY <1>2 DEF TrajectoryInv, UntouchedHoldStaysPut
  <2>2. StationPose = station_target
    <3>1. sticks = {} /\ station_active = {}
      BY DEF TrajectoryInv, NothingPushed
    <3>2. StationPose = [c \in Components |-> station_target[c]]
      BY <1>1, <3>1 DEF StationPose, Follows
    <3> QED BY <3>2 DEF TrajectoryInv, TrajectoryTypeOK, Poses
  <2>3. StationHold(scenario) /\ start_pose # NoPose =>
          station_target \in {start_pose, ClipToPool(start_pose)}
    BY DEF TrajectoryInv, UntouchedHoldStaysPut
  <2>4. ClipToPool(ClipToPool(start_pose)) = ClipToPool(start_pose)
    BY TargetClipFacts DEF TrajectoryInv, TrajectoryTypeOK
  <2> QED BY <1>1, <2>1, <2>2, <2>3, <2>4
<1>9. Rests'
  <2>1. MeasuredBefore'
    BY <1>2 DEF scenarioVars, measuredVars, TrajectoryInv, Rests,
                MeasuredBefore, RunsAsStarted
  <2>2. StationHold(scenario) /\ ~AltitudeHold(scenario)
    BY DEF TickStationHold, AltitudeHold, StationHold, HoldModes
  <2>3. FlagsAreLastPush'
    BY <1>1, <1>2, <1>r, <2>2 DEF scenarioVars, FlagsAreLastPush,
       RunsAsStarted, AltitudeHold, StationHold
  <2>4. ASSUME RunsAsStarted, NEW c \in Components \ sticks
        PROVE  station_target'[c] = ClipToPool(left_at')[c]
    <3>1. left_at'[c] = IF c \in last_push THEN latest[c] ELSE left_at[c]
      BY <1>r, <2>4
    <3>2. station_active = last_push /\ latest # NoPose
      BY <2>2, <2>4 DEF TrajectoryInv, Rests, FlagsAreLastPush, MeasuredBefore
    <3>3. StationPose[c] = IF c \in last_push THEN latest[c]
                           ELSE station_target[c]
      BY <1>1, <2>4, <3>2 DEF StationPose, Follows
    <3>4. station_target \in Poses /\ left_at \in Poses
      BY DEF TrajectoryInv, TrajectoryTypeOK
    <3>5. CASE c \in last_push
      <4>1. StationPose[c] = left_at'[c]
        BY <3>1, <3>3, <3>5
      <4> QED BY <1>1, <1>r, <4>1, ClipByComponent
    <3>6. CASE c \notin last_push
      <4>1. station_target[c] \in {left_at[c], ClipToPool(left_at)[c]}
        BY <2>2, <2>4, <3>6 DEF TrajectoryInv, Rests, HoldRestsWhereLeft
      <4>2. StationPose[c] \in {left_at[c], ClipToPool(left_at)[c]}
        BY <3>3, <3>6, <4>1
      <4>3. /\ ClipToPool(left_at) \in Poses
            /\ ClipToPool(ClipToPool(left_at)) = ClipToPool(left_at)
        BY <3>4, TargetClipFacts
      <4>4. ClipToPool(StationPose)[c] = ClipToPool(left_at)[c]
        BY <1>1, <3>4, <4>2, <4>3, ClipByComponent
      <4>5. ClipToPool(left_at')[c] = ClipToPool(left_at)[c]
        BY <1>r, <3>1, <3>4, <3>6, ClipByComponent
      <4> QED BY <1>1, <4>4, <4>5
    <3> QED BY <3>5, <3>6
  <2>5. HoldRestsWhereLeft'
    BY <1>2, <1>r, <2>2, <2>4 DEF scenarioVars, HoldRestsWhereLeft,
       RunsAsStarted, AltitudeHold, StationHold
  <2> QED BY <2>1, <2>3, <2>5 DEF Rests
<1> QED BY <1>5, <1>6, <1>7, <1>8, <1>9 DEF TrajectoryInv

LEMMA TrajectoryStep ==
  TrajectoryInv /\ [TrajectoryNext]_trajectoryVars => TrajectoryInv'
<1> SUFFICES ASSUME TrajectoryInv, [TrajectoryNext]_trajectoryVars
             PROVE  TrajectoryInv'
  OBVIOUS
<1>1. /\ latest \in Vehicle \cup {NoPose} /\ attitude \in BOOLEAN
      /\ elapsed \in 0..MaxElapsed /\ published \in BOOLEAN
      /\ sticks \in SUBSET Components /\ heave \in BOOLEAN
      /\ touched \in BOOLEAN
  BY DEF TrajectoryInv, TrajectoryTypeOK
<1>2. CASE UNCHANGED trajectoryVars
  BY <1>1, <1>2, StepMeasured DEF trajectoryVars, measuredVars
<1>3. ASSUME NEW pose \in Vehicle, TrajectoryOnBodyState(pose)
      PROVE  TrajectoryInv'
  BY <1>1, <1>3, NoPoseIsNone, StepMeasured DEF TrajectoryOnBodyState
<1>4. CASE TrajectoryOnImu
  BY <1>1, <1>4, StepMeasured DEF TrajectoryOnImu
<1>5. CASE TickIdle
  BY <1>1, <1>5, StepMeasured DEF TickIdle, measuredVars
<1>6. CASE TickInvalid
  BY <1>1, <1>6, StepMeasured DEF TickInvalid, measuredVars
<1>7. CASE TickAutomatic
  <2>1. elapsed' \in 0..MaxElapsed
    BY <1>1, <1>7, TrajectoryConstants DEF TickAutomatic
  <2>2. published' \in BOOLEAN
    BY <1>7 DEF TickAutomatic, TargetIsValid
  <2>3. UNCHANGED <<scenarioVars, measuredVars, holdVars, startVars,
                    operatorVars>>
    BY <1>7 DEF TickAutomatic
  <2> QED BY <1>1, <2>1, <2>2, <2>3, StepMeasured DEF measuredVars
<1>8. ASSUME NEW pushed \in SticksSets, OnOperatorTargetInput(pushed)
      PROVE  TrajectoryInv'
  <2>1. /\ sticks' = pushed /\ heave' = heave
        /\ touched' = (touched \/ pushed # {})
        /\ start_pose' = IF touched' THEN NoPose ELSE start_pose
        /\ UNCHANGED <<scenarioVars, measuredVars, holdVars, startVars, elapsed,
                       published>>
    BY <1>8 DEF OnOperatorTargetInput
  <2>2. sticks' \in SUBSET Components
    BY <2>1, TrajectoryConstants
  <2>3. /\ heave' \in BOOLEAN /\ touched' \in BOOLEAN
        /\ touched => touched'
        /\ ~touched' => sticks' = {} /\ ~heave'
        /\ start_pose' \in {start_pose, NoPose}
    BY <1>1, <2>1 DEF TrajectoryInv, NothingPushed
  <2> QED BY <2>1, <2>2, <2>3, StepOperator
<1>9. ASSUME NEW pushed \in BOOLEAN, OnManualCommand(pushed)
      PROVE  TrajectoryInv'
  <2>1. /\ sticks' = sticks /\ heave' = pushed
        /\ touched' = (touched \/ pushed)
        /\ start_pose' = IF touched' THEN NoPose ELSE start_pose
    BY <1>9 DEF OnManualCommand
  <2>2. /\ heave' \in BOOLEAN /\ touched' \in BOOLEAN
        /\ touched => touched'
        /\ ~touched' => sticks' = {} /\ ~heave'
        /\ start_pose' \in {start_pose, NoPose}
    BY <1>1, <2>1 DEF TrajectoryInv, NothingPushed
  <2>3. sticks' \in SUBSET Components
    BY <1>1, <2>1
  <2>4. UNCHANGED <<scenarioVars, measuredVars, holdVars, startVars, elapsed,
                    published>>
    BY <1>9 DEF OnManualCommand
  <2> QED BY <2>2, <2>3, <2>4, StepOperator
<1>10. CASE OperatorInputExpires
  <2>1. /\ sticks' = {} /\ heave' = FALSE
        /\ UNCHANGED <<scenarioVars, measuredVars, holdVars, startVars, elapsed,
                       touched, start_pose, published>>
    BY <1>10 DEF OperatorInputExpires, ForgetInputs
  <2> QED BY <1>1, <2>1, StepOperator
<1> QED
  BY <1>2, <1>3, <1>4, <1>5, <1>6, <1>7, <1>8, <1>9, <1>10,
     StepOnValidateScenario, StepOnResetScenario, StepOnStopScenario,
     StepSetParameters, StepTickAltitudeHold, StepTickStationHold
     DEF TrajectoryNext, TrajectoryTick

LEMMA TrajectoryInvariant == TrajectorySpec => []TrajectoryInv
BY TrajectoryInitially, TrajectoryStep, PTL DEF TrajectorySpec

-----------------------------------------------------------------------------
(* on_stop_scenario, on_reset_scenario and station_hold_target: whatever   *)
(* was pushed before the stop and wherever the vehicle drifts, a hold that *)
(* nobody has touched stays where Start put it.                            *)
THEOREM HoldStaysPut == TrajectorySpec => []UntouchedHoldStaysPut
<1>1. TrajectoryInv => UntouchedHoldStaysPut
  BY DEF TrajectoryInv
<1> QED BY <1>1, TrajectoryInvariant, PTL

(* station_hold_target and altitude_hold_sample, for every pool, vehicle    *)
(* and sequence of pushes, releases and timeouts: a component at rest is    *)
(* where Start put it or where the vehicle was at the first neutral tick.   *)
THEOREM HoldRests == TrajectorySpec => []HoldRestsWhereLeft
<1>1. TrajectoryInv => HoldRestsWhereLeft
  BY DEF TrajectoryInv, Rests
<1> QED BY <1>1, TrajectoryInvariant, PTL

(* Every pose of an automatic run was inside the pool when Validate        *)
(* sampled it, in the approach, in the first lap and in every later one.   *)
LEMMA AutomaticInside ==
  ASSUME TrajectoryInv, approved, Automatic(scenario),
         NEW pose \in AutomaticPoses
  PROVE  InPool(pose)
<1>1. /\ ApproachInside(scenario, motion_start)
      /\ LapInside(scenario, motion_start)
  BY DEF TrajectoryInv, ApprovalHolds, EnvelopeInsideLimits
<1>2. elapsed \in Nat /\ scenario.prelude \in Nat
  BY TrajectoryConstants DEF TrajectoryInv, TrajectoryTypeOK, Scenario
<1>3. CASE elapsed < scenario.prelude
  <2>1. elapsed \in 0..(scenario.prelude - 1)
    BY <1>2, <1>3
  <2>2. pose \in MovePoses(scenario, motion_start, elapsed)
    BY <1>3 DEF AutomaticPoses
  <2> QED BY <1>1, <2>1, <2>2 DEF ApproachInside
<1>4. CASE ~(elapsed < scenario.prelude)
  <2>1. elapsed - scenario.prelude \in Nat
    BY <1>2, <1>4
  <2>2. pose = SampleAt(scenario, motion_start, elapsed - scenario.prelude)
    BY <1>4 DEF AutomaticPoses
  <2> QED BY <1>1, <2>1, <2>2, ApprovedSamples
<1> QED BY <1>3, <1>4

LEMMA ApprovedTick ==
  ASSUME TrajectoryInv, approved, TickStationHold \/ TickAutomatic
  PROVE  published'
<1>1. /\ Compatible(scenario) /\ envelope_valid
      /\ EnvelopeInsideLimits(scenario, motion_start)
  BY DEF TrajectoryInv, ApprovalHolds
<1>2. CASE TickAutomatic
  <2>1. PICK pose \in AutomaticPoses : published' = TargetIsValid(pose)
    BY <1>2 DEF TickAutomatic
  <2>2. InPool(pose)
    BY <1>2, AutomaticInside DEF TickAutomatic
  <2> QED BY <1>1, <2>1, <2>2 DEF TargetIsValid
<1>3. CASE TickStationHold
  <2>1. \A c \in Bounded : PoolMin[c] < PoolMax[c]
    BY <1>1, <1>3 DEF TickStationHold, StationHold, EnvelopeInsideLimits,
                      HoldInside, InPool
  <2>2. InPool(ClipToPool(StationPose))
    BY <1>3, <2>1, StationPoseFacts, TargetClipFacts
  <2> QED BY <1>1, <1>3, <2>2, StationPoseFacts DEF TargetIsValid
<1> QED BY <1>2, <1>3

(* validate_scenario_envelope and target_is_valid: the run that Validate   *)
(* approved is never invalidated by its own target, at any time of any     *)
(* lap, because the lap it sampled with its ramp stands for all of them.   *)
THEOREM ApprovedRunNeverInvalidates == TrajectorySpec => ApprovedRunStaysValid
<1> DEFINE Valid == RunsAsStarted /\ approved /\ (TickStationHold \/ TickAutomatic)
                      => published'
<1>1. TrajectoryInv => Valid
  BY ApprovedTick
<1>2. TrajectoryInv /\ [TrajectoryNext]_trajectoryVars => [Valid]_trajectoryVars
  BY <1>1
<1> QED BY <1>2, TrajectoryInvariant, PTL
        DEF TrajectorySpec, ApprovedRunStaysValid
=============================================================================
