------------------------------ MODULE MCRuntime ------------------------------
(***************************************************************************)
(* The nodes around the command path, for TLC.  They share no state with   *)
(* each other that a property here is about, so that an execution runs one *)
(* of them (launched) and parks the others: the state spaces add up        *)
(* instead of multiplying, and one run checks all of them.                 *)
(***************************************************************************)
EXTENDS SafetyMonitor, HostMap, RunLogger, BodyPolicy, PidController,
        TrajectoryCommand

VARIABLE launched

Nodes == {"safety_monitor", "host_manager", "run_logger", "body_policy",
          "six_dof_pid", "trajectory_command"}

(* The host's map: one surveyed tag.                                       *)
DeployedMap == [t \in {"tag1"} |-> "wall"]

(* Unit gains.  The sway loops have no integral, as deployed; only the     *)
(* altitude loop has a derivative gain.                                    *)
DeployedGains ==
    [l \in Loops |-> [g \in GainNames |->
        CASE g = "kp" -> 1
          [] g = "ki" -> IF l \in {"sway", "fast_sway"} THEN 0 ELSE 1
          [] g = "kd" -> IF l = "altitude" THEN 1 ELSE 0
          [] g = "integral_limit" ->
                IF l \in {"sway", "fast_sway"} THEN 0 ELSE 2]]
DeployedParameters ==
    [n \in ParameterNames |->
        IF n \in {"pitch_integral_limit", "yaw_axis_limit"} THEN 2 ELSE 1]
Deployed == [ready |-> TRUE, sign |-> -1, gains |-> DeployedGains,
             par |-> DeployedParameters, estimator |-> TRUE]
PidConfigurations ==
    {Deployed, [Deployed EXCEPT !.ready = FALSE],
     [Deployed EXCEPT !.par["yaw_slew"] = -1],
     [Deployed EXCEPT !.estimator = FALSE]}

(* Disturbances of surge, yaw and height together; sideways motion with    *)
(* pitch and yaw errors; a commanded turn; a height derivative.            *)
Quiet == [a \in Axes |-> [f \in {"t", "e", "v", "d"} |-> 0]]
Pushed(s, a, f, x) == [s EXCEPT ![a][f] = x]
PidSamples ==
    {Pushed(Pushed(Pushed(Quiet, "surge", "e", x), "yaw", "e", y),
            "heave", "e", y) : x \in -1..1, y \in {-1, 1}}
    \cup {Pushed(Pushed(Pushed(Quiet, "sway", "t", x), "pitch", "e", y),
                 "yaw", "e", 1) : x \in {0, 1}, y \in -1..1}
    \cup {Pushed(Quiet, "yaw", "t", 1)}
    \cup {Pushed(Pushed(Quiet, "heave", "d", 1), "heave", "e", 1)}

(* A pool of two cells; the vehicle inside it or beyond its wall; a path   *)
(* that stays inside from there but leaves the pool from the center.       *)
PoseAt(x, z, h) ==
    [c \in Components |-> CASE c = "planar" -> x [] c = "height" -> z
                            [] c = "heading" -> h]
MeasuredPoses == {PoseAt(1, 1, 0), PoseAt(2, 0, 1)}
PoolCenter == PoseAt(1, 0, 0)
LapOffsets == <<PoseAt(0, 0, 1), PoseAt(-1, -1, 0)>>
PoolLow == [c \in Bounded |-> 0]
PoolHigh == [c \in Bounded |-> 1]
Task(type, mode, relative) ==
    [type |-> type, mode |-> mode, relative |-> relative, within |-> TRUE,
     move |-> 1, prelude |-> 2]
CatalogTasks ==
    {Task("hold", "altitude_hold", FALSE), Task("hold", "station_hold", FALSE),
     Task("racetrack", "rl_policy", TRUE),
     Task("circle", "station_hold_fast", FALSE),
     Task("unknown", "idle", FALSE)}
StickInputs == {{}, {"height"}}

-----------------------------------------------------------------------------
runtimeVars == <<launched, safetyVars, hostVars, loggerVars, policyVars,
                 pidVars, trajectoryVars>>

Runs1(node, others) == launched = node /\ UNCHANGED <<launched, others>>

SafetyRuns == Runs1("safety_monitor",
    <<hostVars, loggerVars, policyVars, pidVars, trajectoryVars>>)
HostRuns == Runs1("host_manager",
    <<safetyVars, loggerVars, policyVars, pidVars, trajectoryVars>>)
LoggerRuns == Runs1("run_logger",
    <<safetyVars, hostVars, policyVars, pidVars, trajectoryVars>>)
PolicyRuns == Runs1("body_policy",
    <<safetyVars, hostVars, loggerVars, pidVars, trajectoryVars>>)
PidRuns == Runs1("six_dof_pid",
    <<safetyVars, hostVars, loggerVars, policyVars, trajectoryVars>>)
TrajectoryRuns == Runs1("trajectory_command",
    <<safetyVars, hostVars, loggerVars, policyVars, pidVars>>)

RuntimeInit ==
    /\ launched \in Nodes
    /\ SafetyInit /\ HostInit /\ LoggerInit /\ PolicyInit
    /\ PidInit /\ TrajectoryInit
    /\ launched # "six_dof_pid" =>
          tuning = RejectedConfiguration /\ pwm_limit = 0
    /\ launched # "trajectory_command" =>
          scenario = Task("unknown", "idle", FALSE)

RuntimeNext ==
    \/ SafetyRuns /\ SafetyNext
    \/ HostRuns /\ HostNext
    \/ LoggerRuns /\ LoggerNext
    \/ PolicyRuns /\ PolicyNext
    \/ PidRuns /\ PidNext
    \/ TrajectoryRuns /\ TrajectoryNext

(* The fairness of the nodes that have some: their timers fire and the     *)
(* executor gets round to a callback that stays ready.                     *)
RuntimeFairness ==
    /\ WF_runtimeVars(SafetyRuns /\ SafetyTick)
    /\ WF_runtimeVars(SafetyRuns /\ SafetyPeriod)
    /\ WF_runtimeVars(LoggerRuns /\ PublishRunDir)
    /\ WF_runtimeVars(LoggerRuns /\ OnRunDir)

RuntimeSpec == RuntimeInit /\ [][RuntimeNext]_runtimeVars /\ RuntimeFairness

(* The variables of the running node keep their types.                     *)
RuntimeTypeOK ==
    /\ launched = "safety_monitor" => SafetyTypeOK
    /\ launched = "host_manager" => HostTypeOK
    /\ launched = "run_logger" => LoggerTypeOK
    /\ launched = "body_policy" => PolicyTypeOK
    /\ launched = "six_dof_pid" => PidTypeOK
    /\ launched = "trajectory_command" => TrajectoryTypeOK
=============================================================================
