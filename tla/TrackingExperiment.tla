-------------------------- MODULE TrackingExperiment --------------------------
(***************************************************************************)
(* tracking_experiment, the action server that runs a managed task: it     *)
(* hands the control authority over, records the run, loads, validates and *)
(* starts the trajectory, arms, watches, and cleans up again.              *)
(*                                                                         *)
(* Every goal is executed by a coroutine of its own, and goals are not     *)
(* serialised: several may be under way at once, together with an operator *)
(* who uses the same authority service.  The servers it calls are here as  *)
(* far as the calls change them: the authority (CommandAuthority has all   *)
(* of it), the run recorder and the trajectory node.                       *)
(*                                                                         *)
(* An action is one service call together with the coroutine's reaction to *)
(* the response, which depends on the response alone, or one loop that     *)
(* waits for a status.  Every wait may time out, every call may be refused *)
(* or find its service missing, except where the code has no such path.    *)
(***************************************************************************)
EXTENDS Naturals

CONSTANTS Goals,           \* the goals sent to the action server
          Controller,      \* the controller that each goal's task names
          Endless,         \* the goals whose task has run_until_stopped
          AllowRl,         \* the authority's allow_rl_hardware
          MaxGeneration,   \* bound on arm_generation
          Hazards          \* what may go wrong, a subset of HazardKinds

Sources == {"manual", "pid", "rl"}
NoGoal  == "none"

(* The authority trips, the operator intervenes, the recorder process dies, *)
(* the authority service is not discovered within wait_for_service.         *)
HazardKinds == {"trip", "operator", "recorder_crash", "authority_missing"}

ASSUME ExperimentAssumption ==
  /\ NoGoal \notin Goals
  /\ Controller \in [Goals -> {"pid", "rl"}]
  /\ Endless \subseteq Goals
  /\ AllowRl \in BOOLEAN
  /\ MaxGeneration \in Nat
  /\ Hazards \subseteq HazardKinds

VARIABLES authority,   \* armed_, selected_source_, arm_generation_, fault_latched_
          status,      \* self.authority: the authority as last reported
          status_seen, \* self.authority is not None
          recorder,    \* run_logger: the goal whose run is active; alive or not
          trajectory,  \* trajectory_command: whose parameters, whose start
                       \* pose (motion_start_*), tracking_started
          phase,       \* where each goal's coroutine is
          cancel_requested,
          before,      \* arm_generation_before
          outcome,     \* how each goal ends
          armed_as     \* history: the generation of the goal's own arming

goalVars == <<phase, cancel_requested, before, outcome, armed_as>>
vars == <<authority, status, status_seen, recorder, trajectory, phase,
          cancel_requested, before, outcome, armed_as>>

(* The phases in which a goal has an active run.                            *)
Preparing == {"configure", "validate", "reset", "ready", "arm"}
Running   == {"confirm_arm", "start_clock", "track"}
Ending    == {"stop_trajectory", "disarm", "stop_run"}
Owning    == Preparing \cup Running \cup Ending
Phases    == {"idle", "neutralize", "select", "confirm", "start_run",
              "unanswered", "refused", "done"} \cup Owning

Goto(g, next) == phase' = [phase EXCEPT ![g] = next]

(* finish(False): the goal is aborted, nothing is cleaned up.               *)
Finish(g) ==
  /\ Goto(g, "done")
  /\ outcome' = [outcome EXCEPT ![g] = "failed"]

(* fail_active_run starts the same clean-up as the end of the main loop.    *)
FailActiveRun(g) ==
  /\ Goto(g, "stop_trajectory")
  /\ outcome' = [outcome EXCEPT ![g] = "failed"]

Proceed(g, next) == Goto(g, next) /\ UNCHANGED outcome

-----------------------------------------------------------------------------
(* The authority service, as CommandAuthority has it.                       *)

Refuses(source) ==
  \/ authority.armed /\ source # authority.source
  \/ source = "rl" /\ ~AllowRl

Disarmed(source) ==
  authority' = [authority EXCEPT !.armed = FALSE, !.source = source]

(* Arming while disarmed takes a new generation; arming again changes       *)
(* nothing.                                                                 *)
Armed(source) ==
  /\ ~authority.fault
  /\ authority.armed \/ authority.generation < MaxGeneration
  /\ authority' =
       [authority EXCEPT !.armed = TRUE, !.source = source,
                         !.generation = IF authority.armed THEN @ ELSE @ + 1]

(* disarm(source): the response, or that there is none, is not looked at.   *)
(* The authority refuses only when it is armed for another source, which    *)
(* means that somebody else has taken over.                                 *)
BestEffortDisarm(source) ==
  \/ ~Refuses(source) /\ Disarmed(source)
  \/ Refuses(source) /\ UNCHANGED authority
  \/ "authority_missing" \in Hazards /\ UNCHANGED authority

-----------------------------------------------------------------------------
(* execute(): the hand-over.                                                *)

Start(g) ==
  /\ phase[g] = "idle"
  /\ IF status_seen /\ ~status.fault THEN Proceed(g, "neutralize") ELSE Finish(g)
  /\ UNCHANGED <<authority, status, status_seen, recorder, trajectory,
                 cancel_requested, before, armed_as>>

(* set_authority("", False): whichever source is selected is disarmed.      *)
Neutralize(g) ==
  /\ phase[g] = "neutralize"
  /\ \/ Disarmed(authority.source) /\ Proceed(g, "select")
     \/ UNCHANGED authority /\ Finish(g)
  /\ UNCHANGED <<status, status_seen, recorder, trajectory, cancel_requested,
                 before, armed_as>>

Select(g) ==
  /\ phase[g] = "select"
  /\ \/ ~Refuses(Controller[g]) /\ Disarmed(Controller[g]) /\ Proceed(g, "confirm")
     \/ UNCHANGED authority /\ Finish(g)
  /\ UNCHANGED <<status, status_seen, recorder, trajectory, cancel_requested,
                 before, armed_as>>

(* wait_for_disarmed_status, confirmed or timed out.                        *)
ConfirmDisarmed(g) ==
  /\ phase[g] = "confirm"
  /\ \/ /\ ~status.armed /\ ~status.fault /\ status.source = Controller[g]
        /\ Proceed(g, "start_run")
     \/ Finish(g)
  /\ UNCHANGED <<authority, status, status_seen, recorder, trajectory,
                 cancel_requested, before, armed_as>>

-----------------------------------------------------------------------------
(* The run recorder.                                                        *)

(* variant: a start request opens a new run over the active one.            *)
RunCanStartAlways == TRUE

(* on_start_run refuses while event_log_handle is open.                     *)
RunCanStart == recorder.run = NoGoal

(* on_start_run.  A recorder whose rosbag exits during start-up raises in   *)
(* the service callback, which ends the process.  From a dead recorder a    *)
(* goal turns away when wait_for_service times out; one whose call is under *)
(* way waits for a response that never comes.                               *)
StartRun(g) ==
  /\ phase[g] = "start_run"
  /\ \/ /\ recorder.alive /\ RunCanStart
        /\ \/ recorder' = [recorder EXCEPT !.run = g] /\ Proceed(g, "configure")
           \/ /\ "recorder_crash" \in Hazards
              /\ recorder' = [recorder EXCEPT !.run = g, !.alive = FALSE]
              /\ Proceed(g, "unanswered")
     \/ Proceed(g, "refused") /\ UNCHANGED recorder
     \/ ~recorder.alive /\ Proceed(g, "unanswered") /\ UNCHANGED recorder
  /\ UNCHANGED <<authority, status, status_seen, trajectory, cancel_requested,
                 before, armed_as>>

(* The goal that got no run disarms its controller again.                   *)
DisarmRefused(g) ==
  /\ phase[g] = "refused"
  /\ BestEffortDisarm(Controller[g])
  /\ Finish(g)
  /\ UNCHANGED <<status, status_seen, recorder, trajectory, cancel_requested,
                 before, armed_as>>

-----------------------------------------------------------------------------
(* execute(): preparation, while disarmed.                                  *)

Configure(g) ==
  /\ phase[g] = "configure"
  /\ \/ /\ trajectory' = [trajectory EXCEPT !.parameters = g]
        /\ Proceed(g, "validate")
     \/ UNCHANGED trajectory /\ FailActiveRun(g)
  /\ UNCHANGED <<authority, status, status_seen, recorder, cancel_requested,
                 before, armed_as>>

(* on_validate_scenario latches the start pose before it judges the         *)
(* envelope; without a pose it changes nothing that a reset reads.          *)
Validate(g) ==
  /\ phase[g] = "validate"
  /\ \/ /\ trajectory' = [trajectory EXCEPT !.start = trajectory.parameters]
        /\ Proceed(g, "reset") \/ FailActiveRun(g)
     \/ UNCHANGED trajectory /\ FailActiveRun(g)
  /\ UNCHANGED <<authority, status, status_seen, recorder, cancel_requested,
                 before, armed_as>>

(* on_reset_scenario needs the latched start pose and nothing else.         *)
ResetTrajectory(g, next) ==
  \/ /\ trajectory.start # NoGoal
     /\ trajectory' = [trajectory EXCEPT !.started = TRUE]
     /\ Proceed(g, next)
  \/ UNCHANGED trajectory /\ FailActiveRun(g)

Reset(g) ==
  /\ phase[g] = "reset"
  /\ ResetTrajectory(g, "ready")
  /\ UNCHANGED <<authority, status, status_seen, recorder, cancel_requested,
                 before, armed_as>>

(* wait_for_tracking_ready: only a started trajectory publishes a target of *)
(* the goal's type and mode.                                                *)
TrackingReady(g) ==
  /\ phase[g] = "ready"
  /\ \/ /\ trajectory.started /\ trajectory.parameters = g
        /\ before' = [before EXCEPT ![g] = status.generation]
        /\ Proceed(g, "arm")
     \/ UNCHANGED before /\ FailActiveRun(g)
  /\ UNCHANGED <<authority, status, status_seen, recorder, trajectory,
                 cancel_requested, armed_as>>

(* set_authority(controller, True): refused, not ready, or armed.           *)
ArmController(g) ==
  /\ phase[g] = "arm"
  /\ \/ /\ ~Refuses(Controller[g])
        /\ Armed(Controller[g])
        /\ armed_as' = [armed_as EXCEPT ![g] = authority'.generation]
        /\ Proceed(g, "confirm_arm")
     \/ UNCHANGED <<authority, armed_as>> /\ FailActiveRun(g)
  /\ UNCHANGED <<status, status_seen, recorder, trajectory, cancel_requested,
                 before>>

(* wait_for_armed_status.                                                   *)
ConfirmArmed(g) ==
  /\ phase[g] = "confirm_arm"
  /\ \/ /\ status.armed /\ ~status.fault /\ status.source = Controller[g]
        /\ status.generation > before[g]
        /\ Proceed(g, "start_clock")
     \/ FailActiveRun(g)
  /\ UNCHANGED <<authority, status, status_seen, recorder, trajectory,
                 cancel_requested, before, armed_as>>

(* The second reset, which starts the official clock.                       *)
StartClock(g) ==
  /\ phase[g] = "start_clock"
  /\ ResetTrajectory(g, "track")
  /\ UNCHANGED <<authority, status, status_seen, recorder, cancel_requested,
                 before, armed_as>>

-----------------------------------------------------------------------------
(* execute(): the main loop and its finally block.                          *)

(* variant: the loop looks at the authority but not at the cancel request.  *)
CancelSeenNever(g) == FALSE

CancelSeen(g) == cancel_requested[g]

AuthorityLost(g) ==
  ~status.armed \/ status.source # Controller[g] \/ status.fault

(* The loop ends: the duration is over, or the goal was canceled, or the    *)
(* authority was lost, looked at in this order.                             *)
TrackingEnds(g) ==
  /\ phase[g] = "track"
  /\ \E result \in {"success", "canceled", "failed"} :
       /\ result = "success"  => g \notin Endless
       /\ result = "canceled" => CancelSeen(g)
       /\ result = "failed"   => ~CancelSeen(g) /\ AuthorityLost(g)
       /\ outcome' = [outcome EXCEPT ![g] = result]
  /\ Goto(g, "stop_trajectory")
  /\ UNCHANGED <<authority, status, status_seen, recorder, trajectory,
                 cancel_requested, before, armed_as>>

(* variant: the run is closed without disarming.                            *)
StopTrajectoryOnly(g) ==
  /\ phase[g] = "stop_trajectory"
  /\ trajectory' = [trajectory EXCEPT !.started = FALSE, !.start = NoGoal]
  /\ Proceed(g, "stop_run")
  /\ UNCHANGED <<authority, status, status_seen, recorder, cancel_requested,
                 before, armed_as>>

(* stop_trajectory: on_stop_scenario, unless the service is missing.        *)
StopTrajectory(g) ==
  /\ phase[g] = "stop_trajectory"
  /\ \/ trajectory' = [trajectory EXCEPT !.started = FALSE, !.start = NoGoal]
     \/ UNCHANGED trajectory
  /\ Proceed(g, "disarm")
  /\ UNCHANGED <<authority, status, status_seen, recorder, cancel_requested,
                 before, armed_as>>

DisarmController(g) ==
  /\ phase[g] = "disarm"
  /\ BestEffortDisarm(Controller[g])
  /\ Proceed(g, "stop_run")
  /\ UNCHANGED <<status, status_seen, recorder, trajectory, cancel_requested,
                 before, armed_as>>

(* on_stop_run closes whatever run is active.  The recorder may die of a    *)
(* rosbag that does not stop; the goal then never ends.                     *)
StopRun(g) ==
  /\ phase[g] = "stop_run"
  /\ recorder.alive
  /\ \/ /\ recorder.run # NoGoal
        /\ recorder' = [recorder EXCEPT !.run = NoGoal]
        /\ Proceed(g, "done")
     \/ /\ "recorder_crash" \in Hazards \/ recorder.run = NoGoal
        /\ recorder' = [recorder EXCEPT !.alive = FALSE]
        /\ UNCHANGED <<phase, outcome>>
  /\ UNCHANGED <<authority, status, status_seen, trajectory, cancel_requested,
                 before, armed_as>>

-----------------------------------------------------------------------------
(* The rest of the world.                                                   *)

CancelRequest(g) ==
  /\ phase[g] \notin {"idle", "done"}
  /\ ~cancel_requested[g]
  /\ cancel_requested' = [cancel_requested EXCEPT ![g] = TRUE]
  /\ UNCHANGED <<authority, status, status_seen, recorder, trajectory, phase,
                 before, outcome, armed_as>>

(* on_authority: the status topic keeps the last message only.              *)
OnAuthority ==
  /\ status' = authority
  /\ status_seen' = TRUE
  /\ UNCHANGED <<authority, recorder, trajectory, goalVars>>

AuthorityTrips ==
  /\ "trip" \in Hazards
  /\ authority.armed
  /\ authority' = [authority EXCEPT !.armed = FALSE, !.fault = TRUE]
  /\ UNCHANGED <<status, status_seen, recorder, trajectory, goalVars>>

Operator ==
  /\ "operator" \in Hazards
  /\ \/ authority' = [authority EXCEPT !.fault = FALSE]
     \/ \E s \in Sources : ~Refuses(s) /\ (Armed(s) \/ Disarmed(s))
  /\ UNCHANGED <<status, status_seen, recorder, trajectory, goalVars>>

Init ==
  /\ authority = [armed |-> FALSE, source |-> "manual", generation |-> 0,
                  fault |-> FALSE]
  /\ status = authority
  /\ status_seen = FALSE
  /\ recorder = [run |-> NoGoal, alive |-> TRUE]
  /\ trajectory = [parameters |-> NoGoal, start |-> NoGoal, started |-> FALSE]
  /\ phase = [g \in Goals |-> "idle"]
  /\ cancel_requested = [g \in Goals |-> FALSE]
  /\ before = [g \in Goals |-> 0]
  /\ outcome = [g \in Goals |-> "none"]
  /\ armed_as = [g \in Goals |-> 0]

(* What the coroutine of an accepted goal does.                             *)
Execute(g) ==
  \/ Neutralize(g) \/ Select(g) \/ ConfirmDisarmed(g) \/ StartRun(g)
  \/ DisarmRefused(g) \/ Configure(g) \/ Validate(g) \/ Reset(g)
  \/ TrackingReady(g) \/ ArmController(g) \/ ConfirmArmed(g) \/ StartClock(g)
  \/ TrackingEnds(g) \/ StopTrajectory(g) \/ DisarmController(g) \/ StopRun(g)

Next ==
  \/ \E g \in Goals : Start(g) \/ Execute(g) \/ CancelRequest(g)
  \/ OnAuthority
  \/ AuthorityTrips
  \/ Operator

Spec == Init /\ [][Next]_vars

(* Responses arrive and one-shot timers fire, so a coroutine that can go on *)
(* does; the authority keeps reporting.  Nobody has to cancel or trip.      *)
FairSpec ==
  /\ Spec
  /\ \A g \in Goals : WF_vars(Execute(g))
  /\ WF_vars(OnAuthority)

-----------------------------------------------------------------------------
(* Properties.                                                              *)

Authority == [armed : BOOLEAN, source : Sources, generation : 0..MaxGeneration,
              fault : BOOLEAN]

TypeOK ==
  /\ authority \in Authority
  /\ status \in Authority
  /\ status_seen \in BOOLEAN
  /\ recorder \in [run : Goals \cup {NoGoal}, alive : BOOLEAN]
  /\ trajectory \in [parameters : Goals \cup {NoGoal}, start : Goals \cup {NoGoal},
                     started : BOOLEAN]
  /\ phase \in [Goals -> Phases]
  /\ cancel_requested \in [Goals -> BOOLEAN]
  /\ before \in [Goals -> 0..MaxGeneration]
  /\ outcome \in [Goals -> {"none", "success", "failed", "canceled"}]
  /\ armed_as \in [Goals -> 0..MaxGeneration]

(* The authority is armed, and it was this goal that armed it.              *)
ArmedBy(g) ==
  authority.armed /\ armed_as[g] # 0 /\ authority.generation = armed_as[g]

(* The recorder serialises the goals: nothing in tracking_experiment does,  *)
(* but whoever is past the start of its run owns the run, so two goals      *)
(* never prepare, arm or clean up at the same time.                         *)
RunHasOneOwner == \A g \in Goals : phase[g] \in Owning => recorder.run = g

(* From the moment a goal arms to the end of its main loop the trajectory   *)
(* node has that goal's parameters, runs, and starts from the pose that was *)
(* latched when they were validated - although a reset checks neither and   *)
(* other goals come and go.                                                 *)
ArmedTracksValidatedPath ==
  \A g \in Goals :
    phase[g] \in Running =>
      trajectory.parameters = g /\ trajectory.start = g /\ trajectory.started

(* "always disarms when it completes, is canceled, or detects an authority  *)
(* fault" (docs/PID_POOL_TRACKING.md:198): a goal that has returned its     *)
(* result has left nothing armed, on any of its error paths.  It holds      *)
(* while the authority service is there; without it the goal goes on as if  *)
(* it had disarmed.                                                         *)
FinishedIsDisarmed ==
  \A g \in Goals : phase[g] \in {"stop_run", "done"} => ~ArmedBy(g)

(* A cancellation is honoured however far the goal has come: it may still   *)
(* arm, but ends disarmed for good, even if the recorder dies.              *)
CancelDisarms == \A g \in Goals : cancel_requested[g] ~> []~ArmedBy(g)

(* A goal ends once its duration is over, or once it is canceled, unless    *)
(* the recorder has died and the goal waits for its answer.                 *)
GoalEnds ==
  \A g \in Goals :
    (phase[g] # "idle" /\ (g \notin Endless \/ cancel_requested[g]))
      ~> \/ phase[g] = "done"
         \/ ~recorder.alive /\ phase[g] \in {"unanswered", "stop_run"}
=============================================================================
