------------------------ MODULE TrackingExperimentProofs ------------------------
(***************************************************************************)
(* Proofs about TrackingExperiment, for any set of goals.                  *)
(*                                                                         *)
(* The recorder is the lock: a goal past the start of its run owns the     *)
(* run, so the trajectory is nobody else's to change.  That a finished     *)
(* goal has disarmed rests on the generations: whoever arms later takes a  *)
(* newer one, and an authority armed with the goal's own generation is     *)
(* still on the goal's controller, so it cannot refuse to disarm.          *)
(***************************************************************************)
EXTENDS TrackingExperiment, TLAPS

(* What a goal has loaded, latched and started, phase by phase.             *)
PathFollowsPhase ==
  \A g \in Goals :
    /\ phase[g] \in (Preparing \ {"configure"}) \cup Running =>
         trajectory.parameters = g
    /\ phase[g] \in (Preparing \ {"configure", "validate"}) \cup Running =>
         trajectory.start = g
    /\ phase[g] \in {"ready", "arm"} \cup Running => trajectory.started

(* An arming is never newer than the authority, belongs to a goal that has  *)
(* come that far, and while it lasts the source is the goal's controller.   *)
ArmingIsKnown ==
  \A g \in Goals :
    /\ armed_as[g] <= authority.generation
    /\ armed_as[g] # 0 => phase[g] \in Running \cup Ending \cup {"done"}
    /\ ArmedBy(g) => authority.source = Controller[g]
    /\ ArmedBy(g) /\ Controller[g] = "rl" => AllowRl

RunInv == TypeOK /\ RunHasOneOwner /\ PathFollowsPhase
-----------------------------------------------------------------------------
LEMMA RunInit == Init => RunInv
<1> USE ExperimentAssumption
<1>1. ASSUME Init PROVE TypeOK
  <2>1. 0 \in 0..MaxGeneration
    OBVIOUS
  <2>2. authority \in Authority /\ status \in Authority
    BY <1>1, <2>1 DEF Init, Authority, Sources
  <2>3. phase \in [Goals -> Phases]
    BY <1>1 DEF Init, Phases
  <2>4. /\ recorder \in [run : Goals \cup {NoGoal}, alive : BOOLEAN]
        /\ trajectory \in [parameters : Goals \cup {NoGoal},
                           start : Goals \cup {NoGoal}, started : BOOLEAN]
    BY <1>1 DEF Init
  <2>5. /\ status_seen \in BOOLEAN
        /\ cancel_requested \in [Goals -> BOOLEAN]
        /\ outcome \in [Goals -> {"none", "success", "failed", "canceled"}]
    BY <1>1 DEF Init
  <2>6. /\ before \in [Goals -> 0..MaxGeneration]
        /\ armed_as \in [Goals -> 0..MaxGeneration]
    BY <1>1, <2>1 DEF Init
  <2> QED BY <2>2, <2>3, <2>4, <2>5, <2>6 DEF TypeOK
<1>2. Init => RunHasOneOwner /\ PathFollowsPhase
  BY DEF Init, RunHasOneOwner, PathFollowsPhase, Owning, Preparing, Running, Ending
<1> QED BY <1>1, <1>2 DEF RunInv

(* What the clean-up and the calls to the authority leave.                  *)
LEMMA AuthorityStaysTyped ==
  ASSUME TypeOK, NEW s \in Sources, Disarmed(s) \/ Armed(s)
  PROVE  authority' \in Authority
<1>1. CASE Disarmed(s)
  BY <1>1 DEF TypeOK, Authority, Disarmed
<1>2. CASE Armed(s)
  <2> DEFINE next == IF authority.armed THEN authority.generation
                     ELSE authority.generation + 1
  <2>1. authority.generation \in 0..MaxGeneration
    BY DEF TypeOK, Authority
  <2>2. next \in 0..MaxGeneration
    BY <1>2, <2>1, ExperimentAssumption DEF Armed
  <2>3. authority' = [authority EXCEPT !.armed = TRUE, !.source = s,
                                       !.generation = next]
    BY <1>2 DEF Armed
  <2> HIDE DEF next
  <2> QED BY <2>2, <2>3 DEF TypeOK, Authority
<1> QED BY <1>1, <1>2

(* Starting, ending or losing a run leaves a recorder a recorder.            *)
LEMMA RecorderStaysTyped ==
  ASSUME recorder \in [run : Goals \cup {NoGoal}, alive : BOOLEAN],
         NEW r \in Goals \cup {NoGoal}, NEW a \in BOOLEAN,
         \/ recorder' = recorder
         \/ recorder' = [recorder EXCEPT !.run = r]
         \/ recorder' = [recorder EXCEPT !.alive = a]
         \/ recorder' = [recorder EXCEPT !.run = r, !.alive = a]
  PROVE  recorder' \in [run : Goals \cup {NoGoal}, alive : BOOLEAN]
OBVIOUS

LEMMA TypeStep == TypeOK /\ [Next]_vars => TypeOK'
<1> SUFFICES ASSUME TypeOK, [Next]_vars PROVE TypeOK'
  OBVIOUS
<1> USE ExperimentAssumption
<1>s. \A g \in Goals : Controller[g] \in Sources
  BY DEF Sources
<1>a. authority.source \in Sources
  BY DEF TypeOK, Authority
<1> USE DEF TypeOK, Goto, Finish, FailActiveRun, Proceed, Phases, Owning,
            Preparing, Running, Ending
<1>1. ASSUME NEW g \in Goals, Start(g) PROVE TypeOK'
  BY <1>1 DEF Start
<1>2. ASSUME NEW g \in Goals, Neutralize(g) PROVE TypeOK'
  <2>1. authority' \in Authority
    BY <1>2, <1>a, AuthorityStaysTyped DEF Neutralize
  <2> QED BY <1>2, <2>1 DEF Neutralize
<1>3. ASSUME NEW g \in Goals, Select(g) PROVE TypeOK'
  <2>1. authority' \in Authority
    BY <1>3, <1>s, AuthorityStaysTyped DEF Select
  <2> QED BY <1>3, <2>1 DEF Select
<1>4. ASSUME NEW g \in Goals, ConfirmDisarmed(g) PROVE TypeOK'
  BY <1>4 DEF ConfirmDisarmed
<1>5. ASSUME NEW g \in Goals, StartRun(g) PROVE TypeOK'
  <2>1. recorder' \in [run : Goals \cup {NoGoal}, alive : BOOLEAN]
    <3>1. \/ recorder' = [recorder EXCEPT !.run = g]
          \/ recorder' = recorder
          \/ recorder' = [recorder EXCEPT !.run = g, !.alive = FALSE]
      BY <1>5 DEF StartRun
    <3>2. recorder \in [run : Goals \cup {NoGoal}, alive : BOOLEAN]
      BY DEF TypeOK
    <3> QED BY ONLY <3>1, <3>2, RecorderStaysTyped
  <2>2. phase' \in [Goals -> Phases] /\ outcome' = outcome
    BY <1>5 DEF StartRun
  <2> QED BY <1>5, <2>1, <2>2 DEF StartRun
<1>6. ASSUME NEW g \in Goals, DisarmRefused(g) PROVE TypeOK'
  <2>1. authority' \in Authority
    BY <1>6, <1>s, AuthorityStaysTyped DEF DisarmRefused, BestEffortDisarm
  <2> QED BY <1>6, <2>1 DEF DisarmRefused
<1>7. ASSUME NEW g \in Goals, Configure(g) PROVE TypeOK'
  BY <1>7 DEF Configure
<1>8. ASSUME NEW g \in Goals, Validate(g) PROVE TypeOK'
  BY <1>8 DEF Validate
<1>9. ASSUME NEW g \in Goals, Reset(g) PROVE TypeOK'
  <2>1. trajectory' \in [parameters : Goals \cup {NoGoal},
                         start : Goals \cup {NoGoal}, started : BOOLEAN]
    BY <1>9 DEF Reset, ResetTrajectory
  <2>2. phase' \in [Goals -> Phases]
    BY <1>9 DEF Reset, ResetTrajectory
  <2>3. outcome' \in [Goals -> {"none", "success", "failed", "canceled"}]
    BY <1>9 DEF Reset, ResetTrajectory
  <2> QED BY <1>9, <2>1, <2>2, <2>3 DEF Reset
<1>10. ASSUME NEW g \in Goals, TrackingReady(g) PROVE TypeOK'
  BY <1>10 DEF TrackingReady, Authority
<1>11. ASSUME NEW g \in Goals, ArmController(g) PROVE TypeOK'
  <2>1. authority' \in Authority
    BY <1>11, <1>s, AuthorityStaysTyped DEF ArmController
  <2>2. authority'.generation \in 0..MaxGeneration
    BY <2>1 DEF Authority
  <2> QED BY <1>11, <2>1, <2>2 DEF ArmController
<1>12. ASSUME NEW g \in Goals, ConfirmArmed(g) PROVE TypeOK'
  BY <1>12 DEF ConfirmArmed
<1>13. ASSUME NEW g \in Goals, StartClock(g) PROVE TypeOK'
  <2>1. trajectory' \in [parameters : Goals \cup {NoGoal},
                         start : Goals \cup {NoGoal}, started : BOOLEAN]
    BY <1>13 DEF StartClock, ResetTrajectory
  <2>2. phase' \in [Goals -> Phases]
    BY <1>13 DEF StartClock, ResetTrajectory
  <2>3. outcome' \in [Goals -> {"none", "success", "failed", "canceled"}]
    BY <1>13 DEF StartClock, ResetTrajectory
  <2> QED BY <1>13, <2>1, <2>2, <2>3 DEF StartClock
<1>14. ASSUME NEW g \in Goals, TrackingEnds(g) PROVE TypeOK'
  BY <1>14 DEF TrackingEnds
<1>15. ASSUME NEW g \in Goals, StopTrajectory(g) PROVE TypeOK'
  BY <1>15 DEF StopTrajectory
<1>16. ASSUME NEW g \in Goals, DisarmController(g) PROVE TypeOK'
  <2>1. authority' \in Authority
    BY <1>16, <1>s, AuthorityStaysTyped DEF DisarmController, BestEffortDisarm
  <2> QED BY <1>16, <2>1 DEF DisarmController
<1>17. ASSUME NEW g \in Goals, StopRun(g) PROVE TypeOK'
  <2>1. recorder' \in [run : Goals \cup {NoGoal}, alive : BOOLEAN]
    <3>1. \/ recorder' = [recorder EXCEPT !.run = NoGoal]
          \/ recorder' = [recorder EXCEPT !.alive = FALSE]
      BY <1>17 DEF StopRun
    <3>2. recorder \in [run : Goals \cup {NoGoal}, alive : BOOLEAN]
      BY DEF TypeOK
    <3> QED BY ONLY <3>1, <3>2, RecorderStaysTyped
  <2>2. phase' \in [Goals -> Phases] /\ outcome' = outcome
    BY <1>17 DEF StopRun
  <2> QED BY <1>17, <2>1, <2>2 DEF StopRun
<1>18. ASSUME NEW g \in Goals, CancelRequest(g) PROVE TypeOK'
  BY <1>18 DEF CancelRequest
<1>19. CASE OnAuthority
  BY <1>19 DEF OnAuthority, goalVars
<1>20. CASE AuthorityTrips
  BY <1>20 DEF AuthorityTrips, goalVars, Authority
<1>21. CASE Operator
  <2>1. CASE authority' = [authority EXCEPT !.fault = FALSE]
    BY <1>21, <2>1 DEF Operator, goalVars, Authority
  <2>2. ASSUME NEW s \in Sources, Armed(s) \/ Disarmed(s) PROVE TypeOK'
    <3>1. authority' \in Authority
      BY <2>2, AuthorityStaysTyped
    <3> QED BY <1>21, <3>1 DEF Operator, goalVars
  <2> QED BY <1>21, <2>1, <2>2 DEF Operator
<1>22. CASE UNCHANGED vars
  BY <1>22 DEF vars
<1> QED
  BY <1>1, <1>2, <1>3, <1>4, <1>5, <1>6, <1>7, <1>8, <1>9, <1>10, <1>11,
     <1>12, <1>13, <1>14, <1>15, <1>16, <1>17, <1>18, <1>19, <1>20, <1>21,
     <1>22 DEF Next, Execute

(* What StartRun writes into the recorder names the run it has started.     *)
LEMMA RunGiven ==
  ASSUME NEW g \in Goals,
         recorder \in [run : Goals \cup {NoGoal}, alive : BOOLEAN],
         \/ recorder' = [recorder EXCEPT !.run = g]
         \/ recorder' = [recorder EXCEPT !.run = g, !.alive = FALSE]
  PROVE  recorder'.run = g
OBVIOUS

(* A step of goal g that leaves the recorder alone and touches the          *)
(* trajectory only if g has a run keeps the lock: no other goal owns it.    *)
LEMMA OwnerStep == RunInv /\ [Next]_vars => (RunHasOneOwner /\ PathFollowsPhase)'
<1> SUFFICES ASSUME RunInv, [Next]_vars
             PROVE  (RunHasOneOwner /\ PathFollowsPhase)'
  OBVIOUS
<1> USE ExperimentAssumption
<1> USE DEF RunInv, TypeOK, RunHasOneOwner, PathFollowsPhase, Goto, Finish,
            FailActiveRun, Proceed, Phases, Owning, Preparing, Running, Ending
<1> DEFINE Goal == (RunHasOneOwner /\ PathFollowsPhase)'
<1>1. ASSUME NEW g \in Goals, Start(g) PROVE Goal
  BY <1>1 DEF Start
<1>2. ASSUME NEW g \in Goals, Neutralize(g) PROVE Goal
  BY <1>2 DEF Neutralize
<1>3. ASSUME NEW g \in Goals, Select(g) PROVE Goal
  BY <1>3 DEF Select
<1>4. ASSUME NEW g \in Goals, ConfirmDisarmed(g) PROVE Goal
  BY <1>4 DEF ConfirmDisarmed
<1>5. ASSUME NEW g \in Goals, StartRun(g) PROVE Goal
  <2>1. CASE recorder' = recorder
             /\ (Proceed(g, "refused") \/ Proceed(g, "unanswered"))
    BY <1>5, <2>1 DEF StartRun
  <2>2. CASE RunCanStart /\ recorder'.run = g
             /\ (Proceed(g, "configure") \/ Proceed(g, "unanswered"))
    <3>1. \A h \in Goals : phase[h] \notin Owning
      BY <2>2 DEF RunCanStart
    <3> QED BY <1>5, <2>2, <3>1 DEF StartRun
  <2>3. \/ recorder' = [recorder EXCEPT !.run = g]
        \/ recorder' = [recorder EXCEPT !.run = g, !.alive = FALSE]
        => recorder'.run = g
    BY RunGiven DEF TypeOK
  <2> QED BY <1>5, <2>1, <2>2, <2>3 DEF StartRun
<1>6. ASSUME NEW g \in Goals, DisarmRefused(g) PROVE Goal
  BY <1>6 DEF DisarmRefused
<1>7. ASSUME NEW g \in Goals, Configure(g) PROVE Goal
  BY <1>7 DEF Configure
<1>8. ASSUME NEW g \in Goals, Validate(g) PROVE Goal
  BY <1>8 DEF Validate
<1>9. ASSUME NEW g \in Goals, Reset(g) PROVE Goal
  BY <1>9 DEF Reset, ResetTrajectory
<1>10. ASSUME NEW g \in Goals, TrackingReady(g) PROVE Goal
  BY <1>10 DEF TrackingReady
<1>11. ASSUME NEW g \in Goals, ArmController(g) PROVE Goal
  BY <1>11 DEF ArmController
<1>12. ASSUME NEW g \in Goals, ConfirmArmed(g) PROVE Goal
  BY <1>12 DEF ConfirmArmed
<1>13. ASSUME NEW g \in Goals, StartClock(g) PROVE Goal
  BY <1>13 DEF StartClock, ResetTrajectory
<1>14. ASSUME NEW g \in Goals, TrackingEnds(g) PROVE Goal
  BY <1>14 DEF TrackingEnds
<1>15. ASSUME NEW g \in Goals, StopTrajectory(g) PROVE Goal
  BY <1>15 DEF StopTrajectory
<1>16. ASSUME NEW g \in Goals, DisarmController(g) PROVE Goal
  BY <1>16 DEF DisarmController
<1>17. ASSUME NEW g \in Goals, StopRun(g) PROVE Goal
  BY <1>17 DEF StopRun
<1>18. ASSUME NEW g \in Goals, CancelRequest(g) PROVE Goal
  BY <1>18 DEF CancelRequest
<1>19. CASE OnAuthority \/ AuthorityTrips \/ Operator \/ UNCHANGED vars
  BY <1>19 DEF OnAuthority, AuthorityTrips, Operator, goalVars, vars
<1> QED
  BY <1>1, <1>2, <1>3, <1>4, <1>5, <1>6, <1>7, <1>8, <1>9, <1>10, <1>11,
     <1>12, <1>13, <1>14, <1>15, <1>16, <1>17, <1>18, <1>19 DEF Next, Execute

(* What the authority may do in a step, whoever asks it.                    *)
AuthorityMoves ==
  \/ authority' = authority
  \/ authority'.armed = FALSE /\ authority'.generation = authority.generation
  \/ /\ ~authority.armed /\ authority'.armed
     /\ authority'.generation = authority.generation + 1
  \/ /\ authority.armed /\ authority'.armed
     /\ authority'.generation = authority.generation
     /\ authority'.source = authority.source

LEMMA ArmMoves ==
  ASSUME TypeOK, NEW s \in Sources, ~Refuses(s), Armed(s)
  PROVE  /\ AuthorityMoves
         /\ authority'.armed /\ authority'.source = s
         /\ authority'.generation \in Nat \ {0} \/ authority.armed
<1>1. authority.generation \in Nat /\ authority.armed \in BOOLEAN
  BY ExperimentAssumption DEF TypeOK, Authority
<1>2. /\ authority'.armed = TRUE /\ authority'.source = s
      /\ authority'.generation = IF authority.armed THEN authority.generation
                                 ELSE authority.generation + 1
  BY DEF TypeOK, Authority, Armed
<1> QED BY <1>1, <1>2 DEF AuthorityMoves, Refuses

LEMMA DisarmMoves ==
  ASSUME TypeOK, NEW s \in Sources, Disarmed(s)
  PROVE  AuthorityMoves /\ authority'.armed = FALSE
BY DEF TypeOK, Authority, Disarmed, AuthorityMoves

LEMMA RunInductive == Spec => []RunInv
<1>1. RunInv /\ [Next]_vars => RunInv'
  BY TypeStep, OwnerStep DEF RunInv
<1> QED BY RunInit, <1>1, PTL DEF Spec

(* An arming that the step did not make does not come back.                 *)
LEMMA ArmingFades ==
  ASSUME TypeOK, TypeOK', ArmingIsKnown, AuthorityMoves, NEW g \in Goals,
         armed_as'[g] = armed_as[g]
  PROVE  /\ ArmedBy(g)' => ArmedBy(g) /\ authority'.source = authority.source
         /\ armed_as'[g] <= authority'.generation
<1>1. /\ authority.generation \in Nat /\ authority'.generation \in Nat
      /\ armed_as[g] \in Nat
  BY ExperimentAssumption DEF TypeOK, Authority
<1>2. armed_as[g] <= authority.generation
  BY DEF ArmingIsKnown
<1> QED BY <1>1, <1>2 DEF AuthorityMoves, ArmedBy

(* A step in which nobody arms for a goal, no goal loses its progress and a *)
(* goal that finishes has nothing armed.                                    *)
LEMMA QuietStep ==
  ASSUME TypeOK, TypeOK', ArmingIsKnown, FinishedIsDisarmed, AuthorityMoves,
         armed_as' = armed_as,
         \A g \in Goals : phase'[g] = phase[g] \/
           /\ phase[g] \in Running \cup Ending \cup {"done"}
              => phase'[g] \in Running \cup Ending \cup {"done"}
           /\ phase'[g] \in {"stop_run", "done"}
              => \/ phase[g] \in {"stop_run", "done"}
                 \/ phase[g] \notin Running \cup Ending \cup {"done"}
                 \/ ~ArmedBy(g)'
  PROVE  (ArmingIsKnown /\ FinishedIsDisarmed)'
<1>1. \A g \in Goals :
        /\ ArmedBy(g)' => ArmedBy(g) /\ authority'.source = authority.source
        /\ armed_as'[g] <= authority'.generation
  BY ArmingFades
<1>2. ArmingIsKnown'
  <2> SUFFICES ASSUME NEW g \in Goals
               PROVE  /\ armed_as'[g] <= authority'.generation
                      /\ armed_as'[g] # 0 =>
                           phase'[g] \in Running \cup Ending \cup {"done"}
                      /\ ArmedBy(g)' => authority'.source = Controller[g]
                      /\ ArmedBy(g)' /\ Controller[g] = "rl" => AllowRl
    BY DEF ArmingIsKnown
  <2> QED BY <1>1 DEF ArmingIsKnown
<1>3. FinishedIsDisarmed'
  <2> SUFFICES ASSUME NEW g \in Goals, phase'[g] \in {"stop_run", "done"},
                      ArmedBy(g)'
               PROVE  FALSE
    BY DEF FinishedIsDisarmed
  <2>1. ArmedBy(g)
    BY <1>1
  <2>2. phase[g] \in Running \cup Ending \cup {"done"}
    BY <2>1 DEF ArmingIsKnown, ArmedBy
  <2>3. phase[g] \notin {"stop_run", "done"}
    BY <2>1 DEF FinishedIsDisarmed
  <2> QED BY <2>2, <2>3
<1> QED BY <1>2, <1>3

LEMMA ArmingStep ==
  ASSUME "authority_missing" \notin Hazards,
         TypeOK, TypeOK', ArmingIsKnown, FinishedIsDisarmed, [Next]_vars
  PROVE  (ArmingIsKnown /\ FinishedIsDisarmed)'
<1> USE ExperimentAssumption
<1> DEFINE Goal == (ArmingIsKnown /\ FinishedIsDisarmed)'
<1>s. /\ \A g \in Goals : Controller[g] \in Sources
      /\ authority.source \in Sources
  BY DEF TypeOK, Authority, Sources
<1>p. phase \in [Goals -> Phases]
  BY DEF TypeOK
<1> DEFINE Moved(g, q) == phase' = [phase EXCEPT ![g] = q]
<1>m. ASSUME NEW g \in Goals, NEW q, Moved(g, q), armed_as' = armed_as,
             AuthorityMoves,
             /\ phase[g] \in Running \cup Ending \cup {"done"}
                => q \in Running \cup Ending \cup {"done"}
             /\ q \in {"stop_run", "done"}
                => \/ phase[g] \in {"stop_run", "done"}
                   \/ phase[g] \notin Running \cup Ending \cup {"done"}
                   \/ ~ArmedBy(g)'
      PROVE  Goal
  <2>1. phase'[g] = q /\ \A h \in Goals : h # g => phase'[h] = phase[h]
    BY <1>m, <1>p
  <2> QED BY <1>m, <2>1, QuietStep
<1>q. ASSUME authority' = authority PROVE AuthorityMoves
  BY <1>q DEF AuthorityMoves
<1>n. ASSUME phase' = phase, armed_as' = armed_as, AuthorityMoves PROVE Goal
  BY <1>n, QuietStep
<1> HIDE DEF Goal
<1> USE DEF Goto, Finish, FailActiveRun, Proceed, Running, Ending
<1>1. ASSUME NEW g \in Goals, Start(g) PROVE Goal
  BY <1>1, <1>m, <1>q DEF Start
<1>2. ASSUME NEW g \in Goals, Neutralize(g) PROVE Goal
  <2>1. AuthorityMoves
    BY <1>2, <1>q, <1>s, DisarmMoves DEF Neutralize
  <2> QED BY <1>2, <2>1, <1>m DEF Neutralize
<1>3. ASSUME NEW g \in Goals, Select(g) PROVE Goal
  <2>1. AuthorityMoves
    BY <1>3, <1>q, <1>s, DisarmMoves DEF Select
  <2> QED BY <1>3, <2>1, <1>m DEF Select
<1>4. ASSUME NEW g \in Goals, ConfirmDisarmed(g) PROVE Goal
  BY <1>4, <1>m, <1>q DEF ConfirmDisarmed
<1>5. ASSUME NEW g \in Goals, StartRun(g) PROVE Goal
  BY <1>5, <1>m, <1>n, <1>q DEF StartRun
<1>6. ASSUME NEW g \in Goals, DisarmRefused(g) PROVE Goal
  <2>1. AuthorityMoves
    BY <1>6, <1>q, <1>s, DisarmMoves DEF DisarmRefused, BestEffortDisarm
  <2> QED BY <1>6, <2>1, <1>m DEF DisarmRefused
<1>7. ASSUME NEW g \in Goals, Configure(g) PROVE Goal
  BY <1>7, <1>m, <1>q DEF Configure
<1>8. ASSUME NEW g \in Goals, Validate(g) PROVE Goal
  BY <1>8, <1>m, <1>q DEF Validate
<1>9. ASSUME NEW g \in Goals, Reset(g) PROVE Goal
  BY <1>9, <1>m, <1>q DEF Reset, ResetTrajectory
<1>10. ASSUME NEW g \in Goals, TrackingReady(g) PROVE Goal
  BY <1>10, <1>m, <1>q DEF TrackingReady
<1>11. ASSUME NEW g \in Goals, ArmController(g) PROVE Goal
  <2>1. CASE UNCHANGED <<authority, armed_as>> /\ FailActiveRun(g)
    BY <1>11, <2>1, <1>m, <1>q DEF ArmController
  <2>2. CASE /\ ~Refuses(Controller[g]) /\ Armed(Controller[g])
             /\ armed_as' = [armed_as EXCEPT ![g] = authority'.generation]
             /\ Proceed(g, "confirm_arm")
    <3>1. AuthorityMoves /\ authority'.source = Controller[g]
      BY <2>2, <1>s, ArmMoves
    <3>2. armed_as'[g] = authority'.generation /\ phase'[g] = "confirm_arm"
      BY <2>2, <1>p DEF TypeOK
    <3>3. \A h \in Goals : h # g =>
            armed_as'[h] = armed_as[h] /\ phase'[h] = phase[h]
      BY <2>2, <1>p DEF TypeOK
    <3>4. authority'.generation \in Nat
      BY DEF TypeOK, Authority
    <3>5. \A h \in Goals : h # g =>
            /\ ArmedBy(h)' => ArmedBy(h) /\ authority'.source = authority.source
            /\ armed_as'[h] <= authority'.generation
      BY <3>1, <3>3, ArmingFades
    <3>6. Controller[g] = "rl" => AllowRl
      BY <2>2 DEF Refuses
    <3>7. ArmingIsKnown'
      <4> SUFFICES ASSUME NEW h \in Goals
                   PROVE  /\ armed_as'[h] <= authority'.generation
                          /\ armed_as'[h] # 0 =>
                               phase'[h] \in Running \cup Ending \cup {"done"}
                          /\ ArmedBy(h)' => authority'.source = Controller[h]
                          /\ ArmedBy(h)' /\ Controller[h] = "rl" => AllowRl
        BY DEF ArmingIsKnown
      <4>1. CASE h = g
        BY <4>1, <3>1, <3>2, <3>4, <3>6
      <4>2. CASE h # g
        BY <4>2, <3>3, <3>5 DEF ArmingIsKnown
      <4> QED BY <4>1, <4>2
    <3>8. FinishedIsDisarmed'
      <4> SUFFICES ASSUME NEW h \in Goals, phase'[h] \in {"stop_run", "done"}
                   PROVE  ~ArmedBy(h)'
        BY DEF FinishedIsDisarmed
      <4> QED BY <3>2, <3>3, <3>5 DEF FinishedIsDisarmed
    <3> QED BY <3>7, <3>8 DEF Goal
  <2> QED BY <1>11, <2>1, <2>2 DEF ArmController
<1>12. ASSUME NEW g \in Goals, ConfirmArmed(g) PROVE Goal
  BY <1>12, <1>m, <1>q DEF ConfirmArmed
<1>13. ASSUME NEW g \in Goals, StartClock(g) PROVE Goal
  BY <1>13, <1>m, <1>q DEF StartClock, ResetTrajectory
<1>14. ASSUME NEW g \in Goals, TrackingEnds(g) PROVE Goal
  BY <1>14, <1>m, <1>q DEF TrackingEnds
<1>15. ASSUME NEW g \in Goals, StopTrajectory(g) PROVE Goal
  BY <1>15, <1>m, <1>q DEF StopTrajectory
<1>16. ASSUME NEW g \in Goals, DisarmController(g) PROVE Goal
  <2>1. AuthorityMoves
    BY <1>16, <1>q, <1>s, DisarmMoves DEF DisarmController, BestEffortDisarm
  <2>2. ~ArmedBy(g)'
    <3>1. CASE Disarmed(Controller[g])
      BY <3>1, <1>s, DisarmMoves DEF ArmedBy
    <3>2. CASE Refuses(Controller[g]) /\ UNCHANGED authority
      BY <1>16, <3>2 DEF DisarmController, Refuses, ArmingIsKnown, ArmedBy
    <3> QED BY <1>16, <3>1, <3>2 DEF DisarmController, BestEffortDisarm
  <2> QED BY <1>16, <2>1, <2>2, <1>m DEF DisarmController
<1>17. ASSUME NEW g \in Goals, StopRun(g) PROVE Goal
  BY <1>17, <1>m, <1>n, <1>q DEF StopRun
<1>18. ASSUME NEW g \in Goals, CancelRequest(g) PROVE Goal
  BY <1>18, <1>n, <1>q DEF CancelRequest
<1>19. CASE OnAuthority \/ UNCHANGED vars
  BY <1>19, <1>n, <1>q DEF OnAuthority, goalVars, vars, Goal
<1>20. CASE AuthorityTrips
  <2>1. AuthorityMoves
    BY <1>20 DEF AuthorityTrips, AuthorityMoves, TypeOK, Authority
  <2> QED BY <1>20, <2>1, <1>n DEF AuthorityTrips, goalVars, Goal
<1>21. CASE Operator
  <2>1. ASSUME NEW s \in Sources, ~Refuses(s), Armed(s) \/ Disarmed(s)
        PROVE  AuthorityMoves
    BY <2>1, ArmMoves, DisarmMoves
  <2>2. ASSUME authority' = [authority EXCEPT !.fault = FALSE]
        PROVE  AuthorityMoves
    <3>1. /\ authority'.armed = authority.armed
          /\ authority'.generation = authority.generation
          /\ authority'.source = authority.source
          /\ authority.armed \in BOOLEAN
      BY <2>2 DEF TypeOK, Authority
    <3> QED BY <3>1 DEF AuthorityMoves
  <2>3. AuthorityMoves
    BY <1>21, <2>1, <2>2 DEF Operator
  <2> QED BY <1>21, <2>3, <1>n DEF Operator, goalVars, Goal
<1> QED
  BY <1>1, <1>2, <1>3, <1>4, <1>5, <1>6, <1>7, <1>8, <1>9, <1>10, <1>11,
     <1>12, <1>13, <1>14, <1>15, <1>16, <1>17, <1>18, <1>19, <1>20, <1>21
  DEF Next, Execute, Goal
-----------------------------------------------------------------------------
(* For any number of goals, whoever is between the start and the end of its *)
(* run is the one the recorder (on_start_run) has a run for.                *)
THEOREM ExperimentRunHasOneOwner == Spec => []RunHasOneOwner
<1>1. RunInv => RunHasOneOwner
  BY DEF RunInv
<1> QED BY RunInductive, <1>1, PTL

(* For any number of goals, the trajectory that is followed while armed is  *)
(* the one that was validated for the goal that armed.                      *)
THEOREM ExperimentArmedTracksValidatedPath == Spec => []ArmedTracksValidatedPath
<1>1. RunInv => ArmedTracksValidatedPath
  BY DEF RunInv, PathFollowsPhase, ArmedTracksValidatedPath
<1> QED BY RunInductive, <1>1, PTL

(* For any number of goals, a goal that is over has left nothing armed, as  *)
(* long as disarm() reaches the authority.                                  *)
THEOREM ExperimentFinishedIsDisarmed ==
  ASSUME "authority_missing" \notin Hazards
  PROVE  Spec => []FinishedIsDisarmed
<1> DEFINE Inv == TypeOK /\ ArmingIsKnown /\ FinishedIsDisarmed
<1>1. Init => Inv
  <2>1. Init => TypeOK
    BY RunInit DEF RunInv
  <2>2. Init => ArmingIsKnown /\ FinishedIsDisarmed
    BY DEF Init, ArmingIsKnown, FinishedIsDisarmed, ArmedBy
  <2> QED BY <2>1, <2>2
<1>2. Inv /\ [Next]_vars => Inv'
  BY TypeStep, ArmingStep
<1> QED BY <1>1, <1>2, PTL DEF Spec
=============================================================================
