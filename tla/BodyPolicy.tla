------------------------------ MODULE BodyPolicy ------------------------------
(***************************************************************************)
(* body_policy_node: loads a policy, keeps the inputs that its manifest    *)
(* requires, and at every tick of its timer either runs one inference and  *)
(* publishes the action or reports what is missing.                        *)
(*                                                                         *)
(* The policies of the t60 layout see, besides the current observation, a  *)
(* history of the frames of their last inferences, newest first            *)
(* (T60ObservationState).  A frame is represented by its age in ticks, a   *)
(* sample by its age.  Time is counted in ticks: the timer is not late,    *)
(* and the messages of a tick arrive before its callback runs.             *)
(***************************************************************************)
EXTENDS Integers, Sequences, SequencesExt

CONSTANTS MaxInputAge,     \* max_input_age_s, in ticks
          StateDelay,      \* state_delay_s, in ticks
          HistoryLength    \* T60ObservationState.history_length

ASSUME PolicyAssumption ==
  /\ {MaxInputAge, StateDelay} \subseteq Nat
  /\ HistoryLength \in Nat \ {0}

(* The runners of create_runner, and the node without one.                  *)
RunnerKinds == {"dummy", "onnx", "tensorrt"}
Keeps(kind) == kind \in {"onnx", "tensorrt"}       \* a T60ObservationState
Required(kind) ==
  IF Keeps(kind) THEN {"body_state", "external_imu", "thruster_cmd", "target"}
  ELSE {"body_state"}
Buffers == {"device_input", "device_output", "stream"}

(* TensorRtRunner: __init__ allocates, close releases.                      *)
AllocationOrder == <<"device_input", "device_output", "stream">>
ReleaseOrder == <<"stream", "device_output", "device_input">>

(* Ages are told apart up to the first that is too old even for a delayed   *)
(* sample.                                                                  *)
TooOld == MaxInputAge + StateDelay + 1
Never  == TooOld + 1
Stale  == MaxInputAge + 1          \* of an input; or it never came
MaxStreak == StateDelay + HistoryLength + 1
Older(age) == IF age >= TooOld THEN age ELSE age + 1

VARIABLES policy_up,       \* the process runs
          policy_kind,     \* manifest.runner; "invalid" after a rejected manifest
          runner,          \* self.runner is not None
          loading,         \* how far load_policy is; "idle" outside it
          held,            \* the CUDA buffers and stream of the runner at hand
          tried,           \* releases that its close() has tried
          leaked,          \* left allocated by runners that the last load gave up
          refused,         \* history: releases that CUDA refused in the last load
          bodies,          \* body_state_history, oldest first: [age, usable]
          imus,            \* external_imu_history: ages
          input_age,       \* the age of each input's last_seen_ns
          target_valid,    \* the last target's valid
          frames,          \* T60ObservationState.history: ages; zero frames are left out
          last_ready,      \* last_input_ready
          acted,           \* the tick published an action
          used_age,        \* history: the age of the body sample it was from
          streak           \* history: ticks in a row that were ready

deviceVars == <<loading, held, tried, leaked, refused>>
observedVars == <<bodies, imus, input_age, target_valid, frames, last_ready, acted, used_age,
                  streak>>
policyVars == <<policy_up, policy_kind, runner, deviceVars, observedVars>>

Inputs == {"body_state", "external_imu", "thruster_cmd", "target"}

-----------------------------------------------------------------------------
(* load_policy is one callback of a single-threaded executor: while it is   *)
(* loading nothing else of the node runs.  It closes the previous runner,   *)
(* tries the manifest and then the runner; the buffers of the inputs, which *)
(* nobody sees before it returns, are cleared here when it starts.  What an *)
(* earlier load left allocated no one can release: it is not kept here.     *)

Idle == policy_up /\ loading = "idle"

LoadPolicy ==
  /\ Idle
  /\ loading' = IF runner /\ policy_kind = "tensorrt" THEN "closing" ELSE "manifest"
  /\ runner' = FALSE
  /\ bodies' = <<>> /\ imus' = <<>>
  /\ input_age' = [i \in Inputs |-> Stale]
  /\ target_valid' = FALSE
  /\ frames' = <<>>
  /\ last_ready' = FALSE
  /\ acted' = FALSE /\ used_age' = Never /\ streak' = 0
  /\ leaked' = {} /\ refused' = {}
  /\ UNCHANGED <<policy_up, policy_kind, held, tried>>

(* load_policy_manifest raises: no such file, a field that is missing or    *)
(* empty or of the wrong type, another role.                                *)
ManifestRejected ==
  /\ loading = "manifest"
  /\ policy_kind' = "invalid" /\ loading' = "idle"
  /\ UNCHANGED <<policy_up, runner, held, tried, leaked, refused, observedVars>>

(* create_runner raises before anything is allocated: a library, the model  *)
(* or its tensors are not as expected.                                      *)
RunnerFails(k) ==
  /\ loading = "manifest" /\ k # "dummy"
  /\ policy_kind' = k /\ loading' = "idle"
  /\ UNCHANGED <<policy_up, runner, held, tried, leaked, refused, observedVars>>

CreateRunner(k) ==
  /\ loading = "manifest"
  /\ policy_kind' = k
  /\ IF k = "tensorrt" THEN loading' = "allocating" /\ UNCHANGED runner
     ELSE loading' = "idle" /\ runner' = TRUE
  /\ UNCHANGED <<policy_up, held, tried, leaked, refused, observedVars>>

Allocate ==
  /\ loading = "allocating"
  /\ \E n \in DOMAIN AllocationOrder :
        /\ {AllocationOrder[m] : m \in 1 .. (n - 1)} = held
        /\ held' = held \cup {AllocationOrder[n]}
  /\ UNCHANGED <<policy_up, policy_kind, runner, loading, tried, leaked, refused,
                 observedVars>>

(* An allocation fails after others have succeeded, or the context rejects  *)
(* an address: __init__ calls close() and raises.                           *)
AllocationFails ==
  /\ loading = "allocating"
  /\ loading' = "undoing"
  /\ UNCHANGED <<policy_up, policy_kind, runner, held, tried, leaked, refused, observedVars>>

RunnerLoaded ==
  /\ loading = "allocating" /\ held = Buffers
  /\ runner' = TRUE /\ loading' = "idle"
  /\ UNCHANGED <<policy_up, policy_kind, held, tried, leaked, refused, observedVars>>

(* close(): each release stands in the finally of the one before it, so     *)
(* that one that CUDA refuses raises only after the others were tried.      *)
Closing == loading \in {"closing", "raising", "undoing"}

(* variant: without the finally, the first refusal ends it.                 *)
TriedUntilRefused(refuses) == IF refuses THEN Len(ReleaseOrder) ELSE tried + 1

Tried(refuses) == tried + 1

ReleaseNext(refuses) ==
  /\ Closing /\ tried < Len(ReleaseOrder)
  /\ LET buffer == ReleaseOrder[tried + 1]
         failed == IF refuses THEN {buffer} ELSE {}
     IN /\ failed \subseteq held
        /\ held' = held \ {buffer}
        /\ leaked' = leaked \cup failed
        /\ refused' = refused \cup failed
  /\ tried' = Tried(refuses)
  /\ loading' = IF refuses /\ loading = "closing" THEN "raising" ELSE loading
  /\ UNCHANGED <<policy_up, policy_kind, runner, observedVars>>

(* The runner is given up, and _closed keeps __del__ from trying again:     *)
(* what it still holds stays allocated.                                     *)
CloseReturns ==
  /\ loading \in {"closing", "undoing"} /\ tried = Len(ReleaseOrder)
  /\ loading' = IF loading = "closing" THEN "manifest" ELSE "idle"
  /\ leaked' = leaked \cup held /\ held' = {} /\ tried' = 0
  /\ UNCHANGED <<policy_up, policy_kind, runner, refused, observedVars>>

(* close() of the previous runner raises; load_policy does not catch it,    *)
(* and the process ends with all its device memory.                         *)
CloseRaises ==
  /\ loading = "raising" /\ tried = Len(ReleaseOrder)
  /\ policy_up' = FALSE /\ loading' = "idle"
  /\ held' = {} /\ tried' = 0 /\ leaked' = {} /\ refused' = {}
  /\ UNCHANGED <<policy_kind, runner, observedVars>>

LoadingStep ==
  \/ LoadPolicy
  \/ ManifestRejected
  \/ \E k \in RunnerKinds : RunnerFails(k) \/ CreateRunner(k)
  \/ Allocate \/ AllocationFails \/ RunnerLoaded
  \/ \E refuses \in BOOLEAN : ReleaseNext(refuses)
  \/ CloseReturns \/ CloseRaises

-----------------------------------------------------------------------------
(* The subscriptions.  An entry of a deque behind one that is old enough    *)
(* for delayed_sample is never looked at again, nor is one that another     *)
(* followed within the same tick; they are not kept here.                   *)

BodyAges == [i \in DOMAIN bodies |-> bodies[i].age]
Arrived(entries, ages) ==
  IF entries # <<>> /\ Last(ages) = 0 THEN Front(entries) ELSE entries

PolicyOnBodyState(usable) ==
  /\ Idle
  /\ bodies' = Append(Arrived(bodies, BodyAges), [age |-> 0, usable |-> usable])
  /\ input_age' = [input_age EXCEPT !["body_state"] = 0]
  /\ UNCHANGED <<policy_up, policy_kind, runner, deviceVars, imus, target_valid, frames,
                 last_ready, acted, used_age, streak>>

PolicyOnExternalImu ==
  /\ Idle
  /\ imus' = Append(Arrived(imus, imus), 0)
  /\ input_age' = [input_age EXCEPT !["external_imu"] = 0]
  /\ UNCHANGED <<policy_up, policy_kind, runner, deviceVars, bodies, target_valid, frames,
                 last_ready, acted, used_age, streak>>

PolicyOnThrusterCommand ==
  /\ Idle
  /\ input_age' = [input_age EXCEPT !["thruster_cmd"] = 0]
  /\ UNCHANGED <<policy_up, policy_kind, runner, deviceVars, bodies, imus, target_valid, frames,
                 last_ready, acted, used_age, streak>>

PolicyOnTarget(valid) ==
  /\ Idle
  /\ input_age' = [input_age EXCEPT !["target"] = 0]
  /\ target_valid' = valid
  /\ UNCHANGED <<policy_up, policy_kind, runner, deviceVars, bodies, imus, frames,
                 last_ready, acted, used_age, streak>>

-----------------------------------------------------------------------------
(* tick                                                                     *)

(* delayed_sample: the newest entry old enough, and those after it.         *)
FromDelayed(ages) ==
  LET eligible == {i \in DOMAIN ages : ages[i] >= StateDelay}
  IN IF eligible = {} THEN 0 ELSE CHOOSE i \in eligible : \A j \in eligible : j <= i

(* variant: old inputs count.                                               *)
MissingAtAnyAge ==
  LET b == FromDelayed(BodyAges) IN
    \/ policy_kind # "invalid" /\ (b = 0 \/ ~bodies[b].usable)
    \/ Keeps(policy_kind) /\ (FromDelayed(imus) = 0 \/ ~target_valid)

(* missing_inputs and what tick adds to it.                                 *)
Missing ==
  LET b == FromDelayed(BodyAges) IN
    \/ \E i \in Required(policy_kind) : input_age[i] > MaxInputAge
    \/ policy_kind # "invalid" /\ (b = 0 \/ ~bodies[b].usable)
    \/ Keeps(policy_kind) /\ (FromDelayed(imus) = 0 \/ ~target_valid)

(* commit(): the frame of this inference goes in front of the others, and   *)
(* the oldest falls out.                                                    *)
Commit(old) ==
  LET aged == [i \in DOMAIN old |-> old[i] + 1]
  IN SubSeq(<<0>> \o aged, 1, IF Len(aged) < HistoryLength THEN Len(aged) + 1
                              ELSE HistoryLength)

Committed == IF Keeps(policy_kind) THEN Commit(frames) ELSE frames

(* The exception handler of tick resets the runner, whatever was committed. *)
Raises(published) ==
  /\ acted' = published
  /\ last_ready' = FALSE /\ streak' = 0
  /\ frames' = <<>>

(* T60ObservationState.build: a vector that is not finite, a quaternion of  *)
(* norm zero, a wrong shape.  The layout of the dummy runner has none.      *)
BuildRaises == Keeps(policy_kind) /\ Raises(FALSE)

(* The model does not run to the end, so that nothing is committed.         *)
ExecuteRaises == Keeps(policy_kind) /\ Raises(FALSE)

(* decode_thruster_action refuses the action, after the commit.             *)
DecodeRaises == Keeps(policy_kind) /\ Raises(FALSE)

(* The action is published; policy_io cannot be written.                    *)
WritePolicyIoRaises == Raises(TRUE)

Infers ==
  /\ acted' = TRUE
  /\ last_ready' = TRUE
  /\ streak' = IF streak < MaxStreak THEN streak + 1 ELSE streak
  /\ frames' = Committed

(* variant: the runner is reset when an inference fails, not when inputs do.*)
NotReadyKeeping ==
  /\ acted' = FALSE /\ used_age' = Never /\ streak' = 0
  /\ last_ready' = ~Missing
  /\ frames' = [i \in DOMAIN frames |-> frames[i] + 1]

(* No inference: the runner is reset at the first tick that is not ready.   *)
NotReady ==
  /\ acted' = FALSE /\ used_age' = Never /\ streak' = 0
  /\ last_ready' = ~Missing
  /\ frames' = IF runner /\ Missing /\ last_ready THEN <<>>
                ELSE [i \in DOMAIN frames |-> frames[i] + 1]

(* The timer's callback, and the time to the next one.                      *)
PolicyTick ==
  /\ Idle
  /\ \/ /\ runner /\ ~Missing
        /\ BuildRaises \/ ExecuteRaises \/ DecodeRaises \/ WritePolicyIoRaises \/ Infers
        /\ used_age' = bodies[FromDelayed(BodyAges)].age
     \/ ~(runner /\ ~Missing) /\ NotReady
  /\ LET b == FromDelayed(BodyAges)  i == FromDelayed(imus)
         keptB == SubSeq(bodies, IF b = 0 THEN 1 ELSE b, Len(bodies))
         keptI == SubSeq(imus, IF i = 0 THEN 1 ELSE i, Len(imus))
     IN /\ bodies' = [j \in DOMAIN keptB |-> [keptB[j] EXCEPT !.age = Older(@)]]
        /\ imus' = [j \in DOMAIN keptI |-> Older(keptI[j])]
  /\ input_age' = [n \in Inputs |-> IF input_age[n] = Stale THEN Stale ELSE input_age[n] + 1]
  /\ UNCHANGED <<policy_up, policy_kind, runner, deviceVars, target_valid>>

-----------------------------------------------------------------------------

PolicyInit ==
  /\ policy_up = TRUE /\ policy_kind = "invalid" /\ runner = FALSE
  /\ loading = "idle" /\ held = {} /\ tried = 0 /\ leaked = {} /\ refused = {}
  /\ bodies = <<>> /\ imus = <<>>
  /\ input_age = [i \in Inputs |-> Stale]
  /\ target_valid = FALSE
  /\ frames = <<>> /\ last_ready = FALSE
  /\ acted = FALSE /\ used_age = Never /\ streak = 0

PolicyNext ==
  \/ LoadingStep
  \/ \E usable \in BOOLEAN : PolicyOnBodyState(usable)
  \/ PolicyOnExternalImu
  \/ PolicyOnThrusterCommand
  \/ \E valid \in BOOLEAN : PolicyOnTarget(valid)
  \/ PolicyTick

PolicySpec == PolicyInit /\ [][PolicyNext]_policyVars

-----------------------------------------------------------------------------

PolicyTypeOK ==
  /\ {policy_up, runner, target_valid, last_ready, acted} \subseteq BOOLEAN
  /\ policy_kind \in RunnerKinds \cup {"invalid"}
  /\ loading \in {"idle", "closing", "raising", "manifest", "allocating", "undoing"}
  /\ held \cup leaked \cup refused \subseteq Buffers
  /\ tried \in 0 .. Len(ReleaseOrder)
  /\ bodies \in Seq([age : 0 .. TooOld, usable : BOOLEAN])
  /\ imus \in Seq(0 .. TooOld)
  /\ input_age \in [Inputs -> 0 .. Stale]
  /\ frames \in Seq(Nat) /\ Len(frames) <= HistoryLength
  /\ used_age \in 0 .. Never
  /\ streak \in 0 .. MaxStreak

(* The history that the next inference sees is that of the successful       *)
(* inferences since inputs were last missing, an inference failed or the    *)
(* policy was loaded, one frame for each tick, newest first: a policy never *)
(* takes frames from before a gap for its recent past (T60ObservationState, *)
(* tick's two resets).                                                      *)
HistoryIsUnbroken ==
  Keeps(policy_kind) =>
    frames = [i \in 1 .. (IF streak < HistoryLength THEN streak ELSE HistoryLength)
                |-> i - 1]

(* The inputs are fresh when they arrive within max_input_age_s, but the    *)
(* sample used is the newest one that is state_delay_s old.  After a gap it *)
(* is the last one from before the gap, however old; that is over once the  *)
(* policy has been ready for longer than the delay (delayed_sample).        *)
StaleSampleOnlyAtResume ==
  acted /\ streak > StateDelay => used_age <= MaxInputAge + StateDelay

(* Between callbacks the loaded TensorRT runner has its device memory, all  *)
(* of it.  A policy that is replaced, or that fails half way through its    *)
(* allocations, leaves behind only what CUDA itself refused to take back,   *)
(* never a buffer whose release was skipped when another one failed         *)
(* (TensorRtRunner.__init__ and close, load_policy).                        *)
BuffersFollowRunner ==
  /\ loading = "idle" =>
       held = IF runner /\ policy_kind = "tensorrt" THEN Buffers ELSE {}
  /\ leaked = refused
=============================================================================
