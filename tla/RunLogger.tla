------------------------------ MODULE RunLogger ------------------------------
(***************************************************************************)
(* run_logger: one folder, one event log and one rosbag2 child process for *)
(* every tracking run.  Callbacks run one at a time; one that raises ends  *)
(* the process, and destroy_node then stops the child and closes the log.  *)
(*                                                                         *)
(* Log records are reduced to marks: the two that open a run, the one that *)
(* ends it, and "event" for any number of summaries in a row.  The ROS     *)
(* clock may be set back.  What is kept of a time is the age that it has   *)
(* by that clock, in units of the second that on_safety_event and          *)
(* on_localization_status compare with.                                    *)
(* How often a stream of summaries passes its rate limit is left open.     *)
(*                                                                         *)
(* The folder is announced on /runtime/run_dir; body_policy, which logs    *)
(* its inferences there, is here with that subscription alone.             *)
(***************************************************************************)
EXTENDS Integers, Sequences, SequencesExt

CONSTANT MaxRuns            \* bound on the run folders created

ASSUME LoggerAssumption == MaxRuns \in Nat

Runs  == 1 .. MaxRuns
NoRun == 0

Safety  == {"clear", "abort"}      \* (code, message, abort_active)
Marks   == {"run_started", "start", "event", "end"}

VARIABLES logger_up,        \* the process runs
          folders,          \* run folders created so far
          run_dir,          \* self.run_dir
          log_open,         \* event_log_handle is not None
          child,            \* rosbag_process: the run it records
          recorders,        \* the runs that a recorder process is recording
          log,              \* the event log of each run, buffered marks included
          flushed,          \* how many of them are on disk
          safety_seen,      \* last_safety_signature
          safety_age,       \* ROS time since last_safety_log_ns
          localization_age, \* ROS time since last_localization_log_ns
          announced,        \* the folder last published on /runtime/run_dir
          undelivered,      \* body_policy has not taken it yet
          io_path,          \* body_policy: the run whose folder it writes to
          safety_received,  \* history: what the last safety event said
          safety_recorded,  \* history: what this run's log says last of it
          answered,         \* history: what the operator was told of each run
          orphaned          \* history: recorders nobody could stop any more

loggerVars == <<logger_up, folders, run_dir, log_open, child, recorders, log,
                flushed, safety_seen, safety_age, localization_age,
                announced, undelivered, io_path,
                safety_received, safety_recorded, answered, orphaned>>
runVars    == <<logger_up, folders, run_dir, log_open, child, recorders,
                answered, orphaned>>
limitVars  == <<safety_seen, safety_age, localization_age>>
topicVars  == <<announced, undelivered, io_path>>
safetyLogVars == <<safety_received, safety_recorded>>

-----------------------------------------------------------------------------

(* The log after one more record.                                           *)
Marked(marks, mark) ==
  IF mark = "event" /\ marks # <<>> /\ Last(marks) = "event" THEN marks
  ELSE Append(marks, mark)

(* write_event of one summary: nothing without an open log.                 *)
WriteEvent(flush) ==
  LET marks == IF log_open THEN Marked(log[run_dir], "event") ELSE <<>> IN
    IF log_open
    THEN /\ log' = [log EXCEPT ![run_dir] = marks]
         /\ flushed' = IF flush THEN [flushed EXCEPT ![run_dir] = Len(marks)] ELSE flushed
    ELSE UNCHANGED <<log, flushed>>

(* Closing the handle writes what is buffered.                              *)
Closed(run, marks) ==
  /\ log' = [log EXCEPT ![run] = marks]
  /\ flushed' = [flushed EXCEPT ![run] = Len(marks)]

(* publish_run_dir                                                          *)
Announce(run) == announced' = run /\ undelivered' = TRUE /\ UNCHANGED io_path

-----------------------------------------------------------------------------
(* on_start_run                                                             *)

RefuseRun == UNCHANGED loggerVars

Starting(run) ==
  /\ folders < MaxRuns
  /\ run = folders + 1
  /\ folders' = run
  /\ safety_recorded' = "none"
  /\ UNCHANGED <<limitVars, safety_received>>

(* variant: the run's first record is left in the buffer.                   *)
StartRunUnflushed(run) ==
  /\ Starting(run)
  /\ run_dir' = run /\ log_open' = TRUE /\ child' = run
  /\ recorders' = recorders \cup {run}
  /\ log' = [log EXCEPT ![run] = <<"run_started", "start">>]
  /\ answered' = [answered EXCEPT ![run] = "started"]
  /\ Announce(run)
  /\ UNCHANGED <<logger_up, flushed, orphaned>>

StartRun(run) ==
  /\ Starting(run)
  /\ run_dir' = run /\ log_open' = TRUE /\ child' = run
  /\ recorders' = recorders \cup {run}
  /\ Closed(run, <<"run_started", "start">>)
  /\ answered' = [answered EXCEPT ![run] = "started"]
  /\ Announce(run)
  /\ UNCHANGED <<logger_up, orphaned>>

(* The task is not in the catalog (snapshot_control_configs), or the        *)
(* recorder exits within half a second (start_rosbag): the exception ends   *)
(* the process.                                                             *)
StartRunRaises(run) ==
  /\ Starting(run)
  /\ logger_up' = FALSE /\ run_dir' = NoRun /\ log_open' = FALSE /\ child' = NoRun
  /\ UNCHANGED <<recorders, log, flushed, answered, orphaned, topicVars>>

(* variant: a second start is not refused.                                  *)
OnStartRunAlways(run) ==
  /\ logger_up
  /\ StartRun(run) \/ StartRunRaises(run)

OnStartRun(run) ==
  /\ logger_up
  /\ \/ log_open /\ RefuseRun
     \/ ~log_open /\ (StartRun(run) \/ StartRunRaises(run))

-----------------------------------------------------------------------------
(* on_stop_run                                                              *)

StopRun ==
  /\ child # NoRun
  /\ Closed(run_dir, Append(log[run_dir], "end"))
  /\ recorders' = recorders \ {child}
  /\ answered' = [answered EXCEPT ![run_dir] = "stopped"]
  /\ run_dir' = NoRun /\ log_open' = FALSE /\ child' = NoRun
  /\ UNCHANGED <<logger_up, folders, orphaned>>

(* The recorder does not end within ten seconds of SIGINT: the exception    *)
(* ends the process, whose destroy_node tries the same once more.           *)
StopRunTimesOut ==
  /\ child # NoRun
  /\ logger_up' = FALSE
  /\ Closed(run_dir, Append(log[run_dir], "end"))
  /\ \/ recorders' = recorders \ {child} /\ UNCHANGED orphaned
     \/ orphaned' = orphaned \cup {child} /\ UNCHANGED recorders
  /\ run_dir' = NoRun /\ log_open' = FALSE /\ child' = NoRun
  /\ UNCHANGED <<folders, answered>>

(* There is no run: stop_rosbag dereferences None.                          *)
StopRunRaises ==
  /\ child = NoRun
  /\ logger_up' = FALSE
  /\ UNCHANGED <<folders, run_dir, log_open, child, recorders, answered, orphaned,
                 log, flushed>>

OnStopRun ==
  /\ logger_up
  /\ StopRun \/ StopRunTimesOut \/ StopRunRaises
  /\ UNCHANGED <<limitVars, topicVars, safetyLogVars>>

-----------------------------------------------------------------------------
(* The subscriptions.                                                       *)

(* A summary of a stream whose limiter lets it pass (stream_log_due).       *)
Summarise ==
  /\ logger_up
  /\ WriteEvent(FALSE)
  /\ UNCHANGED <<runVars, limitVars, topicVars, safetyLogVars>>

(* The subscriptions that do no more than that differ in what they copy     *)
(* from the message into the record.                                        *)
OnThrusterCmd      == Summarise
OnTrajectoryTarget == Summarise
OnTrackingStatus   == Summarise
OnAuthorityStatus  == Summarise
OnPidStatus        == Summarise
OnPolicyStatus     == Summarise      \* no limiter

(* variant: repeated events are suppressed by time alone.                   *)
RepeatedWithinASecond(signature) == safety_age < 1

Repeated(signature) == signature = safety_seen /\ safety_age < 1

OnSafetyEvent(signature) ==
  /\ logger_up
  /\ safety_received' = signature
  /\ IF Repeated(signature)
     THEN UNCHANGED <<log, flushed, safety_seen, safety_age, safety_recorded>>
     ELSE /\ safety_seen' = signature
          /\ safety_age' = 0
          /\ WriteEvent(signature = "abort")
          /\ safety_recorded' = IF log_open THEN signature ELSE safety_recorded
  /\ UNCHANGED <<runVars, topicVars, localization_age>>

OnLocalizationStatus ==
  /\ logger_up
  /\ localization_age >= 1
  /\ localization_age' = 0
  /\ WriteEvent(FALSE)
  /\ UNCHANGED <<runVars, topicVars, safetyLogVars, safety_seen,
                 safety_age>>

FlushEventLog ==
  /\ logger_up /\ log_open
  /\ flushed' = [flushed EXCEPT ![run_dir] = Len(log[run_dir])]
  /\ UNCHANGED <<runVars, log, limitVars, topicVars, safetyLogVars>>

(* variant: the folder is announced when the run starts and not again.      *)
NoPublishRunDir == UNCHANGED loggerVars

(* The timer's publish_run_dir.                                             *)
PublishRunDir ==
  /\ logger_up /\ run_dir # NoRun
  /\ Announce(run_dir)
  /\ UNCHANGED <<runVars, log, flushed, limitVars, safetyLogVars>>

-----------------------------------------------------------------------------
(* The environment.                                                         *)

(* A second passes; the ROS clock is set back.                              *)
Aged1(age) == IF age = 1 THEN 1 ELSE age + 1

SecondPasses ==
  /\ safety_age' = Aged1(safety_age)
  /\ localization_age' = Aged1(localization_age)
  /\ UNCHANGED <<runVars, log, flushed, topicVars, safety_seen, safetyLogVars>>

ClockSetBack ==
  /\ safety_age' = -1 /\ localization_age' = -1
  /\ UNCHANGED <<runVars, log, flushed, topicVars, safety_seen,
                 safetyLogVars>>

(* destroy_node after an interrupt.                                         *)
Shutdown ==
  /\ logger_up
  /\ logger_up' = FALSE /\ run_dir' = NoRun /\ log_open' = FALSE /\ child' = NoRun
  /\ recorders' = recorders \ {child}
  /\ IF log_open THEN Closed(run_dir, log[run_dir]) ELSE UNCHANGED <<log, flushed>>
  /\ UNCHANGED <<folders, answered, orphaned, limitVars, topicVars, safetyLogVars>>

(* The process is killed: what was not flushed is lost and the child goes   *)
(* on by itself.                                                            *)
Kill ==
  /\ logger_up
  /\ logger_up' = FALSE /\ run_dir' = NoRun /\ log_open' = FALSE /\ child' = NoRun
  /\ log' = [r \in Runs |-> SubSeq(log[r], 1, flushed[r])]
  /\ orphaned' = orphaned \cup (recorders \cap {child})
  /\ UNCHANGED <<folders, recorders, answered, flushed, limitVars, topicVars,
                 safetyLogVars>>

(* A new process, with nothing remembered; the last announcement is gone    *)
(* with the old publisher.                                                  *)
Restart ==
  /\ ~logger_up
  /\ logger_up' = TRUE
  /\ safety_seen' = "none" /\ safety_age' = 1
  /\ localization_age' = 1
  /\ announced' = NoRun /\ undelivered' = FALSE /\ UNCHANGED io_path
  /\ safety_recorded' = "none"
  /\ UNCHANGED <<folders, run_dir, log_open, child, recorders, answered, orphaned,
                 log, flushed, safety_received>>

(* body_policy: on_run_dir, and its process started anew.                   *)
OnRunDir ==
  /\ undelivered
  /\ io_path' = announced /\ undelivered' = FALSE
  /\ UNCHANGED <<runVars, log, flushed, limitVars, announced, safetyLogVars>>

PolicyRestarts ==
  /\ io_path' = NoRun /\ undelivered' = FALSE
  /\ UNCHANGED <<runVars, log, flushed, limitVars, announced, safetyLogVars>>

-----------------------------------------------------------------------------

LoggerInit ==
  /\ logger_up = TRUE
  /\ folders = 0 /\ run_dir = NoRun /\ log_open = FALSE /\ child = NoRun
  /\ recorders = {} /\ orphaned = {}
  /\ log = [r \in Runs |-> <<>>]
  /\ flushed = [r \in Runs |-> 0]
  /\ safety_seen = "none"
  /\ safety_age = 1 /\ localization_age = 1
  /\ announced = NoRun /\ undelivered = FALSE /\ io_path = NoRun
  /\ safety_received = "none" /\ safety_recorded = "none"
  /\ answered = [r \in Runs |-> "nothing"]

LoggerNext ==
  \/ \E run \in Runs : OnStartRun(run)
  \/ OnStopRun
  \/ OnThrusterCmd
  \/ OnTrajectoryTarget
  \/ OnTrackingStatus
  \/ OnAuthorityStatus
  \/ OnPidStatus
  \/ OnPolicyStatus
  \/ \E signature \in Safety : OnSafetyEvent(signature)
  \/ OnLocalizationStatus
  \/ FlushEventLog
  \/ PublishRunDir
  \/ SecondPasses
  \/ ClockSetBack
  \/ Shutdown
  \/ Kill
  \/ Restart
  \/ OnRunDir
  \/ PolicyRestarts

(* The executors of both processes run what is due: the one-second timer    *)
(* and the delivery of its message.                                         *)
LoggerFairness == WF_loggerVars(PublishRunDir) /\ WF_loggerVars(OnRunDir)

LoggerSpec == LoggerInit /\ [][LoggerNext]_loggerVars /\ LoggerFairness

-----------------------------------------------------------------------------

LoggerTypeOK ==
  /\ {logger_up, log_open, undelivered} \subseteq BOOLEAN
  /\ {folders, run_dir, child, announced, io_path} \subseteq Runs \cup {NoRun}
  /\ recorders \cup orphaned \subseteq Runs
  /\ log \in [Runs -> Seq(Marks)]
  /\ flushed \in [Runs -> Nat] /\ \A r \in Runs : flushed[r] <= Len(log[r])
  /\ answered \in [Runs -> {"nothing", "started", "stopped"}]
  /\ {safety_seen, safety_received, safety_recorded} \subseteq Safety \cup {"none"}
  /\ {safety_age, localization_age} \subseteq {-1, 0, 1}

(* Every log on disk opens with the two records of its run, has at most one *)
(* end, has nothing after it, and has it when the operator was told that    *)
(* the run is stopped; a kill at any moment takes none of that away         *)
(* (on_start_run, on_stop_run, write_event).                                *)
LogsAreBracketed ==
  \A r \in Runs :
    LET disk == SubSeq(log[r], 1, flushed[r]) IN
      /\ answered[r] # "nothing" => IsPrefix(<<"run_started", "start">>, disk)
      /\ \A i \in DOMAIN disk : disk[i] = "end" => i = Len(disk)
      /\ answered[r] = "stopped" => Last(disk) = "end"

(* A recorder process runs for the active run alone, unless its parent was  *)
(* killed or could not stop it: no sequence of starts and stops leaves one  *)
(* behind (on_start_run's refusal, stop_rosbag, destroy_node).              *)
NoRecorderLeftBehind ==
  /\ recorders \ orphaned \subseteq {run_dir}
  /\ log_open => run_dir # NoRun /\ child = run_dir

(* What an active run's log says last about safety is what the safety       *)
(* monitor said last: suppressing repetitions never hides a change,         *)
(* whatever the ROS clock does (on_safety_event).                           *)
LogShowsCurrentAbort ==
  log_open /\ safety_recorded # "none" => safety_recorded = safety_received

(* While a run goes on, body_policy comes to write into its folder and      *)
(* stays there, also when it is started in the middle of the run            *)
(* (publish_run_dir, on_run_dir).                                           *)
PolicyFindsTheRun ==
  \A r \in Runs :
    <>[](run_dir = r) /\ <>[][~PolicyRestarts]_loggerVars => <>[](io_path = r)
=============================================================================
