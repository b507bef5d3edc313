----------------------------- MODULE RuntimeProofs -----------------------------
(***************************************************************************)
(* safety_monitor, run_logger and body_policy for every value of their     *)
(* constants: the status timeout, the number of runs, the age limit, the   *)
(* delay and the length of the history.                                    *)
(*                                                                         *)
(* Then MCRuntime, which launches one of six nodes and parks the others.   *)
(* An execution of it obeys the specification of each, so that what the    *)
(* proofs of the nodes show holds of the specification that TLC runs.      *)
(***************************************************************************)
EXTENDS MCRuntime, HostMapProofs, PidControllerProofs, TrajectoryCommandProofs,
        WellFoundedInduction

(* Sequences.                                                              *)
LEMMA Entries ==
  ASSUME NEW S, NEW entries \in Seq(S)
  PROVE  \A i \in DOMAIN entries : entries[i] \in S
OBVIOUS

LEMMA FirstEntries ==
  ASSUME NEW S, NEW entries \in Seq(S), NEW n \in 0..Len(entries)
  PROVE  /\ SubSeq(entries, 1, n) \in Seq(S) /\ Len(SubSeq(entries, 1, n)) = n
         /\ \A i \in 1..n : SubSeq(entries, 1, n)[i] = entries[i]
OBVIOUS

(* What a tick leaves of a deque: the entries from k on.                   *)
LEMMA LaterEntries ==
  ASSUME NEW S, NEW entries \in Seq(S), NEW k \in 1..(Len(entries) + 1)
  PROVE  LET kept == SubSeq(entries, k, Len(entries)) IN
         /\ kept \in Seq(S) /\ Len(kept) = Len(entries) - k + 1
         /\ DOMAIN kept = 1..(Len(entries) - k + 1)
         /\ \A j \in 1..Len(kept) : kept[j] = entries[j + k - 1]
OBVIOUS

-----------------------------------------------------------------------------
(* safety_monitor                                                          *)

(* The node's evidence is no older than it takes it to be: a stored status  *)
(* that says all is well dates from the last report that said so, or from a *)
(* later one (on_board_status).                                             *)
EvidenceDates ==
  board_age # NeverSeen /\ Healthy(board) => healthy_age <= board_age

(* The latch is what the operator asked for last (handle_abort).            *)
LatchIsRequest == operator_abort = operator_request

SafetyInv == SafetyTypeOK /\ EvidenceDates /\ LatchIsRequest /\ ClearIsEarned

(* An abort code that consumers read as clear rests on a status in time     *)
(* that says all is well, and on no latch.                                  *)
LEMMA ClearCode ==
  ASSUME NEW latch \in BOOLEAN, AbortCode(latch) = "ABORT_CLEAR"
  PROVE  /\ board_age # NeverSeen /\ ~(board_age > StatusTimeout)
         /\ Healthy(board)
         /\ ~latch
BY DEF AbortCode, BoardFailure, Healthy

(* The codes there are; only a clear code clears.                           *)
LEMMA AbortCodes ==
  ASSUME NEW latch \in BOOLEAN
  PROVE  AbortCode(latch) \in {"BOARD_STATUS_MISSING", "BOARD_STATUS_STALE",
           "BOARD_DISCONNECTED", "BOARD_HEARTBEAT_LOST",
           "BOARD_FAILSAFE_ACTIVE", "ABORT_ACTIVE", "ABORT_CLEAR"}
BY DEF AbortCode, BoardFailure

LEMMA AgedAge ==
  ASSUME SafetyAssumption, NEW age \in Ages, NEW other \in Ages
  PROVE  /\ Aged(age) \in Ages
         /\ Aged(age) = NeverSeen <=> age = NeverSeen
         /\ Aged(age) <= age + 1
         /\ age <= other => Aged(age) <= Aged(other)
BY DEF SafetyAssumption, Ages, Aged, NeverSeen, MaxAge

LEMMA SafetyInitially == SafetyAssumption /\ SafetyInit => SafetyInv
<1> SUFFICES ASSUME SafetyAssumption, SafetyInit PROVE SafetyInv
  OBVIOUS
<1>1. NeverSeen \in Ages
  BY DEF SafetyAssumption, Ages, NeverSeen, MaxAge
<1>2. board \in BoardReports
  BY DEF SafetyInit, BoardReports
<1>3. event.code = "none" /\ event.abort = TRUE
  BY DEF SafetyInit
<1>4. SafetyTypeOK
  BY <1>1, <1>2, <1>3 DEF SafetyInit, SafetyTypeOK
<1>5. EvidenceDates /\ LatchIsRequest
  BY DEF SafetyInit, EvidenceDates, LatchIsRequest
<1>6. ClearIsEarned
  BY <1>3 DEF ClearIsEarned
<1> QED BY <1>4, <1>5, <1>6 DEF SafetyInv

LEMMA SafetyStep ==
  ASSUME SafetyAssumption, SafetyInv, [SafetyNext]_safetyVars
  PROVE  SafetyInv'
<1>t. /\ board \in BoardReports /\ board_age \in Ages /\ healthy_age \in Ages
      /\ operator_abort \in BOOLEAN /\ timer_due \in BOOLEAN
      /\ operator_request \in BOOLEAN /\ StatusTimeout \in Nat
      /\ Ages \subseteq Nat
  BY DEF SafetyInv, SafetyTypeOK, SafetyAssumption, Ages, NeverSeen, MaxAge
<1>1. ASSUME NEW report \in BoardReports, OnBoardStatus(report)
      PROVE  SafetyInv'
  <2>1. 0 \in Ages /\ healthy_age' \in {0, healthy_age} /\ healthy_age' <= healthy_age
    BY <1>t, <1>1 DEF OnBoardStatus, Ages, NeverSeen, MaxAge
  <2>2. SafetyTypeOK'
    BY <1>t, <1>1, <2>1 DEF OnBoardStatus, SafetyInv, SafetyTypeOK
  <2>3. EvidenceDates'
    BY <1>1 DEF OnBoardStatus, EvidenceDates
  <2>4. ClearIsEarned'
    <3> USE DEF OnBoardStatus, SafetyInv, ClearIsEarned
    <3>1. CASE timer_due BY <1>t, <1>1, <2>1, <3>1
    <3>2. CASE ~timer_due BY <1>t, <1>1, <2>1, <3>2
    <3> QED BY <1>t, <3>1, <3>2
  <2> QED BY <1>1, <2>2, <2>3, <2>4 DEF OnBoardStatus, SafetyInv, LatchIsRequest
<1>2. ASSUME NEW abort \in BOOLEAN, HandleAbort(abort)
      PROVE  SafetyInv'
  <2>1. SafetyTypeOK'
    BY <1>t, <1>2, AbortCodes DEF HandleAbort, PublishEvent, SafetyInv, SafetyTypeOK
  <2>2. ClearIsEarned'
    <3> SUFFICES ASSUME ~event'.abort PROVE healthy_age <= StatusTimeout /\ ~abort
      BY <1>t, <1>2 DEF HandleAbort, ClearIsEarned
    <3>1. AbortCode(abort) = "ABORT_CLEAR"
      BY <1>2, AbortCodes DEF HandleAbort, PublishEvent
    <3> QED BY <1>t, <3>1, ClearCode DEF SafetyInv, EvidenceDates
  <2> QED BY <1>2, <2>1, <2>2
          DEF HandleAbort, SafetyInv, LatchIsRequest, EvidenceDates, Healthy
<1>3. CASE SafetyTick
  <2>1. SafetyTypeOK'
    BY <1>t, <1>3, AbortCodes DEF SafetyTick, PublishEvent, SafetyInv, SafetyTypeOK
  <2>2. ClearIsEarned'
    <3> SUFFICES ASSUME ~event'.abort
                 PROVE  healthy_age <= StatusTimeout /\ ~operator_request
      BY <1>t, <1>3 DEF SafetyTick, ClearIsEarned
    <3>1. AbortCode(operator_abort) = "ABORT_CLEAR"
      BY <1>t, <1>3, AbortCodes DEF SafetyTick, PublishEvent
    <3> QED BY <1>t, <3>1, ClearCode DEF SafetyInv, EvidenceDates, LatchIsRequest
  <2> QED BY <1>3, <2>1, <2>2
          DEF SafetyTick, SafetyInv, LatchIsRequest, EvidenceDates, Healthy
<1>4. CASE SafetyPeriod
  <2>1. /\ board_age' \in Ages /\ healthy_age' \in Ages
        /\ healthy_age' <= healthy_age + 1
        /\ board_age' = NeverSeen <=> board_age = NeverSeen
        /\ healthy_age <= board_age => healthy_age' <= board_age'
    BY <1>t, <1>4, AgedAge DEF SafetyPeriod
  <2>2. SafetyTypeOK'
    BY <1>4, <2>1 DEF SafetyPeriod, SafetyInv, SafetyTypeOK
  <2>3. EvidenceDates'
    BY <1>4, <2>1 DEF SafetyPeriod, SafetyInv, EvidenceDates, NeverSeen, MaxAge,
                      Healthy
  <2>4. ClearIsEarned'
    BY <1>t, <1>4, <2>1 DEF SafetyPeriod, SafetyInv, ClearIsEarned
  <2> QED BY <1>4, <2>2, <2>3, <2>4 DEF SafetyPeriod, SafetyInv, LatchIsRequest
<1>5. CASE UNCHANGED safetyVars
  BY <1>5 DEF safetyVars, SafetyInv, SafetyTypeOK, EvidenceDates, LatchIsRequest,
              ClearIsEarned, Healthy
<1> QED BY <1>1, <1>2, <1>3, <1>4, <1>5 DEF SafetyNext

(* safety_monitor without its fairness.                                     *)
SafetySteps == SafetyInit /\ [][SafetyNext]_safetyVars

LEMMA SafetyInvariant == SafetySteps => []SafetyInv
<1>1. SafetyInit => SafetyInv BY SafetyAssumption, SafetyInitially
<1>2. SafetyInv /\ [SafetyNext]_safetyVars => SafetyInv'
  BY SafetyAssumption, SafetyStep
<1> QED BY <1>1, <1>2, PTL DEF SafetySteps

(* A clear event of safety_monitor is earned, whatever the status timeout:  *)
(* the board reported that all is well within it, and the operator's last   *)
(* request was not an abort.                                                *)
THEOREM SafetyClearIsEarned == SafetySpec => []ClearIsEarned
<1>1. SafetyInv => ClearIsEarned BY DEF SafetyInv
<1> QED BY <1>1, SafetyInvariant, PTL DEF SafetySpec, SafetySteps

-----------------------------------------------------------------------------
(* run_logger                                                              *)

LEMMA MarkedFacts ==
  ASSUME NEW marks \in Seq(Marks), NEW mark \in Marks
  PROVE  /\ Marked(marks, mark) \in Seq(Marks)
         /\ \/ Marked(marks, mark) = marks
            \/ Marked(marks, mark) = Append(marks, mark)
BY DEF Marked

LEMMA AppendFacts ==
  ASSUME NEW marks \in Seq(Marks), NEW mark \in Marks
  PROVE  /\ Append(marks, mark) \in Seq(Marks)
         /\ Len(Append(marks, mark)) = Len(marks) + 1
         /\ \A i \in 1..Len(marks) : Append(marks, mark)[i] = marks[i]
         /\ Append(marks, mark)[Len(marks) + 1] = mark
         /\ Len(marks) \in Nat
OBVIOUS

LEMMA Opening ==
  /\ <<"run_started", "start">> \in Seq(Marks)
  /\ Len(<<"run_started", "start">>) = 2
  /\ <<"run_started", "start">>[1] = "run_started"
  /\ <<"run_started", "start">>[2] = "start"
BY DEF Marks

-----------------------------------------------------------------------------
(* The inductive invariant of run_logger.                                  *)

(* One run is active, or none; its recorder is the only one that is not    *)
(* orphaned.                                                               *)
OneActiveRun ==
  /\ log_open <=> run_dir # NoRun
  /\ child = run_dir
  /\ recorders \ orphaned \subseteq {run_dir}

(* The log of run r: an end is the last mark and on disk, an active run    *)
(* has none, and what the operator was told is on disk.                    *)
WellMarked(r) ==
  /\ \A i \in 1..Len(log[r]) :
       log[r][i] = "end" => i = Len(log[r]) /\ flushed[r] = Len(log[r])
  /\ r = run_dir => /\ \A i \in 1..Len(log[r]) : log[r][i] # "end"
                    /\ answered[r] = "started"
  /\ answered[r] # "nothing" =>
       /\ flushed[r] >= 2
       /\ log[r][1] = "run_started" /\ log[r][2] = "start"
  /\ answered[r] = "stopped" =>
       /\ flushed[r] = Len(log[r])
       /\ log[r][Len(log[r])] = "end"

(* A signature that suppresses is the one received last.                   *)
SuppressesTheLast ==
  /\ safety_seen \in {"none", safety_received}
  /\ LogShowsCurrentAbort

LoggerInv ==
  /\ LoggerTypeOK
  /\ OneActiveRun
  /\ \A r \in Runs : WellMarked(r)
  /\ SuppressesTheLast

LEMMA LoggerConstants ==
  MaxRuns \in Nat /\ NoRun \notin Runs /\ Runs \subseteq Nat
BY LoggerAssumption DEF LoggerAssumption, Runs, NoRun

LEMMA LoggerInitially == LoggerInit => LoggerInv
<1> SUFFICES ASSUME LoggerInit PROVE LoggerInv
  OBVIOUS
<1>1. <<>> \in Seq(Marks) /\ Len(<<>>) = 0
  OBVIOUS
<1>2. /\ log \in [Runs -> Seq(Marks)] /\ flushed \in [Runs -> Nat]
      /\ \A r \in Runs : log[r] = <<>> /\ flushed[r] = 0 /\ answered[r] = "nothing"
  BY <1>1 DEF LoggerInit
<1>3. LoggerTypeOK
  <2>1. \A r \in Runs : flushed[r] <= Len(log[r])
    BY <1>1, <1>2
  <2>2. answered \in [Runs -> {"nothing", "started", "stopped"}]
    BY DEF LoggerInit
  <2> QED BY <1>2, <2>1, <2>2 DEF LoggerInit, LoggerTypeOK, NoRun
<1>4. OneActiveRun
  BY DEF LoggerInit, OneActiveRun
<1>5. ASSUME NEW r \in Runs PROVE WellMarked(r)
  <2>1. Len(log[r]) = 0 /\ answered[r] = "nothing" /\ 1..0 = {} /\ r # run_dir
    BY <1>1, <1>2, LoggerConstants DEF LoggerInit
  <2> QED BY <2>1 DEF WellMarked
<1>6. SuppressesTheLast
  BY DEF LoggerInit, SuppressesTheLast, LogShowsCurrentAbort
<1> QED BY <1>3, <1>4, <1>5, <1>6 DEF LoggerInv

LEMMA TypedLog ==
  ASSUME LoggerInv, NEW r \in Runs
  PROVE  /\ log[r] \in Seq(Marks) /\ Len(log[r]) \in Nat
         /\ flushed[r] \in 0..Len(log[r])
BY DEF LoggerInv, LoggerTypeOK

(* A step that touches neither the logs nor the runs.                      *)
LEMMA LoggerQuiet ==
  ASSUME LoggerInv, UNCHANGED <<folders, run_dir, log_open, child, recorders,
                                answered, orphaned, log, flushed>>,
         logger_up' \in BOOLEAN, undelivered' \in BOOLEAN,
         announced' \in Runs \cup {NoRun}, io_path' \in Runs \cup {NoRun},
         {safety_seen', safety_received', safety_recorded'}
            \subseteq Safety \cup {"none"},
         {safety_age', localization_age'} \subseteq {-1, 0, 1},
         SuppressesTheLast'
  PROVE  LoggerInv'
<1>1. LoggerTypeOK'
  BY DEF LoggerInv, LoggerTypeOK
<1>2. OneActiveRun'
  BY DEF LoggerInv, OneActiveRun
<1>3. \A r \in Runs : WellMarked(r)'
  BY DEF LoggerInv, WellMarked
<1> QED BY <1>1, <1>2, <1>3 DEF LoggerInv

LEMMA StepStartRun ==
  ASSUME LoggerInv, ~log_open, logger_up, NEW run \in Runs, StartRun(run)
  PROVE  LoggerInv'
<1> DEFINE opening == <<"run_started", "start">>
<1>1. /\ run_dir' = run /\ log_open' = TRUE /\ child' = run /\ folders' = run
      /\ recorders' = recorders \cup {run}
      /\ log' = [log EXCEPT ![run] = opening]
      /\ flushed' = [flushed EXCEPT ![run] = Len(opening)]
      /\ answered' = [answered EXCEPT ![run] = "started"]
      /\ announced' = run /\ undelivered' = TRUE /\ safety_recorded' = "none"
      /\ UNCHANGED <<io_path, safety_seen, safety_age, localization_age,
                     safety_received, logger_up, orphaned>>
  BY DEF StartRun, Starting, Closed, Announce, limitVars
<1>2. /\ opening \in Seq(Marks) /\ Len(opening) = 2
      /\ opening[1] = "run_started" /\ opening[2] = "start"
  BY Opening
<1> HIDE DEF opening
<1>3. /\ log' \in [Runs -> Seq(Marks)] /\ flushed' \in [Runs -> Nat]
      /\ answered' \in [Runs -> {"nothing", "started", "stopped"}]
      /\ log'[run] = opening /\ flushed'[run] = 2 /\ answered'[run] = "started"
      /\ \A r \in Runs \ {run} : /\ log'[r] = log[r] /\ flushed'[r] = flushed[r]
                                 /\ answered'[r] = answered[r]
  <2>1. /\ log \in [Runs -> Seq(Marks)] /\ flushed \in [Runs -> Nat]
        /\ answered \in [Runs -> {"nothing", "started", "stopped"}]
    BY DEF LoggerInv, LoggerTypeOK
  <2> QED BY <1>1, <1>2, <2>1
<1>4. LoggerTypeOK'
  <2>1. \A r \in Runs : flushed'[r] <= Len(log'[r])
    <3>1. flushed'[run] <= Len(log'[run])
      <4>1. flushed'[run] = 2 /\ Len(log'[run]) = 2
        BY <1>2, <1>3
      <4> QED BY <4>1
    <3>2. \A r \in Runs \ {run} : flushed'[r] <= Len(log'[r])
      BY <1>3 DEF LoggerInv, LoggerTypeOK
    <3> QED BY <3>1, <3>2
  <2>2. /\ {logger_up', log_open', undelivered'} \subseteq BOOLEAN
        /\ {folders', run_dir', child', announced', io_path'} \subseteq Runs \cup {NoRun}
        /\ recorders' \cup orphaned' \subseteq Runs
        /\ {safety_seen', safety_received', safety_recorded'} \subseteq Safety \cup {"none"}
        /\ {safety_age', localization_age'} \subseteq {-1, 0, 1}
    BY <1>1, Zenon DEF LoggerInv, LoggerTypeOK
  <2> QED BY <1>3, <2>1, <2>2, Zenon DEF LoggerTypeOK
<1>5. OneActiveRun'
  <2>1. run # NoRun /\ run_dir = NoRun /\ recorders \subseteq Runs
    BY LoggerConstants DEF LoggerInv, OneActiveRun, LoggerTypeOK
  <2> QED BY <1>1, <2>1, LoggerConstants DEF LoggerInv, OneActiveRun
<1>6. ASSUME NEW r \in Runs PROVE WellMarked(r)'
  <2>1. CASE r = run
    <3>1. \A i \in 1..2 : opening[i] # "end"
      <4>1. \A i \in 1..2 : i = 1 \/ i = 2
        OBVIOUS
      <4> QED BY <1>2, <4>1
    <3>2. /\ Len(log'[r]) = 2 /\ \A i \in 1..2 : log'[r][i] # "end"
          /\ log'[r][1] = "run_started" /\ log'[r][2] = "start"
          /\ flushed'[r] = 2 /\ answered'[r] = "started" /\ 2 >= 2
      BY <1>2, <1>3, <2>1, <3>1
    <3> QED BY <3>2 DEF WellMarked
  <2>2. CASE r # run
    BY <1>1, <1>3, <2>2 DEF LoggerInv, WellMarked
  <2> QED BY <2>1, <2>2
<1>7. SuppressesTheLast'
  BY <1>1 DEF LoggerInv, SuppressesTheLast, LogShowsCurrentAbort
<1> QED BY <1>4, <1>5, <1>6, <1>7 DEF LoggerInv

LEMMA StepStartRunRaises ==
  ASSUME LoggerInv, ~log_open, NEW run \in Runs, StartRunRaises(run)
  PROVE  LoggerInv'
<1>1. /\ run_dir = NoRun /\ child = NoRun
  BY DEF LoggerInv, OneActiveRun
<1>2. /\ UNCHANGED <<run_dir, log_open, child, recorders, answered, orphaned,
                     log, flushed, announced, undelivered, io_path,
                     safety_seen, safety_age, localization_age, safety_received>>
      /\ folders' = run /\ logger_up' = FALSE /\ safety_recorded' = "none"
  BY <1>1 DEF StartRunRaises, Starting, topicVars, limitVars, LoggerInv,
              LoggerTypeOK
<1>3. LoggerTypeOK'
  BY <1>2 DEF LoggerInv, LoggerTypeOK
<1>4. OneActiveRun' /\ SuppressesTheLast'
  BY <1>2 DEF LoggerInv, OneActiveRun, SuppressesTheLast, LogShowsCurrentAbort
<1>5. \A r \in Runs : WellMarked(r)'
  BY <1>2 DEF LoggerInv, WellMarked
<1> QED BY <1>3, <1>4, <1>5 DEF LoggerInv

(* The active run ends: its log is closed, with an end or without, and its *)
(* recorder is stopped or given up.                                        *)
LEMMA RunEnds ==
  ASSUME LoggerInv, log_open, run_dir' = NoRun, log_open' = FALSE,
         child' = NoRun, logger_up' \in BOOLEAN,
         NEW marks,
         \/ marks = log[run_dir] /\ answered' = answered
         \/ /\ marks = Append(log[run_dir], "end")
            /\ answered' \in {answered, [answered EXCEPT ![run_dir] = "stopped"]},
         Closed(run_dir, marks),
         \/ recorders' = recorders \ {child} /\ orphaned' = orphaned
         \/ recorders' = recorders /\ orphaned' = orphaned \cup {child},
         UNCHANGED <<folders, limitVars, topicVars, safetyLogVars>>
  PROVE  LoggerInv'
<1> DEFINE run == run_dir
           old == log[run]
<1>1. run \in Runs /\ child = run
  BY DEF LoggerInv, OneActiveRun, LoggerTypeOK
<1>2. old \in Seq(Marks) /\ Len(old) \in Nat /\ flushed[run] \in 0..Len(old)
  BY <1>1, TypedLog
<1>3. /\ \A i \in 1..Len(old) : old[i] # "end"
      /\ Len(old) >= 2 /\ old[1] = "run_started" /\ old[2] = "start"
      /\ answered[run] = "started"
  BY <1>1, <1>2 DEF LoggerInv, WellMarked
<1>4. /\ marks \in Seq(Marks) /\ Len(marks) \in Nat
      /\ Len(marks) >= Len(old)
      /\ \A i \in 1..Len(old) : marks[i] = old[i]
      /\ \A i \in 1..Len(marks) : marks[i] = "end" => i = Len(marks)
      /\ answered' # answered => marks[Len(marks)] = "end"
  <2>1. CASE marks = old /\ answered' = answered
    BY <1>2, <1>3, <2>1
  <2>2. CASE marks = Append(old, "end")
    <3>1. /\ Append(old, "end") \in Seq(Marks)
          /\ Len(Append(old, "end")) = Len(old) + 1
          /\ \A i \in 1..Len(old) : Append(old, "end")[i] = old[i]
          /\ Append(old, "end")[Len(old) + 1] = "end"
      BY <1>2, AppendFacts DEF Marks
    <3> HIDE DEF old
    <3> QED BY <1>2, <1>3, <2>2, <3>1
  <2> QED BY <2>1, <2>2
<1>5. /\ log' = [log EXCEPT ![run] = marks]
      /\ flushed' = [flushed EXCEPT ![run] = Len(marks)]
  BY DEF Closed
<1>6. /\ log' \in [Runs -> Seq(Marks)] /\ flushed' \in [Runs -> Nat]
      /\ answered' \in [Runs -> {"nothing", "started", "stopped"}]
      /\ log'[run] = marks /\ flushed'[run] = Len(marks)
      /\ \A r \in Runs \ {run} : /\ log'[r] = log[r] /\ flushed'[r] = flushed[r]
                                 /\ answered'[r] = answered[r]
      /\ answered'[run] = "stopped" => marks[Len(marks)] = "end"
  BY <1>1, <1>3, <1>4, <1>5 DEF LoggerInv, LoggerTypeOK
<1> HIDE DEF run, old
<1>7. LoggerTypeOK'
  <2>1. \A r \in Runs : flushed'[r] <= Len(log'[r])
    <3>1. flushed'[run] <= Len(log'[run])
      BY <1>4, <1>6
    <3>2. \A r \in Runs \ {run} : flushed'[r] <= Len(log'[r])
      BY <1>6 DEF LoggerInv, LoggerTypeOK
    <3> QED BY <3>1, <3>2
  <2>2. recorders' \cup orphaned' \subseteq Runs
    BY <1>1 DEF LoggerInv, LoggerTypeOK
  <2>3. UNCHANGED <<folders, safety_seen, safety_age, localization_age,
                    announced, undelivered, io_path, safety_received,
                    safety_recorded>>
    BY DEF limitVars, topicVars, safetyLogVars
  <2>4. /\ {logger_up', log_open', undelivered'} \subseteq BOOLEAN
        /\ {folders', run_dir', child', announced', io_path'} \subseteq Runs \cup {NoRun}
        /\ {safety_seen', safety_received', safety_recorded'} \subseteq Safety \cup {"none"}
        /\ {safety_age', localization_age'} \subseteq {-1, 0, 1}
    BY <2>3, Zenon DEF LoggerInv, LoggerTypeOK
  <2> QED BY <1>6, <2>1, <2>2, <2>4, Zenon DEF LoggerTypeOK
<1>8. OneActiveRun'
  <2>1. recorders \ orphaned \subseteq {child}
    BY DEF LoggerInv, OneActiveRun
  <2> QED BY <2>1 DEF OneActiveRun
<1>9. ASSUME NEW r \in Runs PROVE WellMarked(r)'
  <2>1. r # run_dir'
    BY LoggerConstants
  <2>2. CASE r = run
    <3>1. /\ Len(marks) >= 2 /\ marks[1] = "run_started" /\ marks[2] = "start"
      BY <1>2, <1>3, <1>4
    <3> QED BY <1>4, <1>6, <2>1, <2>2, <3>1 DEF WellMarked
  <2>3. CASE r # run
    <3>1. /\ log'[r] = log[r] /\ flushed'[r] = flushed[r]
          /\ answered'[r] = answered[r]
      BY <1>6, <2>3
    <3> QED BY <2>1, <3>1 DEF LoggerInv, WellMarked
  <2> QED BY <2>2, <2>3
<1>10. SuppressesTheLast'
  BY DEF LoggerInv, SuppressesTheLast, LogShowsCurrentAbort, limitVars,
         safetyLogVars
<1> QED BY <1>7, <1>8, <1>9, <1>10 DEF LoggerInv

LEMMA StepOnStopRun ==
  ASSUME LoggerInv, OnStopRun
  PROVE  LoggerInv'
<1>1. UNCHANGED <<limitVars, topicVars, safetyLogVars>>
  BY DEF OnStopRun
<1>2. child # NoRun => log_open
  BY DEF LoggerInv, OneActiveRun
<1>3. CASE StopRun
  <2>1. logger_up' \in BOOLEAN
    BY <1>3 DEF StopRun, LoggerInv, LoggerTypeOK
  <2> QED BY <1>1, <1>2, <1>3, <2>1, RunEnds DEF StopRun
<1>4. CASE StopRunTimesOut
  BY <1>1, <1>2, <1>4, RunEnds DEF StopRunTimesOut
<1>5. CASE StopRunRaises
  <2>1. UNCHANGED <<safety_seen, safety_age, localization_age, announced,
                    undelivered, io_path, safety_received, safety_recorded>>
    BY <1>1 DEF limitVars, topicVars, safetyLogVars
  <2>2. /\ logger_up' \in BOOLEAN
        /\ UNCHANGED <<folders, run_dir, log_open, child, recorders, answered,
                       orphaned, log, flushed>>
    BY <1>5 DEF StopRunRaises
  <2>3. SuppressesTheLast'
    BY <2>1, <2>2 DEF LoggerInv, SuppressesTheLast, LogShowsCurrentAbort
  <2>4. /\ undelivered' \in BOOLEAN
        /\ announced' \in Runs \cup {NoRun} /\ io_path' \in Runs \cup {NoRun}
        /\ {safety_seen', safety_received', safety_recorded'}
              \subseteq Safety \cup {"none"}
        /\ {safety_age', localization_age'} \subseteq {-1, 0, 1}
    BY <2>1 DEF LoggerInv, LoggerTypeOK
  <2> QED BY <2>2, <2>3, <2>4, LoggerQuiet
<1> QED BY <1>3, <1>4, <1>5 DEF OnStopRun

LEMMA StepShutdown ==
  ASSUME LoggerInv, Shutdown
  PROVE  LoggerInv'
<1>1. CASE log_open
  <2>1. /\ run_dir' = NoRun /\ log_open' = FALSE /\ child' = NoRun
        /\ logger_up' \in BOOLEAN /\ Closed(run_dir, log[run_dir])
        /\ answered' = answered
        /\ recorders' = recorders \ {child} /\ orphaned' = orphaned
        /\ UNCHANGED <<folders, limitVars, topicVars, safetyLogVars>>
    BY <1>1 DEF Shutdown
  <2> QED BY <1>1, <2>1, RunEnds
<1>2. CASE ~log_open
  <2>1. /\ run_dir = NoRun /\ child = NoRun /\ recorders \subseteq Runs
    BY <1>2 DEF LoggerInv, OneActiveRun, LoggerTypeOK
  <2>2. recorders' = recorders
    BY <2>1, LoggerConstants DEF Shutdown
  <2>3. /\ UNCHANGED <<folders, run_dir, log_open, child, recorders, answered,
                       orphaned, log, flushed>>
        /\ logger_up' \in BOOLEAN
    BY <1>2, <2>1, <2>2 DEF Shutdown, LoggerInv, LoggerTypeOK
  <2>4. UNCHANGED <<safety_seen, safety_age, localization_age, announced,
                    undelivered, io_path, safety_received, safety_recorded>>
    BY DEF Shutdown, limitVars, topicVars, safetyLogVars
  <2>5. SuppressesTheLast'
    BY <2>3, <2>4 DEF LoggerInv, SuppressesTheLast, LogShowsCurrentAbort
  <2>6. /\ undelivered' \in BOOLEAN
        /\ announced' \in Runs \cup {NoRun} /\ io_path' \in Runs \cup {NoRun}
        /\ {safety_seen', safety_received', safety_recorded'}
              \subseteq Safety \cup {"none"}
        /\ {safety_age', localization_age'} \subseteq {-1, 0, 1}
    BY <2>4 DEF LoggerInv, LoggerTypeOK
  <2> QED BY <2>3, <2>5, <2>6, LoggerQuiet
<1> QED BY <1>1, <1>2

(* What was flushed is what a kill leaves.                                 *)
LEMMA StepKill ==
  ASSUME LoggerInv, Kill
  PROVE  LoggerInv'
<1>1. /\ logger_up' = FALSE /\ run_dir' = NoRun /\ log_open' = FALSE
      /\ child' = NoRun
      /\ log' = [r \in Runs |-> SubSeq(log[r], 1, flushed[r])]
      /\ orphaned' = orphaned \cup (recorders \cap {child})
      /\ UNCHANGED <<folders, recorders, answered, flushed, safety_seen,
                     safety_age, localization_age, announced, undelivered,
                     io_path, safety_received, safety_recorded>>
  BY DEF Kill, limitVars, topicVars, safetyLogVars
<1>2. ASSUME NEW r \in Runs
      PROVE  /\ log'[r] \in Seq(Marks) /\ Len(log'[r]) = flushed[r]
             /\ flushed[r] \in 0..Len(log[r]) /\ Len(log[r]) \in Nat
             /\ \A i \in 1..flushed[r] : log'[r][i] = log[r][i]
  <2>1. log'[r] = SubSeq(log[r], 1, flushed[r])
    BY <1>1
  <2>2. /\ log[r] \in Seq(Marks) /\ Len(log[r]) \in Nat
        /\ flushed[r] \in 0..Len(log[r])
    BY TypedLog
  <2> QED BY <2>1, <2>2, FirstEntries
<1>3. log' \in [Runs -> Seq(Marks)]
  BY <1>1, <1>2
<1>4. LoggerTypeOK'
  <2>1. \A r \in Runs : flushed'[r] <= Len(log'[r])
    BY <1>1, <1>2
  <2> QED BY <1>1, <1>3, <2>1 DEF LoggerInv, LoggerTypeOK
<1>5. OneActiveRun'
  <2>1. recorders \ orphaned \subseteq {child}
    BY DEF LoggerInv, OneActiveRun
  <2> QED BY <1>1, <2>1 DEF OneActiveRun
<1>6. ASSUME NEW r \in Runs PROVE WellMarked(r)'
  <2>1. r # run_dir' /\ flushed'[r] = flushed[r] /\ answered'[r] = answered[r]
    BY <1>1, LoggerConstants
  <2>2. WellMarked(r)
    BY DEF LoggerInv
  <2>3. \A i \in 1..Len(log'[r]) :
          log'[r][i] = "end" => i = Len(log'[r]) /\ flushed'[r] = Len(log'[r])
    BY <1>2, <2>1, <2>2 DEF WellMarked
  <2>4. answered'[r] # "nothing" =>
          /\ flushed'[r] >= 2
          /\ log'[r][1] = "run_started" /\ log'[r][2] = "start"
    BY <1>2, <2>1, <2>2 DEF WellMarked
  <2>5. answered'[r] = "stopped" =>
          /\ flushed'[r] = Len(log'[r])
          /\ log'[r][Len(log'[r])] = "end"
    BY <1>2, <2>1, <2>2 DEF WellMarked
  <2> QED BY <2>1, <2>3, <2>4, <2>5 DEF WellMarked
<1>7. SuppressesTheLast'
  BY <1>1 DEF LoggerInv, SuppressesTheLast, LogShowsCurrentAbort
<1> QED BY <1>4, <1>5, <1>6, <1>7 DEF LoggerInv

(* A record, or a flush, in the log of the active run.                     *)
LEMMA LogGrows ==
  ASSUME LoggerInv, log_open,
         UNCHANGED <<logger_up, folders, run_dir, log_open, child, recorders,
                     answered, orphaned, announced, undelivered, io_path>>,
         NEW marks, marks \in {log[run_dir], Append(log[run_dir], "event")},
         log' = [log EXCEPT ![run_dir] = marks],
         flushed' \in {flushed, [flushed EXCEPT ![run_dir] = Len(marks)]},
         {safety_seen', safety_received', safety_recorded'}
            \subseteq Safety \cup {"none"},
         {safety_age', localization_age'} \subseteq {-1, 0, 1},
         SuppressesTheLast'
  PROVE  LoggerInv'
<1> DEFINE run == run_dir
           old == log[run]
<1>1. run \in Runs
  BY DEF LoggerInv, OneActiveRun, LoggerTypeOK
<1>2. old \in Seq(Marks) /\ Len(old) \in Nat /\ flushed[run] \in 0..Len(old)
  BY <1>1, TypedLog
<1>3. /\ \A i \in 1..Len(old) : old[i] # "end"
      /\ flushed[run] >= 2 /\ old[1] = "run_started" /\ old[2] = "start"
      /\ answered[run] = "started"
  BY <1>1 DEF LoggerInv, WellMarked
<1>4. /\ marks \in Seq(Marks) /\ Len(marks) \in Nat /\ Len(marks) >= Len(old)
      /\ \A i \in 1..Len(old) : marks[i] = old[i]
      /\ \A i \in 1..Len(marks) : marks[i] # "end"
  <2>1. CASE marks = old
    BY <1>2, <1>3, <2>1
  <2>2. CASE marks = Append(old, "event")
    <3>1. /\ Append(old, "event") \in Seq(Marks)
          /\ Len(Append(old, "event")) = Len(old) + 1
          /\ \A i \in 1..Len(old) : Append(old, "event")[i] = old[i]
          /\ Append(old, "event")[Len(old) + 1] = "event"
      BY <1>2, AppendFacts DEF Marks
    <3> HIDE DEF old
    <3>2. \A i \in 1..(Len(old) + 1) : i \in 1..Len(old) \/ i = Len(old) + 1
      BY <1>2
    <3> QED BY <1>2, <1>3, <2>2, <3>1, <3>2
  <2> QED BY <2>1, <2>2
<1>5. /\ log' \in [Runs -> Seq(Marks)] /\ flushed' \in [Runs -> Nat]
      /\ log'[run] = marks /\ flushed'[run] \in {flushed[run], Len(marks)}
      /\ \A r \in Runs \ {run} : log'[r] = log[r] /\ flushed'[r] = flushed[r]
  BY <1>1, <1>4 DEF LoggerInv, LoggerTypeOK
<1> HIDE DEF run, old
<1>6. LoggerTypeOK'
  <2>1. \A r \in Runs : flushed'[r] <= Len(log'[r])
    <3>1. flushed'[run] <= Len(log'[run])
      BY <1>2, <1>4, <1>5
    <3>2. \A r \in Runs \ {run} : flushed'[r] <= Len(log'[r])
      BY <1>5 DEF LoggerInv, LoggerTypeOK
    <3> QED BY <3>1, <3>2
  <2> QED BY <1>5, <2>1 DEF LoggerInv, LoggerTypeOK
<1>7. OneActiveRun'
  BY DEF LoggerInv, OneActiveRun
<1>8. ASSUME NEW r \in Runs PROVE WellMarked(r)'
  <2>1. CASE r = run
    <3>1. /\ flushed'[run] >= 2 /\ marks[1] = "run_started"
          /\ marks[2] = "start" /\ answered'[run] = "started"
      BY <1>2, <1>3, <1>4, <1>5
    <3> QED BY <1>4, <1>5, <2>1, <3>1 DEF WellMarked
  <2>2. CASE r # run
    <3>1. /\ log'[r] = log[r] /\ flushed'[r] = flushed[r]
          /\ answered'[r] = answered[r] /\ run_dir' = run_dir
      BY <1>5, <2>2
    <3> QED BY <3>1 DEF LoggerInv, WellMarked
  <2> QED BY <2>1, <2>2
<1> QED BY <1>6, <1>7, <1>8 DEF LoggerInv

(* write_event with whatever becomes of the safety history.                *)
LEMMA EventWritten ==
  ASSUME LoggerInv, NEW flush \in BOOLEAN, WriteEvent(flush),
         UNCHANGED <<runVars, topicVars>>,
         {safety_seen', safety_received', safety_recorded'}
            \subseteq Safety \cup {"none"},
         {safety_age', localization_age'} \subseteq {-1, 0, 1},
         SuppressesTheLast'
  PROVE  LoggerInv'
<1>1. UNCHANGED <<logger_up, folders, run_dir, log_open, child, recorders,
                  answered, orphaned, announced, undelivered, io_path>>
  BY DEF runVars, topicVars
<1>2. CASE log_open
  <2> DEFINE marks == Marked(log[run_dir], "event")
  <2>1. /\ log' = [log EXCEPT ![run_dir] = marks]
        /\ flushed' \in {flushed, [flushed EXCEPT ![run_dir] = Len(marks)]}
    BY <1>2 DEF WriteEvent
  <2>2. marks \in {log[run_dir], Append(log[run_dir], "event")}
    BY DEF Marked
  <2> HIDE DEF marks
  <2> QED BY <1>1, <1>2, <2>1, <2>2, LogGrows
<1>3. CASE ~log_open
  <2>1. UNCHANGED <<log, flushed>>
    BY <1>3 DEF WriteEvent
  <2>2. /\ logger_up' \in BOOLEAN /\ undelivered' \in BOOLEAN
        /\ announced' \in Runs \cup {NoRun} /\ io_path' \in Runs \cup {NoRun}
    BY <1>1 DEF LoggerInv, LoggerTypeOK
  <2> QED BY <1>1, <2>1, <2>2, LoggerQuiet
<1> QED BY <1>2, <1>3

LEMMA StepSummarise ==
  ASSUME LoggerInv, Summarise
  PROVE  LoggerInv'
<1>1. UNCHANGED <<safety_seen, safety_age, localization_age, safety_received,
                  safety_recorded, log_open>>
  BY DEF Summarise, limitVars, safetyLogVars, runVars
<1>2. /\ {safety_seen', safety_received', safety_recorded'}
            \subseteq Safety \cup {"none"}
      /\ {safety_age', localization_age'} \subseteq {-1, 0, 1}
  BY <1>1 DEF LoggerInv, LoggerTypeOK
<1>3. SuppressesTheLast'
  BY <1>1 DEF LoggerInv, SuppressesTheLast, LogShowsCurrentAbort
<1> QED BY <1>2, <1>3, EventWritten DEF Summarise

LEMMA StepOnSafetyEvent ==
  ASSUME LoggerInv, NEW signature \in Safety, OnSafetyEvent(signature)
  PROVE  LoggerInv'
<1>1. UNCHANGED <<runVars, topicVars, localization_age>>
  BY DEF OnSafetyEvent
<1>2. log_open' = log_open /\ safety_received' = signature /\ signature # "none"
  BY DEF OnSafetyEvent, runVars, Safety
<1>3. CASE Repeated(signature)
  <2>1. UNCHANGED <<log, flushed, safety_seen, safety_age, safety_recorded>>
    BY <1>3 DEF OnSafetyEvent
  <2>2. safety_received = signature
    BY <1>2, <1>3 DEF Repeated, LoggerInv, SuppressesTheLast
  <2>3. SuppressesTheLast'
    BY <1>2, <2>1, <2>2 DEF LoggerInv, SuppressesTheLast, LogShowsCurrentAbort
  <2>4. UNCHANGED <<logger_up, folders, run_dir, log_open, child, recorders,
                    answered, orphaned, announced, undelivered, io_path>>
    BY <1>1 DEF runVars, topicVars
  <2>5. /\ logger_up' \in BOOLEAN /\ undelivered' \in BOOLEAN
        /\ announced' \in Runs \cup {NoRun} /\ io_path' \in Runs \cup {NoRun}
        /\ {safety_seen', safety_received', safety_recorded'}
              \subseteq Safety \cup {"none"}
        /\ {safety_age', localization_age'} \subseteq {-1, 0, 1}
    BY <1>1, <1>2, <2>1, <2>4 DEF LoggerInv, LoggerTypeOK
  <2> QED BY <2>1, <2>3, <2>4, <2>5, LoggerQuiet
<1>4. CASE ~Repeated(signature)
  <2>1. /\ safety_seen' = signature /\ safety_age' = 0
        /\ WriteEvent(signature = "abort")
        /\ safety_recorded' = IF log_open THEN signature ELSE safety_recorded
    BY <1>4 DEF OnSafetyEvent
  <2>2. SuppressesTheLast'
    BY <1>2, <2>1 DEF LoggerInv, SuppressesTheLast, LogShowsCurrentAbort
  <2>3. /\ {safety_seen', safety_received', safety_recorded'}
              \subseteq Safety \cup {"none"}
        /\ {safety_age', localization_age'} \subseteq {-1, 0, 1}
    BY <1>1, <1>2, <2>1 DEF LoggerInv, LoggerTypeOK
  <2>4. (signature = "abort") \in BOOLEAN
    OBVIOUS
  <2> QED BY <1>1, <2>1, <2>2, <2>3, <2>4, EventWritten
<1> QED BY <1>3, <1>4

LEMMA StepOnLocalizationStatus ==
  ASSUME LoggerInv, OnLocalizationStatus
  PROVE  LoggerInv'
<1>1. /\ UNCHANGED <<runVars, topicVars>> /\ WriteEvent(FALSE)
      /\ UNCHANGED <<safety_seen, safety_age, safety_received, safety_recorded,
                     log_open>>
      /\ localization_age' = 0
  BY DEF OnLocalizationStatus, safetyLogVars, runVars
<1>2. /\ {safety_seen', safety_received', safety_recorded'}
            \subseteq Safety \cup {"none"}
      /\ {safety_age', localization_age'} \subseteq {-1, 0, 1}
  BY <1>1 DEF LoggerInv, LoggerTypeOK
<1>3. SuppressesTheLast'
  BY <1>1 DEF LoggerInv, SuppressesTheLast, LogShowsCurrentAbort
<1> QED BY <1>1, <1>2, <1>3, EventWritten

LEMMA StepFlushEventLog ==
  ASSUME LoggerInv, FlushEventLog
  PROVE  LoggerInv'
<1> DEFINE marks == log[run_dir]
<1>1. /\ flushed' = [flushed EXCEPT ![run_dir] = Len(marks)]
      /\ log' = log /\ log_open
      /\ UNCHANGED <<logger_up, folders, run_dir, log_open, child, recorders,
                     answered, orphaned, announced, undelivered, io_path>>
  BY DEF FlushEventLog, runVars, topicVars
<1>2. log' = [log EXCEPT ![run_dir] = marks]
  BY <1>1 DEF LoggerInv, LoggerTypeOK
<1>3. UNCHANGED <<safety_seen, safety_age, localization_age, safety_received,
                  safety_recorded, log_open>>
  BY DEF FlushEventLog, limitVars, safetyLogVars, runVars
<1>4. /\ {safety_seen', safety_received', safety_recorded'}
            \subseteq Safety \cup {"none"}
      /\ {safety_age', localization_age'} \subseteq {-1, 0, 1}
  BY <1>3 DEF LoggerInv, LoggerTypeOK
<1>5. SuppressesTheLast'
  BY <1>3 DEF LoggerInv, SuppressesTheLast, LogShowsCurrentAbort
<1>6. marks \in {log[run_dir], Append(log[run_dir], "event")}
  OBVIOUS
<1> HIDE DEF marks
<1> QED BY <1>1, <1>2, <1>4, <1>5, <1>6, LogGrows

(* The steps that leave the logs and the runs alone.                       *)
LEMMA StepElsewhere ==
  ASSUME LoggerInv,
         \/ PublishRunDir \/ SecondPasses \/ ClockSetBack \/ Restart
         \/ OnRunDir \/ PolicyRestarts \/ UNCHANGED loggerVars
  PROVE  LoggerInv'
<1>1. UNCHANGED <<folders, run_dir, log_open, child, recorders, answered,
                  orphaned, log, flushed>>
  BY DEF PublishRunDir, SecondPasses, ClockSetBack, Restart, OnRunDir,
         PolicyRestarts, loggerVars, runVars
<1>2. logger_up' \in BOOLEAN /\ undelivered' \in BOOLEAN
  BY DEF PublishRunDir, Announce, SecondPasses, ClockSetBack, Restart, OnRunDir,
         PolicyRestarts, loggerVars, runVars, topicVars, LoggerInv, LoggerTypeOK
<1>3. announced' \in Runs \cup {NoRun} /\ io_path' \in Runs \cup {NoRun}
  BY DEF PublishRunDir, Announce, SecondPasses, ClockSetBack, Restart, OnRunDir,
         PolicyRestarts, loggerVars, topicVars, LoggerInv, LoggerTypeOK
<1>4. /\ safety_received' = safety_received
      /\ \/ safety_seen' = safety_seen /\ safety_recorded' = safety_recorded
         \/ safety_seen' = "none" /\ safety_recorded' = "none"
  BY DEF PublishRunDir, SecondPasses, ClockSetBack, Restart, OnRunDir,
         PolicyRestarts, loggerVars, limitVars, safetyLogVars
<1>5. {safety_age', localization_age'} \subseteq {-1, 0, 1}
  <2>1. \A age \in {-1, 0, 1} : Aged1(age) \in {-1, 0, 1}
    BY DEF Aged1
  <2>2. safety_age \in {-1, 0, 1} /\ localization_age \in {-1, 0, 1}
    BY DEF LoggerInv, LoggerTypeOK
  <2> QED BY <2>1, <2>2 DEF PublishRunDir, SecondPasses, ClockSetBack, Restart,
             OnRunDir, PolicyRestarts, loggerVars, limitVars
<1>6. {safety_seen', safety_received', safety_recorded'}
         \subseteq Safety \cup {"none"}
  BY <1>4 DEF LoggerInv, LoggerTypeOK
<1>7. SuppressesTheLast'
  BY <1>1, <1>4 DEF LoggerInv, SuppressesTheLast, LogShowsCurrentAbort
<1> QED BY <1>1, <1>2, <1>3, <1>5, <1>6, <1>7, LoggerQuiet

LEMMA LoggerStep == LoggerInv /\ [LoggerNext]_loggerVars => LoggerInv'
<1> SUFFICES ASSUME LoggerInv, [LoggerNext]_loggerVars PROVE LoggerInv'
  OBVIOUS
<1>1. ASSUME NEW run \in Runs, OnStartRun(run) PROVE LoggerInv'
  BY <1>1, StepStartRun, StepStartRunRaises, StepElsewhere
     DEF OnStartRun, RefuseRun
<1>2. ASSUME \/ OnThrusterCmd \/ OnTrajectoryTarget \/ OnTrackingStatus
             \/ OnAuthorityStatus \/ OnPidStatus \/ OnPolicyStatus
      PROVE  LoggerInv'
  BY <1>2, StepSummarise DEF OnThrusterCmd, OnTrajectoryTarget, OnTrackingStatus,
       OnAuthorityStatus, OnPidStatus, OnPolicyStatus
<1> QED
  BY <1>1, <1>2, StepOnStopRun, StepOnSafetyEvent, StepOnLocalizationStatus,
     StepFlushEventLog, StepShutdown, StepKill, StepElsewhere DEF LoggerNext

(* run_logger without its fairness.                                        *)
LoggerSteps == LoggerInit /\ [][LoggerNext]_loggerVars

LEMMA LoggerInvariant == LoggerSteps => []LoggerInv
BY LoggerInitially, LoggerStep, PTL DEF LoggerSteps

LEMMA MarkedIsBracketed == LoggerInv => LogsAreBracketed
<1> SUFFICES ASSUME LoggerInv, NEW r \in Runs
             PROVE  LET durable == SubSeq(log[r], 1, flushed[r]) IN
                    /\ answered[r] # "nothing" =>
                         IsPrefix(<<"run_started", "start">>, durable)
                    /\ \A i \in DOMAIN durable : durable[i] = "end" => i = Len(durable)
                    /\ answered[r] = "stopped" => Last(durable) = "end"
  BY DEF LogsAreBracketed
<1> DEFINE durable == SubSeq(log[r], 1, flushed[r])
           opening == <<"run_started", "start">>
<1>1. /\ log[r] \in Seq(Marks) /\ Len(log[r]) \in Nat
      /\ flushed[r] \in 0..Len(log[r]) /\ WellMarked(r)
  BY TypedLog DEF LoggerInv
<1>2. /\ durable \in Seq(Marks) /\ Len(durable) = flushed[r]
      /\ \A i \in 1..flushed[r] : durable[i] = log[r][i]
  BY <1>1, FirstEntries
<1> HIDE DEF durable
<1>3. DOMAIN durable = 1..flushed[r]
  BY <1>2
<1>4. \A i \in DOMAIN durable : durable[i] = "end" => i = Len(durable)
  BY <1>1, <1>2, <1>3 DEF WellMarked
<1>5. answered[r] = "stopped" => Last(durable) = "end"
  <2> SUFFICES ASSUME answered[r] = "stopped" PROVE durable[Len(durable)] = "end"
    BY DEF Last
  <2>1. /\ flushed[r] = Len(log[r]) /\ log[r][Len(log[r])] = "end"
        /\ flushed[r] >= 2
    BY <1>1 DEF WellMarked
  <2> QED BY <1>1, <1>2, <2>1
<1>6. answered[r] # "nothing" => IsPrefix(opening, durable)
  <2> SUFFICES ASSUME answered[r] # "nothing" PROVE IsPrefix(opening, durable)
    OBVIOUS
  <2>1. /\ flushed[r] >= 2 /\ durable[1] = "run_started" /\ durable[2] = "start"
    BY <1>1, <1>2 DEF WellMarked
  <2>2. /\ opening \in Seq(Marks) /\ Len(opening) = 2
        /\ opening[1] = "run_started" /\ opening[2] = "start"
    BY Opening
  <2> HIDE DEF opening
  <2>3. SubSeq(opening, 1, 2) = SubSeq(durable, 1, 2)
    <3> DEFINE a == SubSeq(opening, 1, 2)
               b == SubSeq(durable, 1, 2)
    <3>1. /\ a \in Seq(Marks) /\ Len(a) = 2
          /\ \A i \in 1..2 : a[i] = opening[i]
      BY <2>2, FirstEntries
    <3>2. /\ b \in Seq(Marks) /\ Len(b) = 2
          /\ \A i \in 1..2 : b[i] = durable[i]
      <4>1. 2 \in 0..Len(durable)
        BY <1>1, <1>2, <2>1
      <4> QED BY <1>2, <4>1, FirstEntries
    <3> HIDE DEF a, b
    <3>3. \A i \in 1..2 : i = 1 \/ i = 2
      OBVIOUS
    <3>4. \A i \in 1..2 : a[i] = b[i]
      BY <2>1, <2>2, <3>1, <3>2, <3>3
    <3> QED BY <3>1, <3>2, <3>4 DEF a, b
  <2>4. Len(opening) <= Len(durable)
    BY <1>1, <1>2, <2>1, <2>2
  <2> QED BY <2>2, <2>3, <2>4 DEF IsPrefix
<1> QED BY <1>4, <1>5, <1>6 DEF durable

(* on_start_run, on_stop_run, write_event: what the operator was told of a *)
(* run is on disk, whenever the process is killed.                         *)
THEOREM LogsStayBracketed == LoggerSpec => []LogsAreBracketed
BY MarkedIsBracketed, LoggerInvariant, PTL DEF LoggerSpec, LoggerSteps

(* on_start_run's refusal, stop_rosbag, destroy_node: no sequence of       *)
(* starts, stops, interrupts and kills leaves a recorder of an earlier run *)
(* behind that its parent could still stop.                                *)
THEOREM RecordersBelongToRun == LoggerSpec => []NoRecorderLeftBehind
<1>1. LoggerInv => NoRecorderLeftBehind
  BY DEF LoggerInv, OneActiveRun, NoRecorderLeftBehind
<1> QED BY <1>1, LoggerInvariant, PTL DEF LoggerSpec, LoggerSteps

(* on_safety_event: suppressing repeated events never hides a change from  *)
(* the log of the run, however the ROS clock moves.                        *)
THEOREM LogFollowsSafety == LoggerSpec => []LogShowsCurrentAbort
<1>1. LoggerInv => LogShowsCurrentAbort
  BY DEF LoggerInv, SuppressesTheLast
<1> QED BY <1>1, LoggerInvariant, PTL DEF LoggerSpec, LoggerSteps

-----------------------------------------------------------------------------
(* body_policy                                                             *)

(* A set of positions of a sequence has a last one.                        *)
LEMMA LastPosition ==
  ASSUME NEW n \in Nat, NEW T \in SUBSET (1..n), T # {}
  PROVE  \E i \in T : \A j \in T : j <= i
<1> DEFINE back == {k \in Nat : \E i \in T : k = n - i}
           less == OpToRel(<, Nat)
<1>1. back \subseteq Nat /\ back # {}
  <2>1. PICK i \in T : TRUE
    OBVIOUS
  <2>2. i \in Int /\ n - i \in Nat
    BY <2>1
  <2> QED BY <2>1, <2>2
<1>2. IsWellFoundedOn(less, Nat)
  BY NatLessThanWellFounded, Zenon
<1> HIDE DEF less
<1>3. PICK k \in back : \A m \in back : ~(<<m, k>> \in less)
  <2> HIDE DEF back
  <2> QED BY <1>1, <1>2, WFMin, Zenon
<1>4. \A m \in back : ~(m < k)
  <2> SUFFICES ASSUME NEW m \in back, m < k PROVE FALSE
    OBVIOUS
  <2>1. <<m, k>> \in less
    BY <1>1, <1>3 DEF less, OpToRel
  <2> QED BY <1>3, <2>1
<1>5. PICK i \in T : k = n - i
  BY <1>3
<1>6. ASSUME NEW j \in T PROVE j <= i
  <2>1. n - j \in back /\ i \in Int /\ j \in Int
    BY <1>5
  <2>2. ~(n - j < n - i)
    <3> HIDE DEF back
    <3> QED BY <1>4, <1>5, <2>1
  <2> QED BY <2>1, <2>2
<1> QED BY <1>5, <1>6

LEMMA NewestDelayed ==
  ASSUME NEW S \in SUBSET Nat, NEW ages \in Seq(S)
  PROVE  /\ FromDelayed(ages) \in 0..Len(ages)
         /\ FromDelayed(ages) # 0 => ages[FromDelayed(ages)] >= StateDelay
         /\ \A i \in 1..Len(ages) : ages[i] >= StateDelay => i <= FromDelayed(ages)
<1> DEFINE eligible == {i \in DOMAIN ages : ages[i] >= StateDelay}
<1>1. DOMAIN ages = 1..Len(ages) /\ Len(ages) \in Nat
  OBVIOUS
<1>2. CASE eligible = {}
  <2>1. FromDelayed(ages) = 0
    BY <1>2 DEF FromDelayed
  <2> QED BY <1>1, <1>2, <2>1
<1>3. CASE eligible # {}
  <2>1. \E i \in eligible : \A j \in eligible : j <= i
    <3>1. eligible \in SUBSET (1..Len(ages))
      BY <1>1
    <3> HIDE DEF eligible
    <3> QED BY <1>1, <1>3, <3>1, LastPosition
  <2>2. FromDelayed(ages) = CHOOSE i \in eligible : \A j \in eligible : j <= i
    BY <1>3 DEF FromDelayed
  <2>3. /\ FromDelayed(ages) \in eligible
        /\ \A j \in eligible : j <= FromDelayed(ages)
    <3> HIDE DEF eligible
    <3> QED BY <2>1, <2>2
  <2> QED BY <1>1, <2>3
<1> QED BY <1>2, <1>3

-----------------------------------------------------------------------------
(* The inductive invariant of body_policy.                                 *)

BodySamples == [age : 0 .. TooOld, usable : BOOLEAN]

(* A runner is that of a manifest.                                         *)
RunnerHasManifest == runner => policy_kind # "invalid"

(* A load finds no history.  Whatever close() has tried is no longer held, *)
(* so that nothing is when it returns.                                     *)
DeviceInv ==
  /\ runner => loading = "idle"
  /\ loading = "manifest" => held = {}
  /\ loading = "allocating" => policy_kind = "tensorrt"
  /\ ~Closing => tried = 0
  /\ \A i \in 1..tried : ReleaseOrder[i] \notin held
  /\ loading # "idle" => frames = <<>> /\ streak = 0

(* Ticks are counted while the runner acts.                                *)
StreakIsReady == streak > 0 => runner /\ last_ready

(* The deque is in the order of arrival.                                   *)
OldestFirst ==
  \A i, j \in 1..Len(bodies) : i <= j => bodies[j].age <= bodies[i].age

(* An input that is fresh left a sample that is not older.                 *)
FreshSample ==
  input_age["body_state"] <= MaxInputAge =>
    \E i \in 1..Len(bodies) : bodies[i].age <= input_age["body_state"]

(* Each tick of the streak, d ticks ago, had a fresh sample; it is still   *)
(* there, or one that came later and is also old enough.                   *)
SampleOfEachTick ==
  \A d \in 1..StateDelay : d <= streak =>
    \E i \in 1..Len(bodies) : bodies[i].age >= d /\ bodies[i].age <= MaxInputAge + d

SamplesInv ==
  OldestFirst /\ FreshSample /\ SampleOfEachTick /\ StaleSampleOnlyAtResume

PolicyInv ==
  /\ PolicyTypeOK /\ BuffersFollowRunner /\ RunnerHasManifest /\ DeviceInv
  /\ HistoryIsUnbroken /\ StreakIsReady
  /\ SamplesInv

LEMMA PolicyConstants ==
  /\ MaxInputAge \in Nat /\ StateDelay \in Nat /\ HistoryLength \in Nat
  /\ HistoryLength > 0
  /\ TooOld \in Nat /\ TooOld = MaxInputAge + StateDelay + 1
  /\ Never \in Nat /\ Never > TooOld
  /\ Stale \in Nat /\ Stale = MaxInputAge + 1
  /\ MaxStreak \in Nat /\ MaxStreak = StateDelay + HistoryLength + 1
BY PolicyAssumption DEF PolicyAssumption, TooOld, Never, Stale, MaxStreak

(* The history after n frames in a row.                                    *)
Unbroken(n) == [i \in 1 .. n |-> i - 1]

LEMMA UnbrokenFacts ==
  ASSUME NEW n \in Nat
  PROVE  /\ Unbroken(n) \in Seq(Nat) /\ Len(Unbroken(n)) = n
         /\ \A i \in 1..n : Unbroken(n)[i] = i - 1
BY DEF Unbroken

LEMMA NothingYet == Unbroken(0) = <<>>
<1>1. Unbroken(0) \in Seq(Nat) /\ Len(Unbroken(0)) = 0
  BY UnbrokenFacts
<1> QED BY <1>1

LEMMA CommitExtends ==
  ASSUME NEW n \in 0..HistoryLength
  PROVE  Commit(Unbroken(n)) = Unbroken(IF n < HistoryLength THEN n + 1 ELSE HistoryLength)
<1> DEFINE old == Unbroken(n)
           aged == [i \in DOMAIN old |-> old[i] + 1]
           longer == <<0>> \o aged
           m == IF n < HistoryLength THEN n + 1 ELSE HistoryLength
           new == SubSeq(longer, 1, m)
<1>0. n \in Nat /\ HistoryLength \in Nat /\ HistoryLength > 0
  BY PolicyConstants
<1>1. old \in Seq(Nat) /\ Len(old) = n /\ DOMAIN old = 1..n
      /\ \A i \in 1..n : old[i] = i - 1
  BY <1>0, UnbrokenFacts
<1> HIDE DEF old
<1>2. aged \in Seq(Nat) /\ Len(aged) = n /\ \A i \in 1..n : aged[i] = i
  BY <1>0, <1>1
<1>3. Commit(old) = new
  BY <1>0, <1>2 DEF Commit
<1> HIDE DEF aged
<1>4. /\ longer \in Seq(Nat) /\ Len(longer) = n + 1
      /\ longer[1] = 0 /\ \A i \in 2..(n + 1) : longer[i] = aged[i - 1]
  BY <1>0, <1>2
<1>5. \A i \in 1..(n + 1) : longer[i] = i - 1
  BY <1>0, <1>2, <1>4
<1> HIDE DEF longer
<1>6. m \in Nat /\ m <= n + 1 /\ m \in 0..Len(longer)
  BY <1>0, <1>4
<1> HIDE DEF m
<1>7. /\ new \in Seq(Nat) /\ Len(new) = m
      /\ \A i \in 1..m : new[i] = longer[i]
  BY <1>4, <1>6
<1> HIDE DEF new
<1>8. Unbroken(m) \in Seq(Nat) /\ Len(Unbroken(m)) = m
      /\ \A i \in 1..m : Unbroken(m)[i] = i - 1
  BY <1>6, UnbrokenFacts
<1>9. \A i \in 1..m : new[i] = Unbroken(m)[i]
  BY <1>0, <1>5, <1>6, <1>7, <1>8
<1>10. new = Unbroken(m)
  BY <1>7, <1>8, <1>9
<1> QED BY <1>3, <1>10 DEF old, m

-----------------------------------------------------------------------------
LEMMA OlderFacts ==
  ASSUME NEW age \in 0..TooOld
  PROVE  /\ Older(age) \in 0..TooOld
         /\ age <= MaxInputAge + StateDelay => Older(age) = age + 1
         /\ \A younger \in 0..TooOld : younger <= age => Older(younger) <= Older(age)
BY PolicyConstants DEF Older

(* The bounds of a sample of d - 1 ticks ago, one tick later.              *)
LEMMA OneTickOlder ==
  ASSUME NEW age \in Int, NEW older \in Int, NEW limit \in Int, NEW d \in Int,
         age <= limit + (d - 1), older >= (d - 1) + 1, older <= age + 1
  PROVE  older >= d /\ older <= limit + d
OBVIOUS

LEMMA SampleAge ==
  ASSUME NEW sample \in BodySamples
  PROVE  sample.age \in Nat
<1>1. TooOld \in Nat
  BY ONLY PolicyConstants
<1> QED BY <1>1 DEF BodySamples

LEMMA BodyAgesFacts ==
  ASSUME bodies \in Seq(BodySamples)
  PROVE  /\ BodyAges \in Seq(0..TooOld) /\ Len(BodyAges) = Len(bodies)
         /\ \A i \in 1..Len(bodies) : /\ BodyAges[i] = bodies[i].age
                                      /\ bodies[i].age \in 0..TooOld
                                      /\ bodies[i].usable \in BOOLEAN
<1>1. DOMAIN bodies = 1..Len(bodies) /\ Len(bodies) \in Nat
      /\ \A i \in 1..Len(bodies) : bodies[i] \in BodySamples
  OBVIOUS
<1>2. \A i \in 1..Len(bodies) : bodies[i].age \in 0..TooOld /\ bodies[i].usable \in BOOLEAN
  BY <1>1 DEF BodySamples
<1>3. BodyAges = [i \in 1..Len(bodies) |-> bodies[i].age]
  BY <1>1 DEF BodyAges
<1> QED BY <1>1, <1>2, <1>3

(* The first entry that the deque of body states keeps.                    *)
FirstKept == IF FromDelayed(BodyAges) = 0 THEN 1 ELSE FromDelayed(BodyAges)

AgedBodies ==
  LET kept == SubSeq(bodies, FirstKept, Len(bodies))
  IN [j \in DOMAIN kept |-> [kept[j] EXCEPT !.age = Older(@)]]

LEMMA AgedBodiesFacts ==
  ASSUME bodies \in Seq(BodySamples)
  PROVE  /\ AgedBodies \in Seq(BodySamples)
         /\ FirstKept \in 1..(Len(bodies) + 1)
         /\ Len(AgedBodies) = Len(bodies) - FirstKept + 1
         /\ \A j \in 1..Len(AgedBodies) :
              AgedBodies[j].age = Older(bodies[j + FirstKept - 1].age)
<1> DEFINE k == FirstKept
           kept == SubSeq(bodies, k, Len(bodies))
           n == Len(bodies) - k + 1
<1>1. Len(bodies) \in Nat /\ k \in 1..(Len(bodies) + 1)
  <2>1. 0..TooOld \in SUBSET Nat
    BY PolicyConstants
  <2>2. FromDelayed(BodyAges) \in 0..Len(bodies)
    BY <2>1, BodyAgesFacts, NewestDelayed
  <2> QED BY <2>2 DEF FirstKept
<1> HIDE DEF k
<1>2. /\ kept \in Seq(BodySamples) /\ Len(kept) = n /\ DOMAIN kept = 1..n
      /\ \A j \in 1..n : kept[j] = bodies[j + k - 1]
  BY <1>1, LaterEntries
<1>3. n \in Nat
  BY <1>1
<1>4. AgedBodies = [j \in 1..n |-> [kept[j] EXCEPT !.age = Older(@)]]
  BY <1>2 DEF AgedBodies, k
<1> HIDE DEF kept, n
<1>5. ASSUME NEW j \in 1..n
      PROVE  /\ [kept[j] EXCEPT !.age = Older(@)] \in BodySamples
             /\ [kept[j] EXCEPT !.age = Older(@)].age = Older(bodies[j + k - 1].age)
  <2>1. kept[j] \in BodySamples /\ kept[j] = bodies[j + k - 1]
    BY <1>2, <1>3
  <2>2. kept[j].age \in 0..TooOld
    BY <2>1 DEF BodySamples
  <2>3. Older(kept[j].age) \in 0..TooOld
    BY <2>2, OlderFacts
  <2> QED BY <2>1, <2>3 DEF BodySamples
<1>6. AgedBodies \in Seq(BodySamples) /\ Len(AgedBodies) = n
  BY <1>3, <1>4, <1>5
<1>7. \A j \in 1..n : AgedBodies[j].age = Older(bodies[j + k - 1].age)
  BY <1>4, <1>5
<1> QED BY <1>1, <1>6, <1>7 DEF k, n

(* A sample of age a, not too old and no younger than the delay asks for,  *)
(* is represented after the tick, by itself or by a later one.             *)
LEMMA SampleSurvives ==
  ASSUME bodies \in Seq(BodySamples), OldestFirst,
         NEW d \in 0..StateDelay, NEW i \in 1..Len(bodies),
         bodies[i].age >= d, bodies[i].age <= MaxInputAge + StateDelay
  PROVE  \E j \in 1..Len(AgedBodies) :
            /\ AgedBodies[j].age >= d + 1
            /\ AgedBodies[j].age <= bodies[i].age + 1
<1> DEFINE k == FirstKept
<1>1. /\ k \in 1..(Len(bodies) + 1) /\ Len(bodies) \in Nat
      /\ Len(AgedBodies) = Len(bodies) - k + 1
      /\ \A j \in 1..Len(AgedBodies) : AgedBodies[j].age = Older(bodies[j + k - 1].age)
  BY AgedBodiesFacts
<1>2. bodies[i].age \in 0..TooOld /\ TooOld \in Nat /\ StateDelay \in Nat
      /\ MaxInputAge \in Nat
  BY BodyAgesFacts, PolicyConstants
<1>3. CASE i >= k
  <2>1. (i - k + 1) \in 1..Len(AgedBodies) /\ (i - k + 1) + k - 1 = i
    BY <1>1, <1>3
  <2>2. AgedBodies[i - k + 1].age = bodies[i].age + 1
    BY <1>1, <1>2, <2>1, OlderFacts
  <2>3. AgedBodies[i - k + 1].age >= d + 1 /\ AgedBodies[i - k + 1].age <= bodies[i].age + 1
    <3>1. d \in Int /\ bodies[i].age \in Int /\ bodies[i].age >= d
      BY <1>2
    <3> QED BY <2>2, <3>1
  <2> HIDE DEF k
  <2> QED BY <2>1, <2>3
<1>4. CASE i < k
  <2>1. k = FromDelayed(BodyAges) /\ k # 0
    BY <1>1, <1>4 DEF FirstKept
  <2>2. k \in 1..Len(bodies) /\ bodies[k].age >= StateDelay
    <3>1. 0..TooOld \in SUBSET Nat
      BY PolicyConstants
    <3>2. FromDelayed(BodyAges) \in 0..Len(bodies) /\ BodyAges[FromDelayed(BodyAges)] >= StateDelay
      BY <2>1, <3>1, BodyAgesFacts, NewestDelayed
    <3> QED BY <1>1, <2>1, <3>2, BodyAgesFacts
  <2>3. bodies[k].age <= bodies[i].age /\ bodies[k].age \in 0..TooOld
    BY <1>4, <2>2, BodyAgesFacts DEF OldestFirst
  <2>4. AgedBodies[1].age = bodies[k].age + 1 /\ 1 \in 1..Len(AgedBodies)
    <3>1. 1 \in 1..Len(AgedBodies) /\ 1 + k - 1 = k
      BY <1>1, <2>2
    <3>2. AgedBodies[1].age = Older(bodies[k].age)
      BY <1>1, <3>1
    <3>3. bodies[k].age <= MaxInputAge + StateDelay
      BY <1>2, <2>3
    <3> QED BY <2>3, <3>1, <3>2, <3>3, OlderFacts
  <2>5. bodies[k].age + 1 >= d + 1 /\ bodies[k].age + 1 <= bodies[i].age + 1
    <3>1. d \in Int /\ d <= StateDelay /\ StateDelay \in Int
      BY <1>2
    <3>2. bodies[k].age \in Int /\ bodies[i].age \in Int
      BY <1>2, <2>3
    <3> HIDE DEF k
    <3> QED BY <2>2, <2>3, <3>1, <3>2
  <2> HIDE DEF k
  <2> QED BY <2>4, <2>5
<1> QED BY <1>1, <1>3, <1>4

-----------------------------------------------------------------------------
(* The steps that keep the buffers of the runner and its history.          *)

LEMMA ReleaseOrderFacts ==
  /\ Len(ReleaseOrder) = 3
  /\ ReleaseOrder[1] = "stream" /\ ReleaseOrder[2] = "device_output"
  /\ ReleaseOrder[3] = "device_input"
  /\ Buffers = {"stream", "device_output", "device_input"}
BY DEF ReleaseOrder, Buffers

DeviceTypeOK ==
  /\ policy_up \in BOOLEAN /\ runner \in BOOLEAN
  /\ policy_kind \in RunnerKinds \cup {"invalid"}
  /\ loading \in {"idle", "closing", "raising", "manifest", "allocating", "undoing"}
  /\ held \cup leaked \cup refused \subseteq Buffers
  /\ tried \in 0..Len(ReleaseOrder)

LEMMA EmptyHistory ==
  <<>> = [i \in 1 .. (IF 0 < HistoryLength THEN 0 ELSE HistoryLength) |-> i - 1]
<1>1. (IF 0 < HistoryLength THEN 0 ELSE HistoryLength) = 0
  BY PolicyConstants
<1>2. <<>> = [i \in 1..0 |-> i - 1]
  BY NothingYet DEF Unbroken
<1> QED BY <1>1, <1>2, Zenon

LEMMA LoadPolicyKeepsInv ==
  ASSUME PolicyInv, LoadPolicy
  PROVE  PolicyInv'
<1>1. /\ bodies' = <<>> /\ imus' = <<>> /\ frames' = <<>>
      /\ input_age' = [i \in Inputs |-> Stale]
      /\ target_valid' = FALSE /\ last_ready' = FALSE /\ acted' = FALSE
      /\ used_age' = Never /\ streak' = 0
      /\ runner' = FALSE /\ leaked' = {} /\ refused' = {}
      /\ UNCHANGED <<policy_up, policy_kind, held, tried>>
      /\ loading = "idle"
      /\ loading' = IF runner /\ policy_kind = "tensorrt" THEN "closing" ELSE "manifest"
  BY DEF LoadPolicy, Idle
<1>2. PolicyTypeOK'
  <2>1. <<>> \in Seq(BodySamples) /\ <<>> \in Seq(0..TooOld) /\ <<>> \in Seq(Nat)
        /\ Len(<<>>) = 0
    OBVIOUS
  <2>2. Never \in 0..Never /\ 0 \in 0..MaxStreak /\ Stale \in 0..Stale
        /\ 0 <= HistoryLength
    BY PolicyConstants
  <2>3. input_age' \in [Inputs -> 0..Stale]
    BY <1>1, <2>2
  <2>4. DeviceTypeOK'
    BY <1>1 DEF PolicyInv, PolicyTypeOK, DeviceTypeOK
  <2> QED BY <1>1, <2>1, <2>2, <2>3, <2>4, Zenon DEF PolicyTypeOK, DeviceTypeOK, BodySamples
<1>3. BuffersFollowRunner' /\ RunnerHasManifest'
  BY <1>1 DEF BuffersFollowRunner, RunnerHasManifest
<1>4. DeviceInv'
  <2>1. tried = 0 /\ 1..0 = {}
    BY <1>1 DEF PolicyInv, DeviceInv, Closing
  <2>2. loading' = "manifest" => held = {}
    BY <1>1 DEF PolicyInv, BuffersFollowRunner
  <2> QED BY <1>1, <2>1, <2>2 DEF DeviceInv
<1>5. HistoryIsUnbroken' /\ StreakIsReady'
  <2>1. HistoryIsUnbroken'
    BY <1>1, EmptyHistory, Zenon DEF HistoryIsUnbroken
  <2> QED BY <1>1, <2>1 DEF StreakIsReady
<1>6. SamplesInv'
  <2>1. Len(bodies') = 0 /\ 1..0 = {}
    BY <1>1
  <2>2. OldestFirst'
    BY <2>1 DEF OldestFirst
  <2>3. FreshSample'
    <3>1. input_age'["body_state"] = Stale
      BY <1>1 DEF Inputs
    <3> QED BY <3>1, PolicyConstants DEF FreshSample
  <2>4. SampleOfEachTick'
    BY <1>1, PolicyConstants DEF SampleOfEachTick
  <2>5. StaleSampleOnlyAtResume'
    BY <1>1 DEF StaleSampleOnlyAtResume
  <2> QED BY <2>2, <2>3, <2>4, <2>5 DEF SamplesInv
<1> QED BY <1>2, <1>3, <1>4, <1>5, <1>6 DEF PolicyInv

(* A step of a load leaves everything but the runner and the device alone. *)
LEMMA LoadingLeavesSamples ==
  ASSUME PolicyInv, loading # "idle", UNCHANGED observedVars, DeviceTypeOK',
         BuffersFollowRunner', RunnerHasManifest', DeviceInv'
  PROVE  PolicyInv'
<1>1. frames' = <<>> /\ streak' = 0
  BY DEF PolicyInv, DeviceInv, observedVars
<1>2. HistoryIsUnbroken' /\ StreakIsReady'
  <2>1. HistoryIsUnbroken'
    BY <1>1, EmptyHistory, Zenon DEF HistoryIsUnbroken
  <2> QED BY <1>1, <2>1 DEF StreakIsReady
<1>3. PolicyTypeOK'
  BY Zenon DEF PolicyInv, PolicyTypeOK, DeviceTypeOK, observedVars
<1>4. SamplesInv'
  BY DEF observedVars, PolicyInv, SamplesInv, OldestFirst, FreshSample, SampleOfEachTick,
         StaleSampleOnlyAtResume
<1> QED BY <1>2, <1>3, <1>4 DEF PolicyInv

LEMMA LoadingKeepsInv ==
  ASSUME PolicyInv, LoadingStep
  PROVE  PolicyInv'
<1>t. DeviceTypeOK /\ BuffersFollowRunner /\ RunnerHasManifest /\ DeviceInv
  BY Zenon DEF PolicyInv, PolicyTypeOK, DeviceTypeOK
<1>u. ASSUME loading # "idle", UNCHANGED observedVars, DeviceTypeOK', BuffersFollowRunner',
             RunnerHasManifest', DeviceInv'
      PROVE  PolicyInv'
  BY <1>u, LoadingLeavesSamples
<1> DEFINE Goal == /\ loading # "idle" /\ UNCHANGED observedVars
                   /\ (DeviceTypeOK /\ BuffersFollowRunner /\ RunnerHasManifest /\ DeviceInv)'
<1>1. CASE LoadPolicy
  BY <1>1, LoadPolicyKeepsInv
<1>2. CASE ManifestRejected
  <2>1. Goal
    BY <1>t, <1>2 DEF ManifestRejected, DeviceTypeOK, BuffersFollowRunner, RunnerHasManifest,
                      DeviceInv, Closing, RunnerKinds, observedVars
  <2> QED BY <1>u, <2>1
<1>3. ASSUME NEW k \in RunnerKinds, RunnerFails(k) PROVE PolicyInv'
  <2>1. Goal
    BY <1>t, <1>3 DEF RunnerFails, DeviceTypeOK, BuffersFollowRunner, RunnerHasManifest,
                      DeviceInv, Closing, observedVars
  <2> QED BY <1>u, <2>1
<1>4. ASSUME NEW k \in RunnerKinds, CreateRunner(k) PROVE PolicyInv'
  <2>1. Goal
    BY <1>t, <1>4 DEF CreateRunner, DeviceTypeOK, BuffersFollowRunner, RunnerHasManifest,
                      DeviceInv, Closing, RunnerKinds, observedVars
  <2> QED BY <1>u, <2>1
<1>5. CASE Allocate
  <2>1. held' \subseteq Buffers
    BY <1>t, <1>5 DEF Allocate, AllocationOrder, DeviceTypeOK, Buffers
  <2>2. Goal
    BY <1>t, <1>5, <2>1 DEF Allocate, DeviceTypeOK, BuffersFollowRunner, RunnerHasManifest,
                      DeviceInv, Closing, observedVars
  <2> QED BY <1>u, <2>2
<1>6. CASE AllocationFails
  <2>1. Goal
    BY <1>t, <1>6 DEF AllocationFails, DeviceTypeOK, BuffersFollowRunner, RunnerHasManifest,
                      DeviceInv, Closing, observedVars
  <2> QED BY <1>u, <2>1
<1>7. CASE RunnerLoaded
  <2>1. Goal
    BY <1>t, <1>7 DEF RunnerLoaded, DeviceTypeOK, BuffersFollowRunner, RunnerHasManifest,
                      DeviceInv, Closing, observedVars
  <2> QED BY <1>u, <2>1
<1>8. ASSUME NEW refuses \in BOOLEAN, ReleaseNext(refuses) PROVE PolicyInv'
  <2> DEFINE buffer == ReleaseOrder[tried + 1]
             failed == IF refuses THEN {buffer} ELSE {}
  <2>1. /\ tried \in 0..2 /\ tried' = tried + 1 /\ tried' \in 0..3
        /\ buffer \in Buffers /\ failed \subseteq Buffers
    BY <1>t, <1>8, ReleaseOrderFacts DEF ReleaseNext, Tried, DeviceTypeOK
  <2>2. /\ held' = held \ {buffer}
        /\ leaked' = leaked \cup failed /\ refused' = refused \cup failed
        /\ loading \in {"closing", "raising", "undoing"}
        /\ loading' \in {loading, "raising"}
        /\ UNCHANGED <<policy_up, policy_kind, runner, observedVars>>
    BY <1>8 DEF ReleaseNext, Closing
  <2>3. \A i \in 1..tried' : ReleaseOrder[i] \notin held'
    <3>1. \A i \in 1..tried' : i \in 1..tried \/ i = tried + 1
      BY <2>1
    <3> QED BY <1>t, <2>2, <3>1 DEF DeviceInv
  <2> HIDE DEF buffer, failed
  <2>4. DeviceTypeOK'
    BY <1>t, <2>1, <2>2, ReleaseOrderFacts DEF DeviceTypeOK
  <2>5. BuffersFollowRunner' /\ RunnerHasManifest' /\ DeviceInv'
    BY <1>t, <2>2, <2>3 DEF BuffersFollowRunner, RunnerHasManifest, DeviceInv, Closing,
                            observedVars
  <2> QED BY <1>u, <2>2, <2>4, <2>5
<1>9. CASE CloseReturns
  <2>1. held = {}
    <3>1. tried = 3 /\ 1 \in 1..3 /\ 2 \in 1..3 /\ 3 \in 1..3
      BY <1>9, ReleaseOrderFacts DEF CloseReturns
    <3>2. held \subseteq Buffers /\ \A i \in 1..3 : ReleaseOrder[i] \notin held
      BY <1>t, <3>1 DEF DeviceTypeOK, DeviceInv
    <3> QED BY <3>1, <3>2, ReleaseOrderFacts
  <2>2. 0 \in 0..Len(ReleaseOrder) /\ 1..0 = {}
    BY ReleaseOrderFacts
  <2>3. runner = FALSE
    BY <1>t, <1>9 DEF CloseReturns, DeviceInv, DeviceTypeOK
  <2>4. Goal
    BY <1>t, <1>9, <2>1, <2>2, <2>3 DEF CloseReturns, DeviceTypeOK, BuffersFollowRunner,
       RunnerHasManifest, DeviceInv, Closing, observedVars
  <2> QED BY <1>u, <2>4
<1>10. CASE CloseRaises
  <2>1. 0 \in 0..Len(ReleaseOrder) /\ 1..0 = {}
    BY ReleaseOrderFacts
  <2>2. runner = FALSE
    BY <1>t, <1>10 DEF CloseRaises, DeviceInv, DeviceTypeOK
  <2>3. Goal
    BY <1>t, <1>10, <2>1, <2>2 DEF CloseRaises, DeviceTypeOK, BuffersFollowRunner,
       RunnerHasManifest, DeviceInv, Closing, observedVars
  <2> QED BY <1>u, <2>3
<1> QED BY <1>1, <1>2, <1>3, <1>4, <1>5, <1>6, <1>7, <1>8, <1>9, <1>10 DEF LoadingStep

(* A sample arrives.                                                       *)
LEMMA ArrivalFacts ==
  ASSUME NEW S, NEW entries \in Seq(S), NEW ages, NEW new \in S
  PROVE  LET old == Arrived(entries, ages)
             n == Len(old)
             all == Append(old, new)
         IN /\ old \in Seq(S) /\ n \in Nat
            /\ n = Len(entries) \/ (n = Len(entries) - 1 /\ ages[Len(ages)] = 0)
            /\ \A i \in 1..n : old[i] = entries[i]
            /\ all \in Seq(S) /\ Len(all) = n + 1
            /\ \A i \in 1..n : all[i] = entries[i]
            /\ all[n + 1] = new
<1> DEFINE old == Arrived(entries, ages)
<1>1. /\ old \in Seq(S) /\ Len(old) \in Nat
      /\ Len(old) = Len(entries) \/ (Len(old) = Len(entries) - 1 /\ ages[Len(ages)] = 0)
      /\ \A i \in 1..Len(old) : old[i] = entries[i]
  <2>1. CASE entries # <<>> /\ Last(ages) = 0
    <3>1. Len(entries) \in Nat /\ Len(entries) > 0
      BY <2>1
    <3>2. old = SubSeq(entries, 1, Len(entries) - 1)
      BY <2>1 DEF Arrived, Front
    <3>3. /\ old \in Seq(S) /\ Len(old) = Len(entries) - 1
          /\ \A i \in 1..Len(old) : old[i] = entries[i]
      <4>1. Len(entries) - 1 \in 0..Len(entries)
        BY <3>1
      <4> HIDE DEF old
      <4> QED BY <3>2, <4>1, FirstEntries
    <3>4. ages[Len(ages)] = 0
      BY <2>1 DEF Last
    <3> HIDE DEF old
    <3> QED BY <3>1, <3>3, <3>4
  <2>2. CASE ~(entries # <<>> /\ Last(ages) = 0)
    BY <2>2 DEF Arrived
  <2> QED BY <2>1, <2>2
<1> HIDE DEF old
<1>2. /\ Append(old, new) \in Seq(S) /\ Len(Append(old, new)) = Len(old) + 1
      /\ \A i \in 1..Len(old) : Append(old, new)[i] = old[i]
      /\ Append(old, new)[Len(old) + 1] = new
  BY <1>1
<1> QED BY <1>1, <1>2 DEF old

LEMMA BodyStateKeepsInv ==
  ASSUME PolicyInv, NEW usable \in BOOLEAN, PolicyOnBodyState(usable)
  PROVE  PolicyInv'
<1> DEFINE old == Arrived(bodies, BodyAges)
           new == [age |-> 0, usable |-> usable]
           n == Len(old)
<1>1. bodies \in Seq(BodySamples) /\ input_age \in [Inputs -> 0..Stale]
  BY DEF PolicyInv, PolicyTypeOK, BodySamples
<1>2. new \in BodySamples /\ new.age = 0
  BY PolicyConstants DEF BodySamples
<1>3. bodies' = Append(old, new) /\ input_age' = [input_age EXCEPT !["body_state"] = 0]
  BY DEF PolicyOnBodyState
<1> HIDE DEF new
<1>4. /\ n \in Nat /\ Len(bodies) \in Nat
      /\ n = Len(bodies) \/ (n = Len(bodies) - 1 /\ BodyAges[Len(BodyAges)] = 0)
      /\ bodies' \in Seq(BodySamples) /\ Len(bodies') = n + 1
      /\ \A i \in 1..n : bodies'[i] = bodies[i]
      /\ bodies'[n + 1] = new
  BY <1>1, <1>2, <1>3, ArrivalFacts
<1> HIDE DEF old, n
<1>5. \A i \in 1..Len(bodies) : bodies[i].age \in 0..TooOld
  BY <1>1, BodyAgesFacts
<1>6. n = Len(bodies) - 1 => bodies[Len(bodies)].age = 0
  BY <1>1, <1>4, BodyAgesFacts
<1>7. UNCHANGED <<policy_up, policy_kind, runner, deviceVars, imus, target_valid, frames,
                  last_ready, acted, used_age, streak>>
  BY DEF PolicyOnBodyState
<1>8. input_age' \in [Inputs -> 0..Stale] /\ input_age'["body_state"] = 0
  BY <1>1, <1>3, PolicyConstants DEF Inputs
<1>9. PolicyTypeOK'
  BY <1>4, <1>7, <1>8, Zenon DEF PolicyInv, PolicyTypeOK, BodySamples, deviceVars
<1>10. /\ BuffersFollowRunner' /\ RunnerHasManifest' /\ DeviceInv' /\ HistoryIsUnbroken'
       /\ StreakIsReady' /\ StaleSampleOnlyAtResume'
  BY <1>7 DEF PolicyInv, SamplesInv, BuffersFollowRunner, RunnerHasManifest, DeviceInv, Closing,
              HistoryIsUnbroken, StreakIsReady, StaleSampleOnlyAtResume, deviceVars
<1>11. OldestFirst'
  <2> SUFFICES ASSUME NEW i \in 1..(n + 1), NEW j \in 1..(n + 1), i <= j
               PROVE  bodies'[j].age <= bodies'[i].age
    BY <1>4 DEF OldestFirst
  <2>1. CASE j = n + 1
    <3>1. bodies'[j].age = 0
      BY <1>2, <1>4, <2>1
    <3>2. bodies'[i].age \in Nat
      BY <1>2, <1>4, <1>5, PolicyConstants
    <3> QED BY <3>1, <3>2
  <2>2. CASE j # n + 1
    <3>1. i \in 1..n /\ j \in 1..n /\ i \in 1..Len(bodies) /\ j \in 1..Len(bodies)
      BY <1>4, <2>2
    <3> QED BY <1>4, <3>1 DEF PolicyInv, SamplesInv, OldestFirst
  <2> QED BY <2>1, <2>2
<1>12. FreshSample'
  <2>1. n + 1 \in 1..Len(bodies') /\ bodies'[n + 1].age <= input_age'["body_state"]
    BY <1>2, <1>4, <1>8
  <2> QED BY <2>1 DEF FreshSample
<1>13. SampleOfEachTick'
  <2> SUFFICES ASSUME NEW d \in 1..StateDelay, d <= streak
               PROVE  \E i \in 1..Len(bodies') :
                        bodies'[i].age >= d /\ bodies'[i].age <= MaxInputAge + d
    BY <1>7 DEF SampleOfEachTick
  <2>1. PICK i \in 1..Len(bodies) : bodies[i].age >= d /\ bodies[i].age <= MaxInputAge + d
    BY DEF PolicyInv, SamplesInv, SampleOfEachTick
  <2>2. bodies[i].age # 0
    BY <1>5, <2>1, PolicyConstants
  <2>3. i \in 1..n
    BY <1>4, <1>6, <2>2
  <2> QED BY <1>4, <2>1, <2>3
<1> QED BY <1>9, <1>10, <1>11, <1>12, <1>13 DEF PolicyInv, SamplesInv

(* The other messages leave the samples of the body state alone.           *)
LEMMA OtherInputKeepsInv ==
  ASSUME PolicyInv, target_valid' \in BOOLEAN, imus' \in Seq(0..TooOld),
         NEW input \in Inputs \ {"body_state"},
         input_age' = [input_age EXCEPT ![input] = 0],
         UNCHANGED <<policy_up, policy_kind, runner, deviceVars, bodies, frames,
                     last_ready, acted, used_age, streak>>
  PROVE  PolicyInv'
<1>1. input_age' \in [Inputs -> 0..Stale] /\ input_age'["body_state"] = input_age["body_state"]
  BY PolicyConstants DEF PolicyInv, PolicyTypeOK, Inputs
<1>2. PolicyTypeOK'
  BY <1>1, Zenon DEF PolicyInv, PolicyTypeOK, deviceVars
<1>3. /\ BuffersFollowRunner' /\ RunnerHasManifest' /\ DeviceInv'
      /\ HistoryIsUnbroken' /\ StreakIsReady'
  BY DEF PolicyInv, BuffersFollowRunner, RunnerHasManifest, DeviceInv, Closing,
         HistoryIsUnbroken, StreakIsReady, deviceVars
<1>4. SamplesInv'
  BY <1>1 DEF PolicyInv, SamplesInv, OldestFirst, FreshSample, SampleOfEachTick,
              StaleSampleOnlyAtResume
<1> QED BY <1>2, <1>3, <1>4 DEF PolicyInv

LEMMA OtherInputs ==
  ASSUME PolicyInv,
         \/ PolicyOnExternalImu
         \/ PolicyOnThrusterCommand
         \/ \E valid \in BOOLEAN : PolicyOnTarget(valid)
  PROVE  PolicyInv'
<1>1. imus \in Seq(0..TooOld) /\ target_valid \in BOOLEAN
  BY DEF PolicyInv, PolicyTypeOK
<1>2. CASE PolicyOnExternalImu
  <2>1. 0 \in 0..TooOld
    BY PolicyConstants
  <2>2. Append(Arrived(imus, imus), 0) \in Seq(0..TooOld)
    BY <1>1, <2>1, ArrivalFacts
  <2>3. "external_imu" \in Inputs \ {"body_state"}
    BY DEF Inputs
  <2> QED BY <1>1, <1>2, <2>2, <2>3, OtherInputKeepsInv DEF PolicyOnExternalImu
<1>3. CASE PolicyOnThrusterCommand
  <2>1. "thruster_cmd" \in Inputs \ {"body_state"}
    BY DEF Inputs
  <2> QED BY <1>1, <1>3, <2>1, OtherInputKeepsInv DEF PolicyOnThrusterCommand
<1>4. ASSUME NEW valid \in BOOLEAN, PolicyOnTarget(valid) PROVE PolicyInv'
  <2>1. "target" \in Inputs \ {"body_state"}
    BY DEF Inputs
  <2> QED BY <1>1, <1>4, <2>1, OtherInputKeepsInv DEF PolicyOnTarget
<1> QED BY <1>2, <1>3, <1>4

-----------------------------------------------------------------------------
(* tick                                                                    *)

(* The deques and ages after the tick.                                     *)
LEMMA TickAges ==
  ASSUME PolicyInv, PolicyTick
  PROVE  /\ bodies' = AgedBodies
         /\ bodies' \in Seq(BodySamples) /\ imus' \in Seq(0..TooOld)
         /\ input_age' \in [Inputs -> 0..Stale]
         /\ OldestFirst' /\ FreshSample'
<1> DEFINE k == FirstKept
           b == input_age["body_state"]
<1>1. /\ bodies \in Seq(BodySamples) /\ imus \in Seq(0..TooOld)
      /\ input_age \in [Inputs -> 0..Stale] /\ OldestFirst /\ FreshSample
  BY DEF PolicyInv, SamplesInv, PolicyTypeOK, BodySamples
<1>2. bodies' = AgedBodies
  BY DEF PolicyTick, AgedBodies, FirstKept
<1>3. /\ bodies' \in Seq(BodySamples) /\ k \in 1..(Len(bodies) + 1)
      /\ Len(bodies') = Len(bodies) - k + 1
      /\ \A j \in 1..Len(bodies') : bodies'[j].age = Older(bodies[j + k - 1].age)
  BY <1>1, <1>2, AgedBodiesFacts
<1>4. imus' \in Seq(0..TooOld)
  <2> DEFINE i == FromDelayed(imus)
             f == IF i = 0 THEN 1 ELSE i
             kept == SubSeq(imus, f, Len(imus))
  <2>1. 0..TooOld \in SUBSET Nat
    BY PolicyConstants
  <2>2. i \in 0..Len(imus) /\ Len(imus) \in Nat
    <3>1. Len(imus) \in Nat
      BY <1>1
    <3>2. FromDelayed(imus) \in 0..Len(imus)
      BY <1>1, <2>1, NewestDelayed, Zenon
    <3> QED BY <3>1, <3>2
  <2>3. imus' = [j \in DOMAIN kept |-> Older(kept[j])]
    BY DEF PolicyTick
  <2> HIDE DEF i
  <2>4. f \in 1..(Len(imus) + 1)
    BY <2>2
  <2> HIDE DEF f
  <2>5. kept \in Seq(0..TooOld)
    BY <1>1, <2>4, LaterEntries
  <2> HIDE DEF kept
  <2>6. \A j \in DOMAIN kept : Older(kept[j]) \in 0..TooOld
    <3>1. \A j \in DOMAIN kept : kept[j] \in 0..TooOld
      BY <2>5, Entries, Zenon
    <3> QED BY <3>1, OlderFacts
  <2>7. DOMAIN kept = 1..Len(kept) /\ Len(kept) \in Nat
    BY <2>5
  <2> QED BY <2>3, <2>6, <2>7
<1>5. /\ input_age' \in [Inputs -> 0..Stale]
      /\ input_age'["body_state"] = IF b = Stale THEN Stale ELSE b + 1
      /\ b \in 0..Stale
  <2>1. input_age' = [m \in Inputs |-> IF input_age[m] = Stale THEN Stale ELSE input_age[m] + 1]
    BY DEF PolicyTick
  <2>2. ASSUME NEW m \in Inputs
        PROVE  (IF input_age[m] = Stale THEN Stale ELSE input_age[m] + 1) \in 0..Stale
    <3>1. input_age[m] \in 0..Stale /\ Stale \in Nat
      BY <1>1, PolicyConstants
    <3> QED BY <3>1
  <2>3. "body_state" \in Inputs
    BY DEF Inputs
  <2> QED BY <1>1, <2>1, <2>2, <2>3
<1>6. OldestFirst'
  <2> SUFFICES ASSUME NEW i \in 1..Len(bodies'), NEW j \in 1..Len(bodies'), i <= j
               PROVE  bodies'[j].age <= bodies'[i].age
    BY DEF OldestFirst
  <2> DEFINE p == i + k - 1
             q == j + k - 1
  <2>1. p \in 1..Len(bodies) /\ q \in 1..Len(bodies) /\ p <= q /\ Len(bodies) \in Nat
    BY <1>1, <1>3
  <2>2. bodies'[i].age = Older(bodies[p].age) /\ bodies'[j].age = Older(bodies[q].age)
    BY <1>3
  <2> HIDE DEF p, q
  <2>3. bodies[p].age \in 0..TooOld /\ bodies[q].age \in 0..TooOld
    BY <1>1, <2>1, BodyAgesFacts
  <2>4. bodies[q].age <= bodies[p].age
    BY <1>1, <2>1 DEF OldestFirst
  <2> QED BY <2>2, <2>3, <2>4, OlderFacts
<1>7. FreshSample'
  <2> SUFFICES ASSUME input_age'["body_state"] <= MaxInputAge
               PROVE  \E j \in 1..Len(bodies') : bodies'[j].age <= input_age'["body_state"]
    BY DEF FreshSample
  <2>1. b <= MaxInputAge /\ input_age'["body_state"] = b + 1 /\ b \in Nat
    BY <1>5, PolicyConstants
  <2>2. PICK i \in 1..Len(bodies) : bodies[i].age <= b
    BY <1>1, <2>1 DEF FreshSample
  <2>3. bodies[i].age \in 0..TooOld /\ bodies[i].age <= MaxInputAge + StateDelay
        /\ bodies[i].age >= 0 /\ 0 \in 0..StateDelay
    <3>1. bodies[i].age \in 0..TooOld
      BY <1>1, <2>2, BodyAgesFacts
    <3>2. MaxInputAge \in Nat /\ StateDelay \in Nat /\ TooOld \in Nat
      BY PolicyConstants
    <3> HIDE DEF b
    <3> QED BY <2>1, <2>2, <3>1, <3>2
  <2>4. PICK j \in 1..Len(AgedBodies) : /\ AgedBodies[j].age >= 0 + 1
                                        /\ AgedBodies[j].age <= bodies[i].age + 1
    BY <1>1, <2>3, SampleSurvives
  <2>5. AgedBodies[j].age \in Nat
    <3>1. AgedBodies[j] \in BodySamples
      BY <1>2, <1>3, <2>4
    <3> QED BY ONLY <3>1, SampleAge
  <2>6. Len(bodies') = Len(AgedBodies) /\ bodies'[j] = AgedBodies[j]
    BY <1>2
  <2>7. bodies[i].age \in Int
    BY ONLY <2>3, PolicyConstants
  <2>8. bodies'[j].age <= input_age'["body_state"]
    <3> HIDE DEF b
    <3> QED BY ONLY <2>1, <2>2, <2>4, <2>5, <2>6, <2>7
  <2> QED BY <2>4, <2>6, <2>8
<1> QED BY <1>2, <1>3, <1>4, <1>5, <1>6, <1>7

LEMMA FramesAge ==
  ASSUME NEW ages \in Seq(Nat)
  PROVE  /\ [i \in DOMAIN ages |-> ages[i] + 1] \in Seq(Nat)
         /\ Len([i \in DOMAIN ages |-> ages[i] + 1]) = Len(ages)
OBVIOUS

(* No inference: the streak is over, and so is the history.                *)
LEMMA NotReadyForgets ==
  ASSUME PolicyInv, NotReady, ~(runner /\ ~Missing), UNCHANGED policy_kind
  PROVE  /\ HistoryIsUnbroken' /\ frames' \in Seq(Nat) /\ Len(frames') <= HistoryLength
         /\ acted' = FALSE /\ streak' = 0 /\ used_age' = Never
         /\ last_ready' \in BOOLEAN
<1>1. /\ frames \in Seq(Nat) /\ Len(frames) <= HistoryLength /\ streak \in Nat
      /\ last_ready \in BOOLEAN
  BY DEF PolicyInv, PolicyTypeOK
<1>2. acted' = FALSE /\ streak' = 0 /\ used_age' = Never /\ last_ready' \in BOOLEAN
  BY DEF NotReady, Missing
<1>3. frames' \in {<<>>, [i \in DOMAIN frames |-> frames[i] + 1]}
  BY DEF NotReady
<1>4. [i \in DOMAIN frames |-> frames[i] + 1] \in Seq(Nat)
      /\ Len([i \in DOMAIN frames |-> frames[i] + 1]) = Len(frames)
  BY <1>1, FramesAge, Zenon
<1>5. <<>> \in Seq(Nat) /\ Len(<<>>) = 0
  OBVIOUS
<1>6. frames' \in Seq(Nat) /\ Len(frames') <= HistoryLength
  <2> DEFINE aged == [i \in DOMAIN frames |-> frames[i] + 1]
  <2>1. 0 <= HistoryLength
    BY PolicyConstants
  <2>2. aged \in Seq(Nat) /\ Len(aged) <= HistoryLength
    BY <1>1, <1>4
  <2>3. <<>> \in Seq(Nat) /\ Len(<<>>) <= HistoryLength
    BY <1>5, <2>1
  <2> HIDE DEF aged
  <2> QED BY <1>3, <2>2, <2>3, Zenon DEF aged
<1>7. HistoryIsUnbroken'
  <2> SUFFICES ASSUME Keeps(policy_kind) PROVE frames' = <<>>
    <3>1. (IF 0 < HistoryLength THEN 0 ELSE HistoryLength) = 0
      BY PolicyConstants
    <3>2. <<>> = [i \in 1..0 |-> i - 1]
      BY NothingYet DEF Unbroken
    <3> QED BY <1>2, <3>1, <3>2, Zenon DEF HistoryIsUnbroken, Keeps
  <2>1. CASE runner /\ Missing /\ last_ready
    BY <2>1 DEF NotReady
  <2>2. CASE ~(runner /\ Missing /\ last_ready)
    <3>1. streak = 0
      <4>1. ~(runner /\ last_ready)
        BY <2>2
      <4> QED BY <1>1, <4>1 DEF PolicyInv, StreakIsReady
    <3>2. frames = Unbroken(0)
      <4>1. (IF streak < HistoryLength THEN streak ELSE HistoryLength) = 0
        BY <3>1, PolicyConstants
      <4> QED BY <4>1, Zenon DEF PolicyInv, HistoryIsUnbroken, Unbroken
    <3>3. Len(frames) = 0
      BY <3>2, UnbrokenFacts
    <3> QED BY <1>3, <1>4, <1>6, <3>3
  <2> QED BY <2>1, <2>2
<1> QED BY <1>2, <1>6, <1>7

(* An inference, or an exception in it.                                    *)
LEMMA InferenceKeepsHistory ==
  ASSUME PolicyInv, runner, UNCHANGED <<policy_kind, runner>>,
         BuildRaises \/ ExecuteRaises \/ DecodeRaises \/ WritePolicyIoRaises \/ Infers
  PROVE  /\ HistoryIsUnbroken' /\ frames' \in Seq(Nat) /\ Len(frames') <= HistoryLength
         /\ acted' \in BOOLEAN /\ last_ready' \in BOOLEAN
         /\ streak' \in 0..MaxStreak /\ StreakIsReady'
         /\ streak' <= streak + 1
<1> DEFINE least(s) == IF s < HistoryLength THEN s ELSE HistoryLength
<1>1. /\ frames \in Seq(Nat) /\ Len(frames) <= HistoryLength /\ streak \in 0..MaxStreak
      /\ acted \in BOOLEAN
  BY DEF PolicyInv, PolicyTypeOK
<1>2. ASSUME NEW said \in BOOLEAN, Raises(said)
      PROVE  /\ HistoryIsUnbroken' /\ frames' \in Seq(Nat) /\ Len(frames') <= HistoryLength
             /\ acted' \in BOOLEAN /\ last_ready' \in BOOLEAN
             /\ streak' = 0
  <2>1. /\ acted' = said /\ last_ready' = FALSE /\ streak' = 0 /\ frames' = <<>>
    BY <1>2 DEF Raises
  <2>2. <<>> \in Seq(Nat) /\ Len(<<>>) <= HistoryLength
    BY PolicyConstants
  <2>3. HistoryIsUnbroken'
    <3>1. (IF 0 < HistoryLength THEN 0 ELSE HistoryLength) = 0
      BY PolicyConstants
    <3>2. <<>> = [i \in 1..0 |-> i - 1]
      BY NothingYet DEF Unbroken
    <3> QED BY <2>1, <3>1, <3>2, Zenon DEF HistoryIsUnbroken
  <2> QED BY <2>1, <2>2, <2>3
<1>3. CASE Infers
  <2>1. /\ acted' = TRUE /\ last_ready' = TRUE /\ frames' = Committed
        /\ streak' = IF streak < MaxStreak THEN streak + 1 ELSE streak
    BY <1>3 DEF Infers
  <2>2. /\ streak' \in 0..MaxStreak /\ streak' <= streak + 1
        /\ least(streak) \in 0..HistoryLength
        /\ least(streak') = IF least(streak) < HistoryLength THEN least(streak) + 1
                            ELSE HistoryLength
    BY <1>1, <2>1, PolicyConstants
  <2>3. CASE Keeps(policy_kind)
    <3>1. frames = Unbroken(least(streak))
      BY <2>3 DEF PolicyInv, HistoryIsUnbroken, Unbroken
    <3>2. frames' = Commit(Unbroken(least(streak)))
      BY <2>1, <2>3, <3>1 DEF Committed
    <3> HIDE DEF least
    <3>3. frames' = Unbroken(least(streak'))
      BY <2>2, <3>2, CommitExtends
    <3>4. least(streak') \in Nat /\ least(streak') <= HistoryLength
      BY <2>2, PolicyConstants
    <3>5. frames' \in Seq(Nat) /\ Len(frames') <= HistoryLength
      BY <3>3, <3>4, UnbrokenFacts
    <3>6. HistoryIsUnbroken'
      BY <3>3 DEF HistoryIsUnbroken, Unbroken, least
    <3> QED BY <2>1, <2>2, <3>5, <3>6 DEF StreakIsReady
  <2>4. CASE ~Keeps(policy_kind)
    <3>1. frames' = frames
      BY <2>1, <2>4 DEF Committed
    <3>2. ~Keeps(policy_kind)'
      BY <2>4 DEF Keeps
    <3>3. HistoryIsUnbroken'
      BY <3>2 DEF HistoryIsUnbroken
    <3> QED BY <1>1, <2>1, <2>2, <3>1, <3>3 DEF StreakIsReady
  <2> QED BY <2>3, <2>4
<1>4. CASE ~Infers
  <2>1. \E said \in BOOLEAN : Raises(said)
    BY <1>4 DEF BuildRaises, ExecuteRaises, DecodeRaises, WritePolicyIoRaises
  <2>2. /\ HistoryIsUnbroken' /\ frames' \in Seq(Nat) /\ Len(frames') <= HistoryLength
        /\ acted' \in BOOLEAN /\ last_ready' \in BOOLEAN /\ streak' = 0
    BY <1>2, <2>1
  <2>3. 0 \in 0..MaxStreak /\ 0 <= streak + 1 /\ ~(0 > 0)
    BY <1>1, PolicyConstants
  <2> QED BY <2>2, <2>3, Zenon DEF StreakIsReady
<1> QED BY <1>3, <1>4

(* Samples: the one that each tick of the streak found fresh.              *)
LEMMA TickKeepsSamples ==
  ASSUME PolicyInv, PolicyTick,
         streak' = 0 \/ (runner /\ ~Missing /\ streak' \in 1..(streak + 1)),
         streak' # 0 => used_age' = bodies[FromDelayed(BodyAges)].age
  PROVE  SamplesInv'
<1>1. /\ bodies \in Seq(BodySamples) /\ input_age \in [Inputs -> 0..Stale]
      /\ streak \in Nat /\ policy_kind \in RunnerKinds \cup {"invalid"}
      /\ OldestFirst /\ FreshSample /\ SampleOfEachTick
  BY PolicyConstants DEF PolicyInv, SamplesInv, PolicyTypeOK, BodySamples
<1>2. bodies' = AgedBodies /\ bodies' \in Seq(BodySamples) /\ OldestFirst' /\ FreshSample'
  BY TickAges
<1>3. CASE streak' = 0
  <2>1. SampleOfEachTick'
    BY <1>3, PolicyConstants DEF SampleOfEachTick
  <2>2. StaleSampleOnlyAtResume'
    BY <1>3, PolicyConstants DEF StaleSampleOnlyAtResume
  <2> QED BY <1>2, <2>1, <2>2 DEF SamplesInv
<1>4. CASE runner /\ ~Missing /\ streak' \in 1..(streak + 1)
  (* The sample of d ticks ago, this tick's for d = 0.                     *)
  <2>1. ASSUME NEW d \in 0..StateDelay, d <= streak
        PROVE  \E i \in 1..Len(bodies) :
                 /\ bodies[i].age >= d /\ bodies[i].age <= MaxInputAge + d
                 /\ bodies[i].age \in 0..TooOld
    <3>1. \A i \in 1..Len(bodies) : bodies[i].age \in 0..TooOld
      BY <1>1, BodyAgesFacts
    <3>2. CASE d = 0
      <4>1. input_age["body_state"] <= MaxInputAge /\ input_age["body_state"] \in Nat
        <5>1. "body_state" \in Required(policy_kind) /\ "body_state" \in Inputs
          BY DEF Required, Inputs
        <5>2. input_age["body_state"] \in 0..Stale
          BY <1>1, <5>1
        <5>3. ~(input_age["body_state"] > MaxInputAge)
          BY <1>4, <5>1 DEF Missing
        <5> QED BY <5>2, <5>3, PolicyConstants
      <4>2. PICK i \in 1..Len(bodies) : bodies[i].age <= input_age["body_state"]
        BY <1>1, <4>1 DEF FreshSample
      <4> QED BY <3>1, <3>2, <4>1, <4>2, PolicyConstants
    <3>3. CASE d # 0
      <4>1. d \in 1..StateDelay
        BY <3>3, PolicyConstants
      <4>2. PICK i \in 1..Len(bodies) : bodies[i].age >= d /\ bodies[i].age <= MaxInputAge + d
        BY <1>1, <2>1, <4>1 DEF SampleOfEachTick
      <4> QED BY <3>1, <4>2
    <3> QED BY <3>2, <3>3
  <2>2. SampleOfEachTick'
    <3> SUFFICES ASSUME NEW d \in 1..StateDelay, d <= streak'
                 PROVE  \E j \in 1..Len(bodies') :
                          bodies'[j].age >= d /\ bodies'[j].age <= MaxInputAge + d
      BY DEF SampleOfEachTick
    <3>1. d - 1 \in 0..StateDelay /\ d - 1 <= streak /\ d \in Int
      BY <1>1, <1>4, PolicyConstants
    <3>2. PICK i \in 1..Len(bodies) :
                 /\ bodies[i].age >= d - 1 /\ bodies[i].age <= MaxInputAge + (d - 1)
                 /\ bodies[i].age \in 0..TooOld
      BY <2>1, <3>1
    <3>3. bodies[i].age <= MaxInputAge + StateDelay
      BY <3>1, <3>2, PolicyConstants
    <3>4. PICK j \in 1..Len(AgedBodies) : /\ AgedBodies[j].age >= (d - 1) + 1
                                          /\ AgedBodies[j].age <= bodies[i].age + 1
      BY <1>1, <3>1, <3>2, <3>3, SampleSurvives
    <3>5. AgedBodies[j].age \in Nat
      <4>1. AgedBodies[j] \in BodySamples
        BY <1>2, <3>4
      <4> QED BY ONLY <4>1, SampleAge
    <3>6. AgedBodies[j].age >= d /\ AgedBodies[j].age <= MaxInputAge + d
      <4>1. MaxInputAge \in Int /\ TooOld \in Int
        BY ONLY PolicyConstants
      <4>2. bodies[i].age \in Int /\ AgedBodies[j].age \in Int
        BY ONLY <3>2, <3>5, <4>1
      <4> QED BY ONLY <3>1, <3>2, <3>4, <4>1, <4>2, OneTickOlder
    <3> QED BY <1>2, <3>4, <3>6
  <2>3. StaleSampleOnlyAtResume'
    <3> SUFFICES ASSUME streak' > StateDelay
                 PROVE  used_age' <= MaxInputAge + StateDelay
      BY DEF StaleSampleOnlyAtResume
    <3> DEFINE b == FromDelayed(BodyAges)
    <3>1. StateDelay \in 0..StateDelay /\ StateDelay <= streak
      BY <1>1, <1>4, PolicyConstants
    <3>2. PICK i \in 1..Len(bodies) :
                 /\ bodies[i].age >= StateDelay /\ bodies[i].age <= MaxInputAge + StateDelay
                 /\ bodies[i].age \in 0..TooOld
      BY <2>1, <3>1
    <3>3. b \in 1..Len(bodies) /\ i <= b
      <4>1. 0..TooOld \in SUBSET Nat
        BY PolicyConstants
      <4>2. /\ BodyAges \in Seq(0..TooOld) /\ Len(BodyAges) = Len(bodies)
            /\ BodyAges[i] = bodies[i].age
        BY <1>1, <3>2, BodyAgesFacts
      <4>3. b \in 0..Len(bodies) /\ i <= b
        BY <3>2, <4>1, <4>2, NewestDelayed
      <4> QED BY <1>1, <3>2, <4>3
    <3>4. bodies[b].age <= bodies[i].age /\ bodies[b].age \in 0..TooOld
      BY <1>1, <3>2, <3>3, BodyAgesFacts DEF OldestFirst
    <3>5. used_age' = bodies[b].age
      BY <1>4
    <3> HIDE DEF b
    <3>6. MaxInputAge \in Int /\ StateDelay \in Int /\ TooOld \in Int
      BY ONLY PolicyConstants
    <3>7. bodies[b].age \in Int /\ bodies[i].age \in Int
      BY ONLY <3>2, <3>4, <3>6
    <3> QED BY ONLY <3>2, <3>4, <3>5, <3>6, <3>7
  <2> QED BY <1>2, <2>2, <2>3 DEF SamplesInv
<1> QED BY <1>3, <1>4

LEMMA TickKeepsInv ==
  ASSUME PolicyInv, PolicyTick
  PROVE  PolicyInv'
<1>1. UNCHANGED <<policy_up, policy_kind, runner, deviceVars, target_valid>>
  BY DEF PolicyTick
<1>d. loading = "idle" /\ UNCHANGED <<loading, held, tried, leaked, refused>>
  BY <1>1 DEF PolicyTick, Idle, deviceVars
<1>2. /\ bodies' \in Seq(BodySamples) /\ imus' \in Seq(0..TooOld)
      /\ input_age' \in [Inputs -> 0..Stale]
  BY TickAges
<1>3. BuffersFollowRunner' /\ RunnerHasManifest' /\ DeviceInv'
  BY <1>1, <1>d DEF PolicyInv, BuffersFollowRunner, RunnerHasManifest, DeviceInv, Closing
<1>4. streak \in 0..MaxStreak
  BY DEF PolicyInv, PolicyTypeOK
<1>5. CASE /\ runner /\ ~Missing
           /\ BuildRaises \/ ExecuteRaises \/ DecodeRaises \/ WritePolicyIoRaises \/ Infers
           /\ used_age' = bodies[FromDelayed(BodyAges)].age
  <2>1. /\ HistoryIsUnbroken' /\ frames' \in Seq(Nat) /\ Len(frames') <= HistoryLength
        /\ acted' \in BOOLEAN /\ last_ready' \in BOOLEAN
        /\ streak' \in 0..MaxStreak /\ StreakIsReady'
        /\ streak' <= streak + 1
    BY <1>1, <1>5, InferenceKeepsHistory
  <2>2. streak' = 0 \/ (runner /\ ~Missing /\ streak' \in 1..(streak + 1))
    BY <1>4, <1>5, <2>1, PolicyConstants
  <2>3. SamplesInv'
    BY <1>5, <2>2, TickKeepsSamples
  <2>4. used_age' \in 0..Never
    <3> DEFINE b == FromDelayed(BodyAges)
    <3>1. bodies \in Seq(BodySamples)
      BY DEF PolicyInv, PolicyTypeOK, BodySamples
    <3>2. b # 0
      <4>1. policy_kind # "invalid"
        BY <1>5 DEF PolicyInv, RunnerHasManifest
      <4> QED BY <1>5, <4>1 DEF Missing
    <3>3. b \in 1..Len(bodies)
      <4>1. 0..TooOld \in SUBSET Nat
        BY PolicyConstants
      <4>2. BodyAges \in Seq(0..TooOld) /\ Len(BodyAges) = Len(bodies)
        BY <3>1, BodyAgesFacts
      <4>3. b \in 0..Len(bodies)
        BY <4>1, <4>2, NewestDelayed
      <4> QED BY <3>1, <3>2, <4>3
    <3>4. bodies[b].age \in 0..TooOld
      BY <3>1, <3>3, BodyAgesFacts
    <3> QED BY <1>5, <3>4, PolicyConstants
  <2>5. PolicyTypeOK'
    BY <1>1, <1>2, <1>d, <2>1, <2>4, Zenon DEF PolicyInv, PolicyTypeOK, BodySamples
  <2> QED BY <1>3, <2>1, <2>3, <2>5 DEF PolicyInv
<1>6. CASE ~(runner /\ ~Missing) /\ NotReady
  <2>1. /\ HistoryIsUnbroken' /\ frames' \in Seq(Nat) /\ Len(frames') <= HistoryLength
        /\ acted' = FALSE /\ streak' = 0 /\ used_age' = Never
        /\ last_ready' \in BOOLEAN
    BY <1>1, <1>6, NotReadyForgets
  <2>2. SamplesInv'
    BY <2>1, TickKeepsSamples
  <2>3. StreakIsReady'
    BY <2>1 DEF StreakIsReady
  <2>4. 0 \in 0..MaxStreak /\ Never \in 0..Never
    BY PolicyConstants
  <2>5. PolicyTypeOK'
    BY <1>1, <1>2, <1>d, <2>1, <2>4, Zenon DEF PolicyInv, PolicyTypeOK, BodySamples
  <2> QED BY <1>3, <2>1, <2>2, <2>3, <2>5 DEF PolicyInv
<1> QED BY <1>5, <1>6 DEF PolicyTick

LEMMA PolicyInitially == PolicyInit => PolicyInv
<1> SUFFICES ASSUME PolicyInit PROVE PolicyInv
  OBVIOUS
<1> USE DEF PolicyInit
<1>1. /\ <<>> \in Seq(BodySamples) /\ <<>> \in Seq(0..TooOld) /\ <<>> \in Seq(Nat)
      /\ Len(<<>>) = 0
  OBVIOUS
<1>2. /\ Never \in 0..Never /\ 0 \in 0..MaxStreak /\ Stale \in 0..Stale
      /\ 0 <= HistoryLength
  BY PolicyConstants
<1>3. PolicyTypeOK
  <2>1. input_age \in [Inputs -> 0..Stale]
    BY <1>2
  <2>2. 0 \in 0..Len(ReleaseOrder)
    BY ReleaseOrderFacts
  <2> QED BY <1>1, <1>2, <2>1, <2>2, Zenon DEF PolicyTypeOK, BodySamples
<1>4. /\ BuffersFollowRunner /\ RunnerHasManifest /\ DeviceInv
      /\ HistoryIsUnbroken /\ StreakIsReady
  BY DEF BuffersFollowRunner, RunnerHasManifest, DeviceInv, HistoryIsUnbroken, StreakIsReady,
         Keeps
<1>5. SamplesInv
  <2>1. OldestFirst
    BY <1>1 DEF OldestFirst
  <2>2. FreshSample
    BY PolicyConstants DEF FreshSample, Inputs
  <2>3. SampleOfEachTick /\ StaleSampleOnlyAtResume
    BY PolicyConstants DEF SampleOfEachTick, StaleSampleOnlyAtResume
  <2> QED BY <2>1, <2>2, <2>3 DEF SamplesInv
<1> QED BY <1>3, <1>4, <1>5 DEF PolicyInv

(* The invariant of body_policy.                                           *)
LEMMA PolicyInvariant == PolicySpec => []PolicyInv
<1>1. PolicyInit => PolicyInv
  BY PolicyInitially
<1>2. PolicyInv /\ [PolicyNext]_policyVars => PolicyInv'
  <2> SUFFICES ASSUME PolicyInv, [PolicyNext]_policyVars PROVE PolicyInv'
    OBVIOUS
  <2>1. CASE UNCHANGED policyVars
    <3>1. /\ PolicyTypeOK' /\ BuffersFollowRunner' /\ RunnerHasManifest' /\ DeviceInv'
          /\ HistoryIsUnbroken' /\ StreakIsReady'
      BY <2>1 DEF policyVars, deviceVars, observedVars, PolicyInv, PolicyTypeOK,
                  BuffersFollowRunner, RunnerHasManifest, DeviceInv, Closing,
                  HistoryIsUnbroken, StreakIsReady
    <3>2. SamplesInv'
      BY <2>1 DEF policyVars, observedVars, PolicyInv, SamplesInv, OldestFirst, FreshSample,
                  SampleOfEachTick, StaleSampleOnlyAtResume
    <3> QED BY <3>1, <3>2 DEF PolicyInv
  <2>2. CASE PolicyNext
    BY <2>2, LoadingKeepsInv, BodyStateKeepsInv, OtherInputs, TickKeepsInv DEF PolicyNext
  <2> QED BY <2>1, <2>2
<1> QED BY <1>1, <1>2, PTL DEF PolicySpec

(* T60ObservationState and tick's two resets, for every history length,    *)
(* delay and age limit: what the network sees as its recent past is the    *)
(* frames of the last inferences in a row, with no gap.                    *)
THEOREM HistoryStaysUnbroken == PolicySpec => []HistoryIsUnbroken
<1>1. PolicyInv => HistoryIsUnbroken
  BY DEF PolicyInv
<1> QED BY <1>1, PolicyInvariant, PTL

(* delayed_sample, for every delay and age limit: a sample older than both *)
(* together is used only while the policy resumes.                         *)
THEOREM StaleSamplesPass == PolicySpec => []StaleSampleOnlyAtResume
<1>1. PolicyInv => StaleSampleOnlyAtResume
  BY DEF PolicyInv, SamplesInv
<1> QED BY <1>1, PolicyInvariant, PTL

(* TensorRtRunner and load_policy: after any sequence of loads, allocations *)
(* that fail and releases that CUDA refuses, nothing is left allocated but  *)
(* what was refused itself, and a loaded runner has all its buffers.        *)
THEOREM BuffersStayWithRunner == PolicySpec => []BuffersFollowRunner
<1>1. PolicyInv => BuffersFollowRunner
  BY DEF PolicyInv
<1> QED BY <1>1, PolicyInvariant, PTL

-----------------------------------------------------------------------------
(* The nodes together                                                      *)

(* MCRuntime takes no liberties with the nodes: whichever it launches, its  *)
(* executions obey the specification of each, but for fairness.  The proof *)
(* does not use that the others are parked, only that the nodes share no   *)
(* variable and that each step is one node's.                              *)
THEOREM RuntimeRunsTheNodes ==
  RuntimeSpec => /\ SafetySteps /\ HostSpec /\ LoggerSteps
                 /\ PolicySpec /\ PidSpec /\ TrajectorySpec
<1>1. RuntimeInit => /\ SafetyInit /\ HostInit /\ LoggerInit
                     /\ PolicyInit /\ PidInit /\ TrajectoryInit
  BY DEF RuntimeInit
<1>2. [RuntimeNext]_runtimeVars =>
        /\ [SafetyNext]_safetyVars /\ [HostNext]_hostVars /\ [LoggerNext]_loggerVars
        /\ [PolicyNext]_policyVars /\ [PidNext]_pidVars /\ [TrajectoryNext]_trajectoryVars
  <2> SUFFICES ASSUME [RuntimeNext]_runtimeVars
               PROVE  /\ [SafetyNext]_safetyVars /\ [HostNext]_hostVars
                      /\ [LoggerNext]_loggerVars /\ [PolicyNext]_policyVars
                      /\ [PidNext]_pidVars /\ [TrajectoryNext]_trajectoryVars
    OBVIOUS
  <2>1. CASE SafetyRuns /\ SafetyNext
    BY <2>1 DEF SafetyRuns, Runs1
  <2>2. CASE HostRuns /\ HostNext
    BY <2>2 DEF HostRuns, Runs1
  <2>3. CASE LoggerRuns /\ LoggerNext
    BY <2>3 DEF LoggerRuns, Runs1
  <2>4. CASE PolicyRuns /\ PolicyNext
    BY <2>4 DEF PolicyRuns, Runs1
  <2>5. CASE PidRuns /\ PidNext
    BY <2>5 DEF PidRuns, Runs1
  <2>6. CASE TrajectoryRuns /\ TrajectoryNext
    BY <2>6 DEF TrajectoryRuns, Runs1
  <2>7. CASE UNCHANGED runtimeVars
    BY <2>7 DEF runtimeVars
  <2> QED BY <2>1, <2>2, <2>3, <2>4, <2>5, <2>6, <2>7 DEF RuntimeNext
<1> QED
  BY <1>1, <1>2, PTL
  DEF RuntimeSpec, SafetySteps, HostSpec, LoggerSteps, PolicySpec, PidSpec, TrajectorySpec

(* The variables of every node keep their types, for every value of the    *)
(* constants and any number of the host's request threads.                 *)
THEOREM RuntimeTypesHold == RuntimeSpec => []RuntimeTypeOK
<1>1. SafetySteps => []SafetyTypeOK
  <2>1. SafetyInv => SafetyTypeOK
    BY DEF SafetyInv
  <2> QED BY <2>1, SafetyInvariant, PTL
<1>2. LoggerSteps => []LoggerTypeOK
  <2>1. LoggerInv => LoggerTypeOK
    BY DEF LoggerInv
  <2> QED BY <2>1, LoggerInvariant, PTL
<1>3. PolicySpec => []PolicyTypeOK
  <2>1. PolicyInv => PolicyTypeOK
    BY DEF PolicyInv
  <2> QED BY <2>1, PolicyInvariant, PTL
<1>4. PidSpec => []PidTypeOK
  <2>1. PidInv => PidTypeOK
    BY DEF PidInv
  <2> QED BY <2>1, PidInvariant, PTL
<1>5. TrajectorySpec => []TrajectoryTypeOK
  <2>1. TrajectoryInv => TrajectoryTypeOK
    BY DEF TrajectoryInv
  <2> QED BY <2>1, TrajectoryInvariant, PTL
<1>6. SafetyTypeOK /\ HostTypeOK /\ LoggerTypeOK /\ PolicyTypeOK /\ PidTypeOK
        /\ TrajectoryTypeOK => RuntimeTypeOK
  BY DEF RuntimeTypeOK
<1> QED
  BY <1>1, <1>2, <1>3, <1>4, <1>5, <1>6, HostTypesHold, RuntimeRunsTheNodes, PTL

(* The safety properties of the run `runtime' that say no more than one    *)
(* node's code does, for every value of the constants.                     *)
THEOREM NodesKeepTheirPromises ==
  RuntimeSpec =>
    [](/\ ClearIsEarned
       /\ LogsAreBracketed /\ NoRecorderLeftBehind /\ LogShowsCurrentAbort
       /\ HistoryIsUnbroken /\ StaleSampleOnlyAtResume /\ BuffersFollowRunner
       /\ NoWindUp /\ RegimeOwnsIntegrals /\ SlewedWithinLimit
       /\ UntouchedHoldStaysPut /\ HoldRestsWhereLeft)
    /\ ApprovedRunStaysValid
<1>1. SafetyInv => ClearIsEarned
  BY DEF SafetyInv
<1>2. LoggerInv => LogsAreBracketed /\ NoRecorderLeftBehind /\ LogShowsCurrentAbort
  BY MarkedIsBracketed
  DEF LoggerInv, OneActiveRun, NoRecorderLeftBehind, SuppressesTheLast
<1>3. PolicyInv => HistoryIsUnbroken /\ StaleSampleOnlyAtResume /\ BuffersFollowRunner
  BY DEF PolicyInv, SamplesInv
<1> QED
  BY <1>1, <1>2, <1>3, RuntimeRunsTheNodes, SafetyInvariant, LoggerInvariant,
     PolicyInvariant, IntegralsNeverWindUp, IntegralsBelongToRegime,
     SlewsStayInsideLimit, HoldStaysPut, HoldRests,
     ApprovedRunNeverInvalidates, PTL

(* The host's part of the run: its files implement the map, as long as     *)
(* there is no second request thread.                                      *)
THEOREM HostKeepsItsMap ==
  ASSUME OneHandler
  PROVE  RuntimeSpec => [](MapAlwaysWhole /\ AnswerTellsTheMap) /\ FilesImplementMap
BY RuntimeRunsTheNodes, MapStaysWhole, AnswersAreTrue, FilesRefineMap, PTL
=============================================================================
