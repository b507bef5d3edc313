---------------------------- MODULE SafetyMonitor ----------------------------
(***************************************************************************)
(* safety_monitor: owns the operator's abort latch, watches the board's    *)
(* status and publishes an event ten times a second that every consumer    *)
(* reads as "abort" or "clear".                                            *)
(*                                                                         *)
(* Time is counted in timer periods.  A callback of the subscription or of *)
(* the service may come before or after the timer's in the same period,    *)
(* but the executor runs the timer before the next one is due.             *)
(***************************************************************************)
EXTENDS Naturals

CONSTANT StatusTimeout      \* board_status_timeout_s, in timer periods

ASSUME SafetyAssumption == StatusTimeout \in Nat

VARIABLES board,            \* board_connected, board_heartbeat_ok, board_failsafe_active
          board_age,        \* now - board_status_ns; NeverSeen when it is None
          operator_abort,   \* operator_abort_active
          event,            \* the last SafetyEvent published
          timer_due,        \* the timer's callback is outstanding
          healthy_age,      \* history: periods since the board last reported
                            \* that all is well
          operator_request  \* history: what the operator asked for last

safetyVars == <<board, board_age, operator_abort, event, timer_due, healthy_age,
                operator_request>>

BoardReports == [connected : BOOLEAN, heartbeat_ok : BOOLEAN, failsafe : BOOLEAN]
Healthy(report) == report.connected /\ report.heartbeat_ok /\ ~report.failsafe

(* Ages are counted up to the first one that is too old; one more stands    *)
(* for a status never received.                                             *)
MaxAge    == StatusTimeout + 2
NeverSeen == MaxAge + 1
Ages      == 0 .. NeverSeen
Aged(age) == IF age >= MaxAge THEN age ELSE age + 1

-----------------------------------------------------------------------------

(* variant: the content of an old status still counts.                      *)
BoardFailureIgnoringAge ==
  IF board_age = NeverSeen THEN "BOARD_STATUS_MISSING"
  ELSE IF ~board.connected THEN "BOARD_DISCONNECTED"
  ELSE IF ~board.heartbeat_ok THEN "BOARD_HEARTBEAT_LOST"
  ELSE IF board.failsafe THEN "BOARD_FAILSAFE_ACTIVE"
  ELSE "none"

BoardFailure ==
  IF board_age = NeverSeen THEN "BOARD_STATUS_MISSING"
  ELSE IF board_age > StatusTimeout THEN "BOARD_STATUS_STALE"
  ELSE IF ~board.connected THEN "BOARD_DISCONNECTED"
  ELSE IF ~board.heartbeat_ok THEN "BOARD_HEARTBEAT_LOST"
  ELSE IF board.failsafe THEN "BOARD_FAILSAFE_ACTIVE"
  ELSE "none"

(* variant: an abort that was published once stays.                         *)
AbortCodeSticky(latch) ==
  IF event.abort /\ event.code # "none" THEN event.code
  ELSE IF BoardFailure # "none" THEN BoardFailure
  ELSE IF latch THEN "ABORT_ACTIVE"
  ELSE "ABORT_CLEAR"

(* update_abort_state: a board failure hides the operator's latch from the  *)
(* code that is published, not from abort_active.                           *)
AbortCode(latch) ==
  IF BoardFailure # "none" THEN BoardFailure
  ELSE IF latch THEN "ABORT_ACTIVE"
  ELSE "ABORT_CLEAR"

PublishEvent(code) ==
  event' = [code  |-> code,
            abort |-> code \notin {"ABORT_CLEAR", "ABORT_CLEARED"}]

-----------------------------------------------------------------------------

SafetyInit ==
  /\ board = [connected |-> FALSE, heartbeat_ok |-> FALSE, failsafe |-> FALSE]
  /\ board_age = NeverSeen
  /\ operator_abort = FALSE
  /\ event = [code |-> "none", abort |-> TRUE]
  /\ timer_due = FALSE
  /\ healthy_age = NeverSeen
  /\ operator_request = FALSE

OnBoardStatus(report) ==
  /\ board' = report
  /\ board_age' = 0
  /\ healthy_age' = IF Healthy(report) THEN 0 ELSE healthy_age
  /\ UNCHANGED <<operator_abort, event, timer_due, operator_request>>

HandleAbort(abort) ==
  /\ operator_request' = abort
  /\ operator_abort' = abort
  /\ LET code == AbortCode(abort) IN
       PublishEvent(IF code = "ABORT_CLEAR" THEN "ABORT_CLEARED" ELSE code)
  /\ UNCHANGED <<board, board_age, timer_due, healthy_age>>

SafetyTick ==
  /\ timer_due
  /\ timer_due' = FALSE
  /\ PublishEvent(AbortCode(operator_abort))
  /\ UNCHANGED <<board, board_age, operator_abort, healthy_age, operator_request>>

(* A timer period passes.                                                   *)
SafetyPeriod ==
  /\ ~timer_due
  /\ timer_due' = TRUE
  /\ board_age' = Aged(board_age)
  /\ healthy_age' = Aged(healthy_age)
  /\ UNCHANGED <<board, operator_abort, event, operator_request>>

SafetyNext ==
  \/ \E report \in BoardReports : OnBoardStatus(report)
  \/ \E abort \in BOOLEAN : HandleAbort(abort)
  \/ SafetyTick
  \/ SafetyPeriod

(* rclpy.spin runs the timer's callback and time goes on; the board and the *)
(* operator owe nothing.                                                    *)
SafetyFairness == WF_safetyVars(SafetyTick) /\ WF_safetyVars(SafetyPeriod)

SafetySpec == SafetyInit /\ [][SafetyNext]_safetyVars /\ SafetyFairness

-----------------------------------------------------------------------------

SafetyTypeOK ==
  /\ board \in BoardReports
  /\ {board_age, healthy_age} \subseteq Ages
  /\ {operator_abort, timer_due, operator_request} \subseteq BOOLEAN
  /\ event.code \in {"none", "BOARD_STATUS_MISSING", "BOARD_STATUS_STALE",
                     "BOARD_DISCONNECTED", "BOARD_HEARTBEAT_LOST",
                     "BOARD_FAILSAFE_ACTIVE", "ABORT_ACTIVE", "ABORT_CLEAR",
                     "ABORT_CLEARED"}
  /\ event.abort \in BOOLEAN

(* A consumer that sees "clear" may rely on it for one more period only:    *)
(* the board reported that all is well within the timeout, whatever other   *)
(* reports, aborts and clears came in between, and the operator's abort is  *)
(* not hidden by a board fault that came and went (board_failure,           *)
(* update_abort_state).                                                     *)
ClearIsEarned ==
  ~event.abort =>
    /\ healthy_age <= StatusTimeout + (IF timer_due THEN 1 ELSE 0)
    /\ ~operator_request

(* The published state follows the board: a board that stays silent or      *)
(* unwell is in the end reported as an abort for good, and one that stays   *)
(* well with no operator abort in the end is not (tick).                    *)
EventsFollowTheBoard ==
  /\ <>[](BoardFailure # "none") => <>[]event.abort
  /\ <>[](BoardFailure = "none" /\ ~operator_abort) => <>[](~event.abort)
=============================================================================
