----------------------------- MODULE AboardBridge -----------------------------
(***************************************************************************)
(* aboard_bridge_node: the only writer of the propulsion UART.  It turns   *)
(* /control/thruster_cmd into sequenced, session-bound command frames for  *)
(* the Aquaboard MCU and decides, frame by frame, whether the thrusters    *)
(* may be enabled.                                                         *)
(*                                                                         *)
(* Two threads share the state: the single-threaded ROS executor (OnCommand*)
(* WriteCommand, RefreshAuthorityEndpoint, CalibrateImuGyro) and the UART  *)
(* I/O thread (everything else).  An action is one critical section of     *)
(* state_mutex_, with the lock-free code around it.  Where one I/O handler *)
(* rotates the session in one critical section and dispatches a neutral    *)
(* frame in the next, neutral_due holds the I/O thread between the two     *)
(* while ROS callbacks go on.                                              *)
(*                                                                         *)
(* The board, the command topic, the ROS graph and time are arbitrary: a   *)
(* status may claim anything, a command may carry any generation, a        *)
(* publisher may come and go, a stored value may expire at any moment.     *)
(* BoardLink adds a board that follows the protocol.                       *)
(*                                                                         *)
(* Data.  Sequence numbers are SequenceModulus-ary (uint32 in the code) so *)
(* that they wrap.  A session ID is a name: make_session_id mixes a random *)
(* device, the clock, the PID and a counter, and the model assumes only    *)
(* that it never repeats an ID that something still refers to.  PWM        *)
(* offsets are left out: the echo of a frame is its enable flag.           *)
(***************************************************************************)
EXTENDS Integers, Sequences

CONSTANTS Boots,            \* board boot IDs (0 is no challenge)
          Sessions,         \* control session IDs
          NoSession,        \* stands for no session
          SequenceModulus,  \* number of sequence numbers
          MaxAckLag,        \* kMaximumAckSequenceLag
          HistoryDepth,     \* kDispatchHistoryDepth
          MaxSequence,      \* bound on the sequence numbers of a session;
                            \* SequenceModulus - 1 lets them wrap
          MaxGeneration,    \* bound on arm_generation
          Events            \* the events of the environment that occur

(* What the bridge must survive besides commands and good statuses: other   *)
(* publishers that come and go, malformed commands, stored values that      *)
(* expire, serial faults, statuses that are invalid, a gyro calibration     *)
(* and the end of the process.                                              *)
EnvironmentEvents ==
  {"intruder", "malformed", "command_timeout", "status_timeout", "io_fault",
   "bad_status", "calibration", "shutdown"}

ASSUME BridgeAssumption ==
  /\ Boots \subseteq Nat \ {0}
  /\ NoSession \notin Sessions
  /\ SequenceModulus \in Nat /\ SequenceModulus >= 8
  /\ MaxAckLag \in Nat
  /\ HistoryDepth \in Nat \ {0}
  /\ MaxSequence \in 1..(SequenceModulus - 1)
  /\ MaxGeneration \in Nat
  /\ Events \subseteq EnvironmentEvents

SequenceNumbers == 0..(SequenceModulus - 1)
NoSequence  == SequenceModulus
NoBoot      == 0
Generations == 0..MaxGeneration
NoDisarm    == MaxGeneration + 1

(* A WriteRequest, and the frame it becomes on the wire.                    *)
Request ==
  [session : Sessions, boot : Boots \cup {NoBoot}, sequence : SequenceNumbers,
   enable : BOOLEAN, calibrate : BOOLEAN, shutdown : BOOLEAN]
NoRequest ==
  [session |-> NoSession, boot |-> NoBoot, sequence |-> 0,
   enable |-> FALSE, calibrate |-> FALSE, shutdown |-> FALSE]

VARIABLES
  session,      \* session_id_ and everything rotate_session_locked resets
  link_open,    \* link_open_ and connected_
  link_boot,    \* link_boot_id_, NoBoot while !have_link_boot_challenge_
  board,        \* latest_status_: session, outputs, calibrating
  status_age,   \* age of last_status_ns_: "none", "fresh" or "expired"
  status_semantic_fault, heartbeat_timeout_latched,
  command,      \* command_valid_, _enabled_, _armed_, _arm_generation_
  command_age,  \* age of last_command_ns_
  command_timeout_latched,
  barrier,      \* arm_authorized_, authorized_generation_,
                \* saw_disarmed_after_session_, disarmed_generation_
  authority_publisher_identified, command_publisher_gate,
  authority_refresh_requested,
  calibration,  \* "idle", "requested" or "active" (seen active)
  mailbox,      \* latest_outbound_
  pending, active,          \* pending_write_, active_write_
  neutral_due,  \* the I/O thread is about to dispatch a neutral frame
  shutdown,     \* "no", "posted", "waiting" or "finished"
  shutdown_neutral,         \* session and sequence of the shutdown frame
  last_disarm   \* history: generation of the last disarmed command accepted
                \* since authority was last lost, NoDisarm if none

sessionVars == <<session, barrier, last_disarm>>
statusVars  == <<link_boot, board, status_age, status_semantic_fault,
                 heartbeat_timeout_latched>>
commandVars == <<command, command_age, command_timeout_latched>>
graphVars   == <<authority_publisher_identified, command_publisher_gate,
                 authority_refresh_requested>>
writeVars   == <<mailbox, pending, active, neutral_due>>
endVars     == <<shutdown, shutdown_neutral>>
vars == <<session, link_open, link_boot, board, status_age,
          status_semantic_fault, heartbeat_timeout_latched, command,
          command_age, command_timeout_latched, barrier,
          authority_publisher_identified, command_publisher_gate,
          authority_refresh_requested, calibration, mailbox, pending, active,
          neutral_due, shutdown, shutdown_neutral, last_disarm>>

-----------------------------------------------------------------------------
(* Sequence numbers and generations.                                        *)

Distance(a, b) == (a - b) % SequenceModulus

(* sequence_newer: unsigned difference, non-zero and below half the range.  *)
Newer(a, b) == Distance(a, b) # 0 /\ 2 * Distance(a, b) < SequenceModulus

GenerationNewer(g, h) == g > h

NextSequence(s) == (s.command_sequence + 1) % SequenceModulus

(* Bounds: a session ends before its sequence numbers exceed MaxSequence,   *)
(* and the request timer does not outrun the wire by half the range.        *)
SequenceRoom(s) ==
  /\ NextSequence(s) <= MaxSequence
  /\ \A q \in {s.dispatched} \cup
              {r.sequence : r \in {p \in {pending} : p.session = s.id}} :
       q # NoSequence =>
         2 * Distance(s.command_sequence + 2, q) < SequenceModulus

-----------------------------------------------------------------------------
(* Sessions.                                                                *)

SessionsInUse ==
  {session.id, board.session, mailbox.session, pending.session,
   active.session, shutdown_neutral.session}

(* The IDs a rotation may take.  Bound: no rotation happens while every ID  *)
(* is referred to.                                                          *)
FreshSessions == Sessions \ SessionsInUse

(* rotate_session_locked, the transport half.                               *)
NewSession(id, ack_fault) ==
  [id |-> id, command_sequence |-> 0, dispatched |-> NoSequence,
   handshake |-> NoSequence, ack_received |-> NoSequence,
   ack_applied |-> NoSequence, acknowledged |-> FALSE,
   ack_fault |-> ack_fault, history |-> << >>]

(* reset_arm_barrier_locked: authority is lost, with all evidence for it.   *)
BarrierReset(b) ==
  [b EXCEPT !.arm_authorized = FALSE, !.saw_disarmed = FALSE,
            !.disarmed_generation = 0]

LoseAuthority ==
  /\ barrier' = BarrierReset(barrier)
  /\ last_disarm' = NoDisarm

(* variant: a rotation keeps the authority of the previous session.         *)
RotateSessionKeepingAuthority(ack_fault) ==
  /\ \E id \in FreshSessions : session' = NewSession(id, ack_fault)
  /\ last_disarm' = NoDisarm
  /\ UNCHANGED barrier

(* variant: the new session inherits the acknowledgement of the old one.    *)
RotateSessionKeepingAck(ack_fault) ==
  /\ \E id \in FreshSessions :
       session' = [NewSession(id, ack_fault) EXCEPT
                     !.acknowledged = session.acknowledged]
  /\ LoseAuthority

(* variant: the counters restart but the session keeps its ID.              *)
RotateSessionInPlace(ack_fault) ==
  /\ session' = NewSession(session.id, ack_fault)
  /\ LoseAuthority

RotateSession(ack_fault) ==
  /\ \E id \in FreshSessions : session' = NewSession(id, ack_fault)
  /\ LoseAuthority

(* A neutral request with the next sequence number, and the session after  *)
(* ++command_sequence_.                                                     *)
NextRequest(ses, last) ==
  [session |-> ses.id, boot |-> link_boot, sequence |-> NextSequence(ses),
   enable |-> FALSE, calibrate |-> FALSE, shutdown |-> last]

Counted(ses) == [ses EXCEPT !.command_sequence = NextSequence(ses)]

-----------------------------------------------------------------------------
(* Permission to enable, with the values the calling handler has reached.   *)
HostEnableAllowed(ses, cmd, gate, bar, calib) ==
  /\ link_open
  /\ status_age = "fresh"
  /\ ~status_semantic_fault
  /\ board.session = ses.id
  /\ ses.acknowledged
  /\ ~ses.ack_fault
  /\ calib = "idle" /\ ~board.calibrating
  /\ gate
  /\ cmd.valid /\ command_age = "fresh" /\ cmd.enabled /\ cmd.armed
  /\ bar.arm_authorized
  /\ cmd.generation = bar.authorized_generation

-----------------------------------------------------------------------------
(* ROS callbacks.  They end when the node is being destroyed.               *)

Spinning == shutdown = "no"

(* latch_command_timeout_locked acts.                                       *)
CommandTimesOut == command_age = "expired" /\ ~command_timeout_latched

(* update_publisher_gate_locked after an optional timeout; single says      *)
(* whether the topic has exactly one publisher.                             *)
GateOpens(single) == single /\ authority_publisher_identified

GateRevokes(single) ==
  /\ ~GateOpens(single)
  /\ command_publisher_gate \/ (command.valid /\ ~CommandTimesOut)

UpdatePublisherGate(single) ==
  /\ authority_publisher_identified' = GateOpens(single)
  /\ command_publisher_gate' = GateOpens(single)
  /\ authority_refresh_requested' =
       (authority_refresh_requested \/ ~GateOpens(single))

(* What is left of the stored command and of the barrier after both.        *)
CommandAfterChecks(single) ==
  IF CommandTimesOut \/ ~GateOpens(single)
    THEN [command EXCEPT !.valid = FALSE, !.enabled = FALSE]
    ELSE command

AuthorityRevoked(single) == CommandTimesOut \/ GateRevokes(single)

(* variant: an armed command is believed without a disarmed one before it.  *)
BarrierAfterTrusting(bar, m) ==
  IF ~m.armed
    THEN [bar EXCEPT !.arm_authorized = FALSE, !.saw_disarmed = TRUE,
                     !.disarmed_generation = m.generation]
    ELSE [bar EXCEPT !.arm_authorized = TRUE, !.saw_disarmed = FALSE,
                     !.authorized_generation = m.generation]

(* The arm barrier: a disarmed command opens it, the first armed command    *)
(* with a newer generation passes and closes it, any other armed command    *)
(* revokes it.                                                              *)
BarrierAfter(bar, m) ==
  IF ~m.armed
    THEN [bar EXCEPT !.arm_authorized = FALSE, !.saw_disarmed = TRUE,
                     !.disarmed_generation = m.generation]
  ELSE IF bar.arm_authorized /\ m.generation = bar.authorized_generation
    THEN bar
  ELSE IF bar.saw_disarmed /\ GenerationNewer(m.generation, bar.disarmed_generation)
    THEN [bar EXCEPT !.arm_authorized = TRUE, !.saw_disarmed = FALSE,
                     !.authorized_generation = m.generation]
    ELSE [bar EXCEPT !.arm_authorized = FALSE, !.saw_disarmed = FALSE]

(* on_command: a message from a valid endpoint, well formed or not.         *)
OnCommand(m, single) ==
  LET valid == m.well_formed /\ GateOpens(single)
      bar   == IF AuthorityRevoked(single) THEN BarrierReset(barrier) ELSE barrier
      seen  == IF AuthorityRevoked(single) THEN NoDisarm ELSE last_disarm
  IN /\ Spinning
     /\ UpdatePublisherGate(single)
     /\ IF valid
          THEN /\ command' = [valid |-> TRUE, enabled |-> m.enable,
                              armed |-> m.armed, generation |-> m.generation]
               /\ command_age' = "fresh"
               /\ command_timeout_latched' = FALSE
               /\ barrier' = BarrierAfter(bar, m)
               /\ last_disarm' = IF m.armed THEN seen ELSE m.generation
          ELSE /\ command' = [command EXCEPT !.valid = FALSE, !.enabled = FALSE]
               /\ command_timeout_latched' =
                    (command_timeout_latched \/ CommandTimesOut)
               /\ LoseAuthority
               /\ UNCHANGED command_age
     /\ UNCHANGED <<session, link_open, statusVars, calibration, writeVars,
                    endVars>>

(* refresh_authority_endpoint, run by the status timer when requested.      *)
RefreshAuthorityEndpoint(valid, single) ==
  LET changed == valid # authority_publisher_identified
  IN /\ Spinning
     /\ authority_refresh_requested
     /\ valid => single
     /\ authority_publisher_identified' = valid
     /\ command_publisher_gate' = valid
     /\ authority_refresh_requested' = ~valid
     /\ IF changed \/ ~valid
          THEN command' = [command EXCEPT !.valid = FALSE, !.enabled = FALSE]
          ELSE UNCHANGED command
     /\ IF changed \/ (~valid /\ (command_publisher_gate \/ command.valid))
          THEN LoseAuthority
          ELSE UNCHANGED <<barrier, last_disarm>>
     /\ UNCHANGED <<session, link_open, statusVars, command_age,
                    command_timeout_latched, calibration, writeVars, endVars>>

(* calibrate_imu_gyro, accepted: the board must be idle and the operator    *)
(* disarmed.  A refused request changes nothing.                            *)
CalibrateImuGyro ==
  /\ "calibration" \in Events
  /\ Spinning
  /\ link_open /\ status_age = "fresh" /\ ~status_semantic_fault
  /\ session.acknowledged
  /\ command.valid /\ ~command.armed /\ ~command.enabled
  /\ ~board.outputs
  /\ calibration = "idle" /\ ~board.calibrating
  /\ calibration' = "requested"
  /\ LoseAuthority
  /\ UNCHANGED <<session, link_open, statusVars, commandVars, graphVars,
                 writeVars, endVars>>

(* write_command, the 20 ms timer: expire what is stale, then put the next  *)
(* frame into the mailbox, over whatever is still there.                    *)
WriteCommand(single, calibrationExpires) ==
  LET cmd     == CommandAfterChecks(single)
      calib   == IF calibrationExpires THEN "idle" ELSE calibration
      rotates == /\ link_open /\ status_age = "expired"
                 /\ ~heartbeat_timeout_latched
      loses   == rotates \/ AuthorityRevoked(single)
      bar     == IF loses THEN BarrierReset(barrier) ELSE barrier
  IN /\ Spinning
     /\ calibrationExpires => calibration # "idle"
     /\ UpdatePublisherGate(single)
     /\ command' = cmd
     /\ command_timeout_latched' = (command_timeout_latched \/ CommandTimesOut)
     /\ heartbeat_timeout_latched' = (heartbeat_timeout_latched \/ rotates)
     /\ calibration' = calib
     /\ barrier' = bar
     /\ last_disarm' = IF loses THEN NoDisarm ELSE last_disarm
     /\ \E ses \in IF rotates THEN {NewSession(id, FALSE) : id \in FreshSessions}
                   ELSE {session} :
          /\ SequenceRoom(ses)
          /\ session' = Counted(ses)
          /\ mailbox' =
               [NextRequest(ses, FALSE) EXCEPT
                  !.enable = HostEnableAllowed(ses, cmd, GateOpens(single), bar,
                                               calib),
                  !.calibrate = calib # "idle"]
     /\ UNCHANGED <<link_open, link_boot, board, status_age,
                    status_semantic_fault, command_age, pending, active,
                    neutral_due, endVars>>

-----------------------------------------------------------------------------
(* The I/O thread: the write pipeline.                                      *)

IoIdle == ~neutral_due /\ shutdown # "finished"

(* variant: the dispatch history is never trimmed.                          *)
RecentUntrimmed(history) == history

Recent(history) ==
  IF Len(history) > HistoryDepth THEN Tail(history) ELSE history

(* variant: the frame goes out as it was when the timer built it.           *)
SentAsBuilt(ses, r) == r

(* The checks are repeated when the frame leaves: it may have waited in the *)
(* mailbox or behind a slow write.                                          *)
Sent(ses, r) ==
  [r EXCEPT !.enable =
     /\ r.enable
     /\ HostEnableAllowed(ses, command, command_publisher_gate, barrier,
                          calibration)
     /\ ~r.calibrate]

Dispatchable(ses, r) ==
  /\ link_open
  /\ r.session = ses.id
  /\ ses.dispatched = NoSequence \/ Newer(r.sequence, ses.dispatched)

(* start_write_io, on an idle wire.                                         *)
StartWrite(ses, r) ==
  IF Dispatchable(ses, r)
    THEN LET frame == Sent(ses, r)
         IN /\ active' = frame
            /\ session' =
                 [ses EXCEPT !.dispatched = r.sequence,
                             !.handshake = IF ~frame.enable /\ @ = NoSequence
                                             THEN r.sequence ELSE @,
                             !.history = Recent(Append(@, frame))]
    ELSE active' = NoRequest /\ session' = ses

(* variant: the last request to arrive replaces the pending one.            *)
QueueWriteLast(ses, r) ==
  IF r.session # ses.id \/ r.boot # link_boot
    THEN session' = ses /\ UNCHANGED <<active, pending>>
  ELSE IF active = NoRequest
    THEN StartWrite(ses, r) /\ UNCHANGED pending
    ELSE pending' = r /\ session' = ses /\ UNCHANGED active

(* queue_write_io: start it, or let it replace an older pending request.    *)
QueueWrite(ses, r) ==
  IF r.session # ses.id \/ r.boot # link_boot
    THEN session' = ses /\ UNCHANGED <<active, pending>>
  ELSE IF active = NoRequest
    THEN StartWrite(ses, r) /\ UNCHANGED pending
    ELSE /\ pending' = IF pending.session = r.session
                          /\ ~Newer(r.sequence, pending.sequence)
                         THEN pending ELSE r
         /\ session' = ses
         /\ UNCHANGED active

(* drain_latest_write_io.                                                   *)
DrainLatestWrite ==
  /\ IoIdle
  /\ mailbox # NoRequest
  /\ mailbox' = NoRequest
  /\ IF shutdown # "no" THEN UNCHANGED <<session, active, pending>>
     ELSE QueueWrite(session, mailbox)
  /\ UNCHANGED <<link_open, statusVars, commandVars, graphVars, barrier,
                 last_disarm, calibration, neutral_due, endVars>>

(* dispatch_neutral_current_session_io, the tail of the handlers that       *)
(* rotate the session from the I/O thread.                                  *)
DispatchNeutral ==
  /\ neutral_due
  /\ neutral_due' = FALSE
  /\ IF link_open /\ shutdown = "no"
       THEN QueueWrite(Counted(session), NextRequest(session, FALSE))
       ELSE UNCHANGED <<session, active, pending>>
  /\ UNCHANGED <<link_open, statusVars, commandVars, graphVars, barrier,
                 last_disarm, calibration, mailbox, endVars>>

(* async_write completes on an open link.                                   *)
WriteDone ==
  /\ IoIdle
  /\ link_open
  /\ active # NoRequest
  /\ IF active.shutdown \/ pending = NoRequest
       THEN active' = NoRequest /\ UNCHANGED <<session, pending>>
       ELSE StartWrite(session, pending) /\ pending' = NoRequest
  /\ UNCHANGED <<link_open, statusVars, commandVars, graphVars, barrier,
                 last_disarm, calibration, mailbox, neutral_due, endVars>>

(* The handler of a write that was cancelled with its link.                 *)
WriteAborted ==
  /\ IoIdle
  /\ ~link_open
  /\ active # NoRequest
  /\ active' = NoRequest
  /\ UNCHANGED <<session, link_open, statusVars, commandVars, graphVars,
                 barrier, last_disarm, calibration, mailbox, pending,
                 neutral_due, endVars>>

-----------------------------------------------------------------------------
(* The I/O thread: the link.                                                *)

(* open_serial_io, successful.  The reconnect timer runs a second after the *)
(* fault, when the handlers of the old link have been called.               *)
OpenSerial ==
  /\ IoIdle
  /\ ~link_open
  /\ shutdown = "no"
  /\ active = NoRequest
  /\ link_open' = TRUE
  /\ link_boot' = NoBoot
  /\ status_age' = "none"
  /\ status_semantic_fault' = FALSE
  /\ heartbeat_timeout_latched' = FALSE
  /\ RotateSession(FALSE)
  /\ neutral_due' = TRUE
  /\ UNCHANGED <<board, commandVars, graphVars, calibration, mailbox, pending,
                 active, endVars>>

(* handle_io_fault_io: a read or write error, or the write deadline.  An    *)
(* outstanding write is cancelled; its handler comes later, unless the      *)
(* fault is its own error.                                                  *)
IoFault(ownError) ==
  /\ "io_fault" \in Events
  /\ IoIdle
  /\ link_open
  /\ ownError => active # NoRequest
  /\ link_open' = FALSE
  /\ pending' = NoRequest
  /\ active' = IF ownError THEN NoRequest ELSE active
  /\ status_age' = "none"
  /\ status_semantic_fault' = FALSE
  /\ RotateSession(FALSE)
  /\ shutdown' = IF shutdown = "no" THEN "no" ELSE "finished"
  /\ UNCHANGED <<link_boot, board, heartbeat_timeout_latched, commandVars,
                 graphVars, calibration, mailbox, neutral_due,
                 shutdown_neutral>>

-----------------------------------------------------------------------------
(* The I/O thread: board status.                                            *)

(* A valid status: safety reason and flags are consistent, so failsafe is   *)
(* reported exactly when no session is (session = NoSession), and outputs   *)
(* are never enabled during calibration.  rolled: the board tick went back. *)
Status ==
  {st \in [boot : Boots, rolled : BOOLEAN, session : Sessions \cup {NoSession},
           received : SequenceNumbers, applied : SequenceNumbers,
           outputs : BOOLEAN,
           calibration : {"none", "calibrating", "done"}] :
     ~(st.outputs /\ st.calibration = "calibrating")}

(* variant: the outputs are compared with the frame the board has received, *)
(* not with the one it has applied.                                         *)
AckValidByReceived(ses, st) ==
  /\ ses.dispatched # NoSequence
  /\ ~Newer(st.applied, st.received)
  /\ ~Newer(st.received, ses.dispatched)
  /\ \A q \in {st.received, st.applied} : Distance(ses.dispatched, q) <= MaxAckLag
  /\ \E i \in 1..Len(ses.history) :
       /\ ses.history[i].sequence = st.received
       /\ ses.history[i].boot = st.boot
       /\ ses.history[i].enable = st.outputs

(* variant: the applied sequence is believed without its echo.              *)
AckValidWithoutEcho(ses, st) ==
  /\ ses.dispatched # NoSequence
  /\ ~Newer(st.applied, st.received)
  /\ ~Newer(st.received, ses.dispatched)
  /\ \A q \in {st.received, st.applied} :
       /\ Distance(ses.dispatched, q) <= MaxAckLag
       /\ \E i \in 1..Len(ses.history) : ses.history[i].sequence = q

(* The board acknowledges only what was dispatched in this session, never   *)
(* moves backwards, and lags by at most MaxAckLag.                          *)
AckValid(ses, st) ==
  /\ ses.dispatched # NoSequence
  /\ ~Newer(st.applied, st.received)
  /\ ~Newer(st.received, ses.dispatched)
  /\ ses.ack_received # NoSequence =>
       /\ ~Newer(ses.ack_received, st.received)
       /\ ~Newer(ses.ack_applied, st.applied)
  /\ \A q \in {st.received, st.applied} : Distance(ses.dispatched, q) <= MaxAckLag
  /\ \E i \in 1..Len(ses.history) :
       ses.history[i].sequence = st.received /\ ses.history[i].boot = st.boot
  /\ \E i \in 1..Len(ses.history) :
       /\ ses.history[i].sequence = st.applied
       /\ ses.history[i].boot = st.boot
       /\ ses.history[i].enable = st.outputs

HandshakeApplied(ses, st) ==
  /\ ses.handshake # NoSequence
  /\ st.applied = ses.handshake \/ Newer(st.applied, ses.handshake)

Acknowledged(ses, st) ==
  LET applied == HandshakeApplied(ses, st)
  IN [ses EXCEPT !.ack_received = st.received, !.ack_applied = st.applied,
                 !.acknowledged = @ \/ applied, !.ack_fault = @ /\ ~applied]

CalibrationAfter(st) ==
  CASE calibration = "requested" /\ st.calibration = "calibrating" -> "active"
    [] calibration = "active" /\ st.calibration = "done" -> "idle"
    [] OTHER -> calibration

ShutdownNeutralApplied(st, rotates) ==
  /\ shutdown = "waiting"
  /\ ~rotates
  /\ st.session = shutdown_neutral.session
  /\ ~st.outputs
  /\ \/ st.applied = shutdown_neutral.sequence
     \/ Newer(st.applied, shutdown_neutral.sequence)

(* accept_board_status_io, with a semantically valid status.                *)
AcceptBoardStatus(st) ==
  LET reset    == st.boot # link_boot \/ st.rolled
      reported == st.session = session.id
      dropped  == ~reset /\ session.acknowledged /\ ~reported
      faulty   == ~reset /\ reported /\ ~AckValid(session, st)
      rotates  == reset \/ dropped \/ faulty
      ends     == ShutdownNeutralApplied(st, rotates)
  IN /\ IoIdle
     /\ link_open
     /\ link_boot' = st.boot
     /\ board' = [session |-> st.session, outputs |-> st.outputs,
                  calibrating |-> st.calibration = "calibrating"]
     /\ status_age' = "fresh"
     /\ status_semantic_fault' = FALSE
     /\ heartbeat_timeout_latched' = FALSE
     /\ calibration' = CalibrationAfter(st)
     /\ IF rotates THEN RotateSession(faulty)
        ELSE /\ session' = IF reported THEN Acknowledged(session, st) ELSE session
             /\ UNCHANGED <<barrier, last_disarm>>
     /\ neutral_due' = rotates
     /\ shutdown' = IF ends THEN "finished" ELSE shutdown
     /\ link_open' = ~ends
     /\ UNCHANGED <<commandVars, graphVars, mailbox, pending, active,
                    shutdown_neutral>>

(* accept_board_status_io, with a semantically invalid status: the first    *)
(* one rotates the session, none refreshes the heartbeat.                   *)
RejectBoardStatus ==
  /\ "bad_status" \in Events
  /\ IoIdle
  /\ link_open
  /\ status_semantic_fault' = TRUE
  /\ IF status_semantic_fault
       THEN UNCHANGED <<sessionVars, neutral_due>>
       ELSE RotateSession(TRUE) /\ neutral_due' = TRUE
  /\ UNCHANGED <<link_open, link_boot, board, status_age,
                 heartbeat_timeout_latched, commandVars, graphVars,
                 calibration, mailbox, pending, active, endVars>>

-----------------------------------------------------------------------------
(* Shutdown.                                                                *)

(* The destructor: ROS callbacks have ended, begin_shutdown_io is posted.   *)
DestroyNode ==
  /\ "shutdown" \in Events
  /\ shutdown = "no"
  /\ shutdown' = "posted"
  /\ UNCHANGED <<sessionVars, link_open, statusVars, commandVars, graphVars,
                 calibration, writeVars, shutdown_neutral>>

(* variant: a request that is already pending goes first.                   *)
PendingAtShutdownQueued(r) == IF pending = NoRequest THEN r ELSE pending

PendingAtShutdown(r) == r

(* begin_shutdown_io: one last neutral frame, ahead of anything pending.    *)
BeginShutdown ==
  /\ IoIdle
  /\ shutdown = "posted"
  /\ mailbox' = NoRequest
  /\ IF link_open
       THEN /\ shutdown' = "waiting"
            /\ shutdown_neutral' = [session |-> session.id,
                                    sequence |-> NextSequence(session)]
            /\ IF active = NoRequest
                 THEN /\ StartWrite(Counted(session), NextRequest(session, TRUE))
                      /\ UNCHANGED pending
                 ELSE /\ pending' = PendingAtShutdown(NextRequest(session, TRUE))
                      /\ session' = Counted(session)
                      /\ UNCHANGED active
       ELSE /\ shutdown' = "finished"
            /\ UNCHANGED <<session, active, pending, shutdown_neutral>>
  /\ UNCHANGED <<link_open, statusVars, commandVars, graphVars, barrier,
                 last_disarm, calibration, neutral_due>>

(* variant: the fallback waits for the write in progress.                   *)
ShutdownDeadlineAfterWrite ==
  /\ IoIdle
  /\ shutdown = "waiting"
  /\ active = NoRequest
  /\ shutdown' = "finished"
  /\ link_open' = FALSE
  /\ UNCHANGED <<sessionVars, statusVars, commandVars, graphVars,
                 calibration, writeVars, shutdown_neutral>>

(* The bounded fallback for a broken return path.                           *)
ShutdownDeadline ==
  /\ IoIdle
  /\ shutdown = "waiting"
  /\ shutdown' = "finished"
  /\ link_open' = FALSE
  /\ UNCHANGED <<sessionVars, statusVars, commandVars, graphVars,
                 calibration, writeVars, shutdown_neutral>>

-----------------------------------------------------------------------------
(* Time: a stored status or command grows too old.                          *)

StatusExpires ==
  /\ "status_timeout" \in Events
  /\ status_age = "fresh"
  /\ status_age' = "expired"
  /\ UNCHANGED <<sessionVars, link_open, link_boot, board,
                 status_semantic_fault, heartbeat_timeout_latched,
                 commandVars, graphVars, calibration, writeVars, endVars>>

CommandExpires ==
  /\ "command_timeout" \in Events
  /\ command_age = "fresh"
  /\ command_age' = "expired"
  /\ UNCHANGED <<sessionVars, link_open, statusVars, command,
                 command_timeout_latched, graphVars, calibration, writeVars,
                 endVars>>

-----------------------------------------------------------------------------
Init ==
  /\ \E id \in Sessions : session = NewSession(id, FALSE)
  /\ link_open = FALSE
  /\ link_boot = NoBoot
  /\ board = [session |-> NoSession, outputs |-> FALSE, calibrating |-> FALSE]
  /\ status_age = "none"
  /\ status_semantic_fault = FALSE
  /\ heartbeat_timeout_latched = FALSE
  /\ command = [valid |-> FALSE, enabled |-> FALSE, armed |-> FALSE,
                generation |-> 0]
  /\ command_age = "none"
  /\ command_timeout_latched = FALSE
  /\ barrier = [arm_authorized |-> FALSE, authorized_generation |-> 0,
                saw_disarmed |-> FALSE, disarmed_generation |-> 0]
  /\ authority_publisher_identified = FALSE
  /\ command_publisher_gate = FALSE
  /\ authority_refresh_requested = TRUE
  /\ calibration = "idle"
  /\ mailbox = NoRequest
  /\ pending = NoRequest
  /\ active = NoRequest
  /\ neutral_due = FALSE
  /\ shutdown = "no"
  /\ shutdown_neutral = [session |-> NoSession, sequence |-> 0]
  /\ last_disarm = NoDisarm

(* command_authority never enables without being armed (AuthorityContract). *)
(* The content of a malformed message does not matter.                      *)
Message ==
  {m \in [well_formed : BOOLEAN, armed : BOOLEAN, enable : BOOLEAN,
          generation : Generations] :
     /\ m.enable => m.armed
     /\ ~m.well_formed =>
          "malformed" \in Events /\ ~m.armed /\ m.generation = 0}

(* Whether the topic can be seen with exactly one publisher, or not.        *)
PublisherCounts == IF "intruder" \in Events THEN BOOLEAN ELSE {TRUE}

Acked(ses) == {ses.history[i].sequence : i \in 1..Len(ses.history)}

(* Statuses that have every effect a status can have: one with a changed    *)
(* boot ID or a tick that went back, one without the session, and one that  *)
(* acknowledges, rightly or wrongly, frames of the session.                 *)
StatusInputs ==
  LET phases == IF "calibration" \in Events THEN {"none", "calibrating", "done"} ELSE {"none"}
  IN {st \in
        [boot : Boots, rolled : BOOLEAN, session : {NoSession}, received : {0},
         applied : {0}, outputs : {FALSE}, calibration : phases]
        \cup
        [boot : Boots \cap {link_boot}, rolled : {FALSE}, session : {session.id},
         received : Acked(session) \cup {NextSequence(session)},
         applied : Acked(session), outputs : BOOLEAN,
         calibration : phases] :
      ~(st.outputs /\ st.calibration = "calibrating")}

RosNext ==
  \/ \E m \in Message, single \in PublisherCounts : OnCommand(m, single)
  \/ \E valid, single \in PublisherCounts : RefreshAuthorityEndpoint(valid, single)
  \/ CalibrateImuGyro
  \/ \E single \in PublisherCounts, calibrationExpires \in BOOLEAN :
       WriteCommand(single, calibrationExpires)
  \/ DestroyNode

IoNext ==
  \/ DrainLatestWrite
  \/ DispatchNeutral
  \/ WriteDone
  \/ WriteAborted
  \/ OpenSerial
  \/ \E ownError \in BOOLEAN : IoFault(ownError)
  \/ RejectBoardStatus
  \/ \E st \in StatusInputs : AcceptBoardStatus(st)
  \/ BeginShutdown
  \/ ShutdownDeadline

Next == RosNext \/ IoNext \/ StatusExpires \/ CommandExpires

Spec == Init /\ [][Next]_vars

(* The I/O thread finishes the handler it is in, and its queue is FIFO, so  *)
(* a posted handler or an expired timer is not overtaken for ever by reads  *)
(* and writes.  No frame has to be delivered and no write has to end.       *)
FairSpec ==
  /\ Spec
  /\ WF_vars(DispatchNeutral)
  /\ SF_vars(BeginShutdown)
  /\ SF_vars(ShutdownDeadline)

-----------------------------------------------------------------------------
(* Properties.                                                              *)

Slots == {mailbox, pending, active}

SessionType ==
  [id : Sessions, command_sequence : SequenceNumbers,
   dispatched : SequenceNumbers \cup {NoSequence},
   handshake : SequenceNumbers \cup {NoSequence},
   ack_received : SequenceNumbers \cup {NoSequence},
   ack_applied : SequenceNumbers \cup {NoSequence},
   acknowledged : BOOLEAN, ack_fault : BOOLEAN, history : Seq(Request)]

TypeOK ==
  /\ session \in SessionType
  /\ Len(session.history) <= HistoryDepth
  /\ link_open \in BOOLEAN
  /\ link_boot \in Boots \cup {NoBoot}
  /\ board \in [session : Sessions \cup {NoSession}, outputs : BOOLEAN,
                calibrating : BOOLEAN]
  /\ status_age \in {"none", "fresh", "expired"}
  /\ status_semantic_fault \in BOOLEAN
  /\ heartbeat_timeout_latched \in BOOLEAN
  /\ command \in [valid : BOOLEAN, enabled : BOOLEAN, armed : BOOLEAN,
                  generation : Generations]
  /\ command_age \in {"none", "fresh", "expired"}
  /\ command_timeout_latched \in BOOLEAN
  /\ barrier \in [arm_authorized : BOOLEAN, authorized_generation : Generations,
                  saw_disarmed : BOOLEAN, disarmed_generation : Generations]
  /\ authority_publisher_identified \in BOOLEAN
  /\ command_publisher_gate \in BOOLEAN
  /\ authority_refresh_requested \in BOOLEAN
  /\ calibration \in {"idle", "requested", "active"}
  /\ \A r \in Slots : r = NoRequest \/ r \in Request
  /\ neutral_due \in BOOLEAN
  /\ shutdown \in {"no", "posted", "waiting", "finished"}
  /\ shutdown_neutral \in [session : Sessions \cup {NoSession},
                           sequence : SequenceNumbers]
  /\ last_disarm \in 0..NoDisarm

(* "A valid disarmed message must be observed after this point, followed by *)
(* a strictly newer arm generation" (rotate_session_locked): whatever the   *)
(* topic, the graph, the board and the timers do, the bridge believes an    *)
(* armed command only after a disarmed one with an older generation that it *)
(* accepted since authority was last lost.                                  *)
AuthorizedAfterDisarm ==
  barrier.arm_authorized => last_disarm < barrier.authorized_generation

(* start_write_io compares the session of a waiting request but not its     *)
(* boot ID.  That is enough: a request of the current session, in whichever *)
(* slot it waits, always carries the current boot challenge.                *)
SessionBindsBoot ==
  \A r \in Slots : r.session = session.id => r.boot = link_boot

(* An enabled frame reaches the wire only over an acknowledged session of   *)
(* an open link, outside calibration, for a command that passed the arm     *)
(* barrier since authority was last lost, and with the board's current boot *)
(* ID - however long it waited and whatever happened meanwhile.             *)
EnabledFrameIsAuthorized ==
  [][active' # active /\ active'.enable =>
       /\ link_open /\ session'.acknowledged /\ ~session'.ack_fault
       /\ active'.session = session'.id
       /\ active'.boot = link_boot
       /\ calibration = "idle" /\ ~active'.calibrate
       /\ barrier.arm_authorized /\ last_disarm < barrier.authorized_generation]_vars

(* Only the newest request counts, and it is never lost: on an open link    *)
(* the last request that was built has left, or still waits in the mailbox  *)
(* or behind the write in progress - whichever of the two threads built it, *)
(* whatever it overtook, and although an older one may reach the pending    *)
(* slot after it.  A disarmed command cannot be superseded by an older      *)
(* frame, nor stay behind while older ones go out.                          *)
NewestRequestLeaves ==
  link_open /\ shutdown # "posted" =>
    \/ session.dispatched = NoSequence /\ session.command_sequence = 0
    \/ session.dispatched = session.command_sequence
    \/ \E r \in {mailbox, pending} :
         r.session = session.id /\ r.sequence = session.command_sequence

(* A session opens with a disabled frame, so the board can establish it,    *)
(* and is acknowledged only when the board has applied a frame of it.       *)
SessionOpensDisabled ==
  /\ session.dispatched # NoSequence => session.handshake # NoSequence
  /\ session.acknowledged => session.ack_applied # NoSequence

(* Once the shutdown frame is queued, nothing enabled leaves any more.      *)
NothingEnabledAfterShutdown ==
  [][shutdown = "waiting" /\ active' # active => ~active'.enable]_vars

(* A shutdown always completes, whatever the board and the link do.         *)
ShutdownCompletes == (shutdown = "posted") ~> (shutdown = "finished")
=============================================================================
