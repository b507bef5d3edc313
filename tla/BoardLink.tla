------------------------------- MODULE BoardLink -------------------------------
(***************************************************************************)
(* The bridge of AboardBridge joined by the UART to an Aquaboard that      *)
(* follows the protocol.  The firmware is not part of this repository: the *)
(* board is modelled from the frames the bridge sends, the statuses it     *)
(* accepts and the contract in docs/ABOARD_UART_V2.md.                     *)
(*                                                                         *)
(*   - a disabled frame with the board's boot ID establishes or changes    *)
(*     the session; an enabled one counts only in that session and only if *)
(*     it is newer; any boot or session mismatch drops the session;        *)
(*   - whatever is accepted or dropped takes effect at the next PWM update *)
(*     boundary.  Until then a status truthfully reports the new session   *)
(*     with the sequence and the outputs that the previous boundary        *)
(*     latched, those of another session perhaps, or outputs together with *)
(*     failsafe (lines 71 and 85-89);                                      *)
(*   - the watchdog drops the session, a reset draws a new boot ID.        *)
(*                                                                         *)
(* Each direction of the wire holds at most one frame, in order; a frame   *)
(* may be lost (CRC) or late.                                              *)
(***************************************************************************)
EXTENDS AboardBridge

CONSTANT MaxFaults   \* bound on the number of faults, of any kind

ASSUME LinkAssumption == MaxFaults \in Nat

VARIABLES mcu,        \* the board's own state
          downlink,   \* the frame on the wire to the board, or NoRequest
          uplink,     \* the board when it composed the status on the wire
                      \* to the bridge, or NoReport: the bridge sees AsStatus
          faults,     \* number of faults so far
          disarmed_since_reset  \* history: the bridge accepted a disarmed
                                \* command after the last reset of the board

linkVars == <<mcu, downlink, uplink, faults, disarmed_since_reset>>
allVars  == <<vars, linkVars>>

Fault == faults < MaxFaults /\ faults' = faults + 1

(* The board's registers.  received and staged belong to session, applied   *)
(* and outputs to the frame that crossed the last PWM boundary; latched is  *)
(* the session of that frame, which no status tells, NoSession if neutral.  *)
NeutralBoard(b) ==
  [boot |-> b, session |-> NoSession, received |-> 0, staged |-> FALSE,
   latched |-> NoSession, applied |-> 0, outputs |-> FALSE]

NoReport == NeutralBoard(NoBoot)

AsStatus(m) ==
  [boot |-> m.boot, rolled |-> FALSE, session |-> m.session,
   received |-> m.received, applied |-> m.applied, outputs |-> m.outputs,
   calibration |-> "none"]

(* What the outputs do was commanded in the session that the board is in.   *)
Settled(m) == m.latched = m.session

-----------------------------------------------------------------------------
(* The board.                                                               *)

Accepted(f) ==
  mcu' = [mcu EXCEPT !.session = f.session, !.received = f.sequence,
                     !.staged = f.enable]

Dropped == mcu' = [mcu EXCEPT !.session = NoSession, !.staged = FALSE]

BoardReceives ==
  /\ downlink # NoRequest
  /\ downlink' = NoRequest
  /\ LET f == downlink
         known == mcu.session # NoSession /\ f.session = mcu.session
     IN CASE f.boot # mcu.boot              -> Dropped
          [] f.boot = mcu.boot /\ known     ->
               IF Newer(f.sequence, mcu.received) THEN Accepted(f) ELSE UNCHANGED mcu
          [] f.boot = mcu.boot /\ ~known    ->
               IF f.enable THEN Dropped ELSE Accepted(f)
  /\ UNCHANGED <<vars, uplink, faults, disarmed_since_reset>>

(* The PWM update boundary.                                                 *)
BoardApplies ==
  /\ mcu' = [mcu EXCEPT
               !.latched = mcu.session,
               !.applied = IF mcu.session = NoSession THEN @ ELSE mcu.received,
               !.outputs = mcu.staged]
  /\ mcu' # mcu
  /\ UNCHANGED <<vars, downlink, uplink, faults, disarmed_since_reset>>

BoardWatchdog ==
  /\ Fault
  /\ mcu.session # NoSession
  /\ Dropped
  /\ UNCHANGED <<vars, downlink, uplink, disarmed_since_reset>>

(* The hardware RNG draws a boot ID that nothing refers to any more.        *)
BoardResets ==
  /\ Fault
  /\ \E b \in Boots \ ({mcu.boot, link_boot, uplink.boot}
                         \cup {r.boot : r \in Slots \cup {downlink}}) :
       mcu' = NeutralBoard(b)
  /\ disarmed_since_reset' = FALSE
  /\ UNCHANGED <<vars, downlink, uplink>>

BoardReports ==
  /\ uplink = NoReport
  /\ uplink' = mcu
  /\ UNCHANGED <<vars, mcu, downlink, faults, disarmed_since_reset>>

-----------------------------------------------------------------------------
(* The wire.                                                                *)

(* The bridge's write completes: the frame is on its way.                   *)
Transmits ==
  /\ downlink = NoRequest
  /\ WriteDone
  /\ downlink' = active
  /\ UNCHANGED <<mcu, uplink, faults, disarmed_since_reset>>

StatusArrives ==
  /\ uplink # NoReport
  /\ AcceptBoardStatus(AsStatus(uplink))
  /\ uplink' = NoReport
  /\ UNCHANGED <<mcu, downlink, faults, disarmed_since_reset>>

FrameLost ==
  /\ Fault
  /\ downlink # NoRequest
  /\ downlink' = NoRequest
  /\ UNCHANGED <<vars, mcu, uplink, disarmed_since_reset>>

StatusLost ==
  /\ Fault
  /\ uplink # NoReport
  /\ uplink' = NoReport
  /\ UNCHANGED <<vars, mcu, downlink, disarmed_since_reset>>

(* Opening the port flushes its input.                                      *)
Reopens ==
  /\ OpenSerial
  /\ uplink' = NoReport
  /\ UNCHANGED <<mcu, downlink, faults, disarmed_since_reset>>

-----------------------------------------------------------------------------
(* The bridge between statuses and completed writes.                        *)

(* The only publisher is command_authority: an armed command carries the    *)
(* generation that its arming drew (AuthorityContract).                     *)
AuthorityMessage == {m \in Message : m.armed => m.generation > 0}

Commanded(m) ==
  /\ OnCommand(m, TRUE)
  /\ disarmed_since_reset' =
       (disarmed_since_reset \/ (command'.valid /\ ~m.armed))
  /\ UNCHANGED <<mcu, downlink, uplink, faults>>

BridgeSteps ==
  /\ \/ RefreshAuthorityEndpoint(TRUE, TRUE)
     \/ WriteCommand(TRUE, FALSE)
     \/ DrainLatestWrite
     \/ DispatchNeutral
     \/ WriteAborted
  /\ UNCHANGED linkVars

BridgeFaults ==
  /\ \/ \E ownError \in BOOLEAN : IoFault(ownError)
     \/ CommandExpires
  /\ Fault
  /\ UNCHANGED <<mcu, downlink, uplink, disarmed_since_reset>>

(* A session ID that the board or the wire still holds is not fresh.        *)
FreshOnTheWire ==
  session'.id # session.id =>
    session'.id \notin {mcu.session, mcu.latched, downlink.session,
                        uplink.session, uplink.latched}

LinkInit ==
  /\ Init
  /\ \E b \in Boots : mcu = NeutralBoard(b)
  /\ downlink = NoRequest
  /\ uplink = NoReport
  /\ faults = 0
  /\ disarmed_since_reset = FALSE

LinkNext ==
  /\ \/ \E m \in AuthorityMessage : Commanded(m)
     \/ BridgeSteps
     \/ BridgeFaults
     \/ Transmits
     \/ StatusArrives
     \/ Reopens
     \/ FrameLost
     \/ StatusLost
     \/ BoardReceives
     \/ BoardApplies
     \/ BoardWatchdog
     \/ BoardResets
     \/ BoardReports
  /\ FreshOnTheWire

LinkSpec == LinkInit /\ [][LinkNext]_allVars

-----------------------------------------------------------------------------
(* Properties.                                                              *)

(* The checks of accept_board_status_io never misfire: a board that follows *)
(* the protocol and lags no more than the budget allows is believed once it *)
(* has crossed a PWM boundary in the session, whichever frames and statuses *)
(* were lost, replaced in the mailbox, made neutral on their way out or     *)
(* overtaken by a reset or a rotation.  The status of a board that has yet  *)
(* to cross it tells numbers of another session and may be refused.         *)
HonestBoardIsBelieved ==
  /\ uplink # NoReport
  /\ link_open /\ uplink.boot = link_boot
  /\ uplink.session = session.id /\ Settled(uplink)
  /\ \A q \in {uplink.received, uplink.applied} :
       Distance(session.dispatched, q) <= MaxAckLag
  => AckValid(session, AsStatus(uplink))

(* Nor does a number of another session pass for an acknowledgement while   *)
(* the board still drives what that session commanded: in a session that    *)
(* the bridge takes for acknowledged, which it may arm, outputs that are on *)
(* were latched from a frame of this session.                               *)
AcknowledgedOutputsAreOwn ==
  session.acknowledged /\ mcu.session = session.id /\ mcu.outputs => Settled(mcu)

(* "A bridge or board reset cannot resume PWM until an explicit disarm and  *)
(* a later arm generation establish a new session" (docs/ACCEPTANCE.md:103):*)
(* the board's outputs are enabled only if the bridge has accepted a        *)
(* disarmed command since the board's last reset, although the bridge       *)
(* learns of the reset late and frames for the old boot are on their way.   *)
NoResumeAfterReset == mcu.outputs => disarmed_since_reset
=============================================================================
