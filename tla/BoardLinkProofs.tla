---------------------------- MODULE BoardLinkProofs ----------------------------
(***************************************************************************)
(* The three promises of the link, for every number of boots, sessions,    *)
(* faults and sequence numbers, and what the bridge promises in it.        *)
(*                                                                         *)
(* NoResumeAfterReset, the acceptance criterion on resets.  The bridge     *)
(* part of a step is one of AboardBridge, whose invariants hold here too.  *)
(* ResetInv adds the evidence: while the bridge knows the board's current  *)
(* boot, whatever its arm barrier holds dates from after the reset; so     *)
(* does every enabled frame with that boot; so does what the board has     *)
(* staged.  A frame on its way needs no look at the slots behind it, for   *)
(* it was authorised when it left.                                         *)
(*                                                                         *)
(* HonestBoardIsBelieved, that the acknowledgement checks never misfire.   *)
(* EchoInv follows a frame of the current session round the loop: being    *)
(* written, on the wire, accepted by the board, latched by a PWM boundary, *)
(* reported back as received and as applied.  Whatever is found there left *)
(* the bridge in this session with that number and that enable flag, is no *)
(* further back than what was acknowledged last, and is overtaken by       *)
(* nothing behind it.  The history still holds it, or it lies further back *)
(* than the history is deep.  The board accepts, latches and reports a     *)
(* frame as a whole, so each of its steps moves one from place to place;   *)
(* only the report of a transition takes its numbers from two sessions.    *)
(*                                                                         *)
(* AcknowledgedOutputsAreOwn.  Until a session is acknowledged only        *)
(* disabled frames leave, so the report that acknowledges it says that the *)
(* outputs are off: OwnInv shows that from then on nothing of another      *)
(* session is on the wire or in the board to switch them on again.         *)
(***************************************************************************)
EXTENDS BoardLink, AboardBridgeProofs

Mcu ==
  [boot : Boots, session : Sessions \cup {NoSession}, received : SequenceNumbers,
   staged : BOOLEAN, latched : Sessions \cup {NoSession},
   applied : SequenceNumbers, outputs : BOOLEAN]

LinkTypes ==
  /\ mcu \in Mcu
  /\ GoodRequest(downlink)
  /\ uplink = NoReport \/ uplink \in Mcu
  /\ disarmed_since_reset \in BOOLEAN

(* The barrier's evidence is newer than the boot that the bridge knows.     *)
BarrierIsCurrent ==
  link_boot = mcu.boot /\ (barrier.arm_authorized \/ barrier.saw_disarmed)
    => disarmed_since_reset

(* So is the evidence behind an enabled frame that the board would take.    *)
FrameIsCurrent(r) == r.enable /\ r.boot = mcu.boot => disarmed_since_reset

BoardIsCurrent == mcu.staged \/ mcu.outputs => disarmed_since_reset

ResetInv ==
  /\ LinkTypes
  /\ BarrierIsCurrent
  /\ FrameIsCurrent(active) /\ FrameIsCurrent(downlink)
  /\ BoardIsCurrent

BridgeInv == BarrierInv /\ SlotInv

-----------------------------------------------------------------------------
(* The bridge part.                                                         *)

LEMMA ReportIsStatus ==
  ASSUME NEW m \in Mcu
  PROVE  AsStatus(m) \in Status
  BY DEF Mcu, AsStatus, Status

LEMMA NeutralBoardType ==
  ASSUME NEW b \in Boots
  PROVE  NeutralBoard(b) \in Mcu
<1>1. 0 \in SequenceNumbers
  BY BridgeAssumption DEF SequenceNumbers
<1> QED
  BY <1>1 DEF NeutralBoard, Mcu

(* A step of the link is a step of the bridge, a status or none.            *)
LEMMA LinkStepsBridge ==
  ASSUME LinkTypes, [LinkNext]_allVars
  PROVE  \/ [Next]_vars
         \/ \E st \in Status : AcceptBoardStatus(st)
<1>1. TRUE \in PublisherCounts /\ FALSE \in BOOLEAN
  BY DEF PublisherCounts
<1>2. CASE \E m \in AuthorityMessage : Commanded(m)
  BY <1>1, <1>2 DEF AuthorityMessage, Commanded, Next, RosNext
<1>3. CASE BridgeSteps
  BY <1>1, <1>3 DEF BridgeSteps, Next, RosNext, IoNext
<1>4. CASE BridgeFaults
  BY <1>4 DEF BridgeFaults, Next, IoNext
<1>5. CASE Transmits \/ Reopens
  BY <1>5 DEF Transmits, Reopens, Next, IoNext
<1>6. CASE StatusArrives
  BY <1>6, ReportIsStatus DEF StatusArrives, LinkTypes
<1>7. CASE \/ FrameLost \/ StatusLost \/ BoardReceives \/ BoardApplies
           \/ BoardWatchdog \/ BoardResets \/ BoardReports
  BY <1>7 DEF FrameLost, StatusLost, BoardReceives, BoardApplies, BoardWatchdog,
              BoardResets, BoardReports
<1>8. CASE UNCHANGED allVars
  BY <1>8 DEF allVars
<1> QED
  BY <1>2, <1>3, <1>4, <1>5, <1>6, <1>7, <1>8 DEF LinkNext

LEMMA BridgeInvStep ==
  ASSUME BridgeInv, LinkTypes, [LinkNext]_allVars
  PROVE  BridgeInv'
<1>1. CASE [Next]_vars
  BY <1>1, BarrierStep, SlotStep DEF BridgeInv
<1>2. CASE \E st \in Status : AcceptBoardStatus(st)
  <2>1. PICK st \in Status : AcceptBoardStatus(st)
    BY <1>2
  <2>2. SlotInv'
    BY <2>1, AcceptStatusBinds DEF BridgeInv
  <2>3. LoseAuthority \/ UNCHANGED <<barrier, last_disarm>>
    BY <2>1 DEF AcceptBoardStatus, RotateSession
  <2>4. BarrierInv'
    BY <2>3, LosingIsSafe
    DEF BridgeInv, BarrierInv, BarrierTypes, BarrierWaits, AuthorizedAfterDisarm
  <2> QED
    BY <2>2, <2>4 DEF BridgeInv
<1> QED
  BY <1>1, <1>2, LinkStepsBridge

(* A frame that the bridge starts to write is disabled, or authorised by a  *)
(* command that passed the barrier, for the boot that the bridge knows.     *)
LEMMA StartedIsCurrent ==
  ASSUME BridgeInv, BarrierIsCurrent, FrameIsCurrent(active), Next
  PROVE  active'.enable /\ active'.boot = mcu.boot => disarmed_since_reset
<1>1. CASE active' = active
  BY <1>1 DEF FrameIsCurrent
<1>2. CASE active' # active /\ active'.enable
  <2>1. FrameIsAuthorized
    BY <1>2, EnabledStep DEF BridgeInv
  <2> QED
    BY <2>1 DEF FrameIsAuthorized, BarrierIsCurrent
<1> QED
  BY <1>1, <1>2

(* What becomes of the barrier and of the boot that the bridge knows, but   *)
(* for a command: both stay, or the barrier closes.                         *)
LEMMA BarrierOrBoot ==
  ASSUME BridgeInv,
         \/ RefreshAuthorityEndpoint(TRUE, TRUE) \/ WriteCommand(TRUE, FALSE)
         \/ DrainLatestWrite \/ DispatchNeutral \/ WriteDone \/ WriteAborted
         \/ OpenSerial \/ CommandExpires
         \/ \E ownError \in BOOLEAN : IoFault(ownError)
         \/ \E st \in Status : AcceptBoardStatus(st)
  PROVE  \/ UNCHANGED <<barrier, link_boot>>
         \/ ~barrier'.arm_authorized /\ ~barrier'.saw_disarmed
<1>1. ~BarrierReset(barrier).arm_authorized /\ ~BarrierReset(barrier).saw_disarmed
  BY ResetIsClosed DEF BridgeInv, BarrierInv, BarrierTypes
<1>2. CASE RefreshAuthorityEndpoint(TRUE, TRUE)
  BY <1>1, <1>2 DEF RefreshAuthorityEndpoint, LoseAuthority, statusVars
<1>3. CASE WriteCommand(TRUE, FALSE)
  BY <1>1, <1>3 DEF WriteCommand
<1>4. CASE DrainLatestWrite \/ DispatchNeutral \/ WriteDone \/ WriteAborted \/ CommandExpires
  BY <1>4 DEF DrainLatestWrite, DispatchNeutral, WriteDone, WriteAborted,
              CommandExpires, statusVars, sessionVars
<1>5. CASE OpenSerial \/ \E ownError \in BOOLEAN : IoFault(ownError)
  BY <1>1, <1>5 DEF OpenSerial, IoFault, RotateSession, LoseAuthority
<1>6. CASE \E st \in Status : AcceptBoardStatus(st)
  <2>1. PICK st \in Status : AcceptBoardStatus(st)
    BY <1>6
  <2>2. \/ LoseAuthority
        \/ st.boot = link_boot /\ UNCHANGED barrier
    BY <2>1 DEF AcceptBoardStatus, RotateSession
  <2>3. link_boot' = st.boot
    BY <2>1 DEF AcceptBoardStatus
  <2> QED
    BY <1>1, <2>2, <2>3 DEF LoseAuthority
<1> QED
  BY <1>2, <1>3, <1>4, <1>5, <1>6

-----------------------------------------------------------------------------
(* The evidence.                                                            *)

LEMMA NoRequestIsGood == GoodRequest(NoRequest) /\ ~NoRequest.enable
  BY DEF GoodRequest, NoRequest

LEMMA CommandIsEvidence ==
  ASSUME BridgeInv, ResetInv, NEW m \in Message, Commanded(m)
  PROVE  BarrierIsCurrent' /\ disarmed_since_reset' \in BOOLEAN
<1> DEFINE bar == IF AuthorityRevoked(TRUE) THEN BarrierReset(barrier) ELSE barrier
<1>1. /\ OnCommand(m, TRUE)
      /\ disarmed_since_reset' = (disarmed_since_reset \/ (command'.valid /\ ~m.armed))
      /\ mcu' = mcu /\ link_boot' = link_boot
  BY DEF Commanded, OnCommand, statusVars
<1>2. disarmed_since_reset \in BOOLEAN
  BY DEF ResetInv, LinkTypes
<1>3. /\ bar \in BarrierType
      /\ bar.arm_authorized => barrier.arm_authorized
      /\ bar.saw_disarmed => barrier.saw_disarmed
  BY ResetIsClosed DEF BridgeInv, BarrierInv, BarrierTypes
<1>4. CASE m.well_formed /\ GateOpens(TRUE)
  <2>1. barrier' = BarrierAfter(bar, m) /\ command'.valid = TRUE
    BY <1>1, <1>4 DEF OnCommand
  <2>2. CASE ~m.armed
    BY <1>1, <1>2, <2>1, <2>2 DEF BarrierIsCurrent
  <2>3. CASE m.armed
    <3> HIDE DEF bar
    <3>1. BarrierAfter(bar, m).arm_authorized \/ BarrierAfter(bar, m).saw_disarmed
            => bar.arm_authorized \/ bar.saw_disarmed
      BY <1>3, <2>3 DEF BarrierAfter, BarrierType
    <3> QED
      BY <1>1, <1>2, <1>3, <2>1, <3>1 DEF BarrierIsCurrent, ResetInv
  <2> QED
    BY <1>1, <1>2, <2>2, <2>3
<1>5. CASE ~(m.well_formed /\ GateOpens(TRUE))
  <2>1. LoseAuthority
    BY <1>1, <1>5 DEF OnCommand
  <2>2. ~barrier'.arm_authorized /\ ~barrier'.saw_disarmed
    BY <2>1, ResetIsClosed DEF LoseAuthority, BridgeInv, BarrierInv, BarrierTypes
  <2> QED
    BY <1>1, <1>2, <2>2 DEF BarrierIsCurrent
<1> QED
  BY <1>4, <1>5

(* A step of the bridge that leaves the board and the downlink alone.       *)
LEMMA BridgePartKeeps ==
  ASSUME BridgeInv, ResetInv, UNCHANGED <<mcu, disarmed_since_reset>>,
         \/ UNCHANGED <<barrier, link_boot>>
         \/ ~barrier'.arm_authorized /\ ~barrier'.saw_disarmed,
         active'.enable /\ active'.boot = mcu.boot => disarmed_since_reset,
         downlink' \in {downlink, active, NoRequest},
         uplink' \in {uplink, NoReport}
  PROVE  ResetInv'
<1>1. LinkTypes'
  <2>1. GoodRequest(active) /\ GoodRequest(downlink) /\ GoodRequest(NoRequest)
    BY NoRequestIsGood DEF BridgeInv, SlotInv, BoundSlots, Bound, ResetInv, LinkTypes
  <2>2. GoodRequest(downlink')
    BY <2>1
  <2> QED
    BY <2>2 DEF ResetInv, LinkTypes, GoodRequest
<1>2. BarrierIsCurrent'
  BY DEF ResetInv, BarrierIsCurrent
<1>3. FrameIsCurrent(active)' /\ BoardIsCurrent'
  BY DEF ResetInv, FrameIsCurrent, BoardIsCurrent
<1>4. FrameIsCurrent(downlink)'
  BY NoRequestIsGood DEF ResetInv, FrameIsCurrent
<1> QED
  BY <1>1, <1>2, <1>3, <1>4 DEF ResetInv

LEMMA BoardReceivesKeeps ==
  ASSUME ResetInv, BoardReceives
  PROVE  ResetInv'
<1> DEFINE f == downlink
<1>1. /\ f \in Request /\ mcu \in Mcu
      /\ FrameIsCurrent(f)
  BY DEF BoardReceives, ResetInv, LinkTypes, GoodRequest
<1>2. /\ f.session \in Sessions /\ f.sequence \in SequenceNumbers /\ f.enable \in BOOLEAN
  BY <1>1 DEF Request
<1>3. \/ mcu' = mcu
      \/ f.boot = mcu.boot /\ Accepted(f)
      \/ Dropped
  BY DEF BoardReceives
<1>4. UNCHANGED <<link_boot, barrier, active, uplink, disarmed_since_reset>>
      /\ downlink' = NoRequest
  BY DEF BoardReceives, vars
<1> HIDE DEF f
<1>5. mcu' \in Mcu /\ mcu'.boot = mcu.boot
      /\ (mcu'.staged \/ mcu'.outputs =>
            mcu.staged \/ mcu.outputs \/ (f.enable /\ f.boot = mcu.boot))
  BY <1>1, <1>2, <1>3 DEF Accepted, Dropped, Mcu
<1>6. LinkTypes'
  BY <1>4, <1>5, NoRequestIsGood DEF ResetInv, LinkTypes, GoodRequest
<1>7. BarrierIsCurrent' /\ FrameIsCurrent(active)'
  BY <1>4, <1>5 DEF ResetInv, BarrierIsCurrent, FrameIsCurrent
<1>8. FrameIsCurrent(downlink)'
  BY <1>4, NoRequestIsGood DEF FrameIsCurrent
<1>9. BoardIsCurrent'
  BY <1>1, <1>4, <1>5 DEF ResetInv, BoardIsCurrent, FrameIsCurrent
<1> QED
  BY <1>6, <1>7, <1>8, <1>9 DEF ResetInv

LEMMA BoardStepKeeps ==
  ASSUME ResetInv, BoardApplies \/ BoardWatchdog \/ BoardReports
  PROVE  ResetInv'
<1>1. mcu \in Mcu
  BY DEF ResetInv, LinkTypes
<1>2. /\ UNCHANGED <<link_boot, barrier, active, downlink, disarmed_since_reset>>
      /\ uplink' = uplink \/ BoardReports
  BY DEF BoardApplies, BoardWatchdog, BoardReports, vars
<1>3. mcu' \in Mcu /\ mcu'.boot = mcu.boot
      /\ (mcu'.staged \/ mcu'.outputs => mcu.staged \/ mcu.outputs)
  <2>1. CASE BoardApplies
    <3> DEFINE q == IF mcu.session = NoSession THEN mcu.applied ELSE mcu.received
    <3>1. q \in SequenceNumbers
      BY <1>1 DEF Mcu
    <3>2. mcu' = [mcu EXCEPT !.latched = mcu.session, !.applied = q, !.outputs = mcu.staged]
      BY <2>1 DEF BoardApplies
    <3> HIDE DEF q
    <3> QED
      BY <1>1, <3>1, <3>2 DEF Mcu
  <2>2. CASE BoardWatchdog
    BY <1>1, <2>2 DEF BoardWatchdog, Dropped, Mcu
  <2>3. CASE BoardReports
    BY <1>1, <2>3 DEF BoardReports
  <2> QED
    BY <2>1, <2>2, <2>3
<1>4. uplink' = NoReport \/ uplink' \in Mcu
  BY <1>1, <1>2 DEF BoardReports, ResetInv, LinkTypes
<1>5. LinkTypes'
  BY <1>2, <1>3, <1>4 DEF ResetInv, LinkTypes, GoodRequest
<1> QED
  BY <1>2, <1>3, <1>5 DEF ResetInv, BarrierIsCurrent, FrameIsCurrent, BoardIsCurrent

LEMMA BoardResetsKeeps ==
  ASSUME ResetInv, BoardResets
  PROVE  ResetInv'
<1>1. PICK b \in Boots \ ({mcu.boot, link_boot, uplink.boot}
                            \cup {r.boot : r \in Slots \cup {downlink}}) :
        mcu' = NeutralBoard(b)
  BY DEF BoardResets
<1>2. /\ disarmed_since_reset' = FALSE
      /\ UNCHANGED <<link_boot, barrier, active, downlink, uplink>>
  BY DEF BoardResets, vars
<1>3. b # link_boot /\ b # active.boot /\ b # downlink.boot
  BY <1>1 DEF Slots
<1>4. mcu' \in Mcu
  BY <1>1, NeutralBoardType
<1>5. mcu'.boot = b /\ ~mcu'.staged /\ ~mcu'.outputs
  BY <1>1 DEF NeutralBoard
<1>6. LinkTypes'
  BY <1>2, <1>4 DEF ResetInv, LinkTypes, GoodRequest
<1> QED
  BY <1>2, <1>3, <1>5, <1>6 DEF ResetInv, BarrierIsCurrent, FrameIsCurrent, BoardIsCurrent

LEMMA ResetStep ==
  ASSUME BridgeInv, ResetInv, [LinkNext]_allVars
  PROVE  ResetInv'
<1>0. BarrierIsCurrent /\ FrameIsCurrent(active)
  BY DEF ResetInv
<1>1. ASSUME NEW m \in AuthorityMessage, Commanded(m) PROVE ResetInv'
  <2>1. BarrierIsCurrent' /\ disarmed_since_reset' \in BOOLEAN
    BY <1>1, CommandIsEvidence DEF AuthorityMessage
  <2>2. /\ UNCHANGED <<mcu, downlink, uplink, active>>
        /\ disarmed_since_reset => disarmed_since_reset'
    BY <1>1 DEF Commanded, OnCommand, writeVars
  <2>3. LinkTypes'
    BY <2>1, <2>2 DEF ResetInv, LinkTypes, GoodRequest
  <2> QED
    BY <2>1, <2>2, <2>3 DEF ResetInv, FrameIsCurrent, BoardIsCurrent
<1>2. CASE BridgeSteps
  <2>1. Next
    BY <1>2 DEF BridgeSteps, Next, RosNext, IoNext, PublisherCounts
  <2>2. UNCHANGED <<mcu, disarmed_since_reset, downlink, uplink>>
    BY <1>2 DEF BridgeSteps, linkVars
  <2> QED
    BY <1>0, <1>2, <2>1, <2>2, StartedIsCurrent, BarrierOrBoot, BridgePartKeeps
    DEF BridgeSteps
<1>3. CASE BridgeFaults
  <2>1. Next
    BY <1>3 DEF BridgeFaults, Next, IoNext
  <2> QED
    BY <1>0, <1>3, <2>1, StartedIsCurrent, BarrierOrBoot, BridgePartKeeps
    DEF BridgeFaults
<1>4. CASE Transmits
  <2>1. Next
    BY <1>4 DEF Transmits, Next, IoNext
  <2> QED
    BY <1>0, <1>4, <2>1, StartedIsCurrent, BarrierOrBoot, BridgePartKeeps
    DEF Transmits
<1>5. CASE Reopens
  <2>1. Next
    BY <1>5 DEF Reopens, Next, IoNext
  <2> QED
    BY <1>0, <1>5, <2>1, StartedIsCurrent, BarrierOrBoot, BridgePartKeeps
    DEF Reopens
<1>6. CASE StatusArrives
  <2>1. PICK st \in Status : AcceptBoardStatus(st)
    BY <1>6, ReportIsStatus DEF StatusArrives, ResetInv, LinkTypes
  <2>2. active' = active
    BY <2>1 DEF AcceptBoardStatus
  <2> QED
    BY <1>0, <1>6, <2>1, <2>2, BarrierOrBoot, BridgePartKeeps
    DEF StatusArrives, FrameIsCurrent
<1>7. CASE FrameLost \/ StatusLost
  <2>1. UNCHANGED <<barrier, link_boot, active>>
    BY <1>7 DEF FrameLost, StatusLost, vars
  <2> QED
    BY <1>0, <1>7, <2>1, BridgePartKeeps DEF FrameLost, StatusLost, FrameIsCurrent
<1>8. CASE UNCHANGED allVars
  <2>1. UNCHANGED <<barrier, link_boot, active, mcu, downlink, uplink, disarmed_since_reset>>
    BY <1>8 DEF allVars, vars, linkVars
  <2> QED
    BY <1>0, <2>1, BridgePartKeeps DEF FrameIsCurrent
<1> QED
  BY <1>1, <1>2, <1>3, <1>4, <1>5, <1>6, <1>7, <1>8, BoardReceivesKeeps,
     BoardStepKeeps, BoardResetsKeeps
  DEF LinkNext

-----------------------------------------------------------------------------

LEMMA LinkInvariant == LinkSpec => [](BridgeInv /\ ResetInv)
<1>1. LinkInit => BridgeInv /\ ResetInv
  <2> SUFFICES ASSUME LinkInit PROVE BridgeInv /\ ResetInv
    OBVIOUS
  <2>1. BridgeInv
    BY BridgeInit DEF LinkInit, BridgeInv
  <2>3. mcu \in Mcu /\ ~mcu.staged /\ ~mcu.outputs
    BY NeutralBoardType DEF LinkInit, NeutralBoard
  <2>4. LinkTypes
    BY <2>3, NoRequestIsGood DEF LinkInit, LinkTypes
  <2>5. active = NoRequest /\ downlink = NoRequest
        /\ ~barrier.arm_authorized /\ ~barrier.saw_disarmed
    BY DEF LinkInit, Init
  <2>6. BarrierIsCurrent /\ FrameIsCurrent(active) /\ FrameIsCurrent(downlink) /\ BoardIsCurrent
    BY <2>3, <2>5, NoRequestIsGood DEF BarrierIsCurrent, FrameIsCurrent, BoardIsCurrent
  <2> QED
    BY <2>1, <2>4, <2>6 DEF ResetInv
<1>2. (BridgeInv /\ ResetInv) /\ [LinkNext]_allVars => (BridgeInv /\ ResetInv)'
  BY BridgeInvStep, ResetStep DEF ResetInv
<1> QED
  BY <1>1, <1>2, PTL DEF LinkSpec

(* docs/ACCEPTANCE.md:103, with the bridge and a board that follows the     *)
(* protocol: neither frames on their way, nor the bridge's late knowledge   *)
(* of a reset, nor a stored arm command brings the outputs back without a   *)
(* disarmed command after the reset.                                        *)
THEOREM LinkNoResumeAfterReset == LinkSpec => []NoResumeAfterReset
<1>1. BridgeInv /\ ResetInv => NoResumeAfterReset
  BY DEF ResetInv, BoardIsCurrent, NoResumeAfterReset
<1> QED
  BY <1>1, LinkInvariant, PTL

-----------------------------------------------------------------------------
(* What the bridge promises against any board it keeps with this one.       *)

(* A status starts no frame; every other step is one of the bridge.         *)
LEMMA FrameLeavesWithBridge ==
  ASSUME LinkTypes, [LinkNext]_allVars, active' # active
  PROVE  Next
<1>1. ASSUME NEW st \in Status, AcceptBoardStatus(st)
      PROVE  FALSE
  BY <1>1 DEF AcceptBoardStatus
<1>2. ~UNCHANGED vars
  BY DEF vars
<1> QED
  BY <1>1, <1>2, LinkStepsBridge

LEMMA LinkOpensStep ==
  ASSUME SlotInv, LinkTypes, Opens(session), [LinkNext]_allVars
  PROVE  Opens(session')
<1>1. ASSUME NEW st \in Status, AcceptBoardStatus(st)
      PROVE  Opens(session')
  <2>1. \/ \E f \in BOOLEAN : RotateSession(f)
        \/ session' \in {session, Acknowledged(session, st)}
    BY <1>1 DEF AcceptBoardStatus
  <2> QED
    BY <2>1, RotationOpens, AcknowledgedOpens DEF SlotInv
<1> QED
  BY <1>1, OpensStep, LinkStepsBridge

LEMMA LinkOpening == LinkSpec => []Opens(session)
<1>1. LinkInit => Opens(session)
  BY NewSessionOpens DEF LinkInit, Init
<1>2. (BridgeInv /\ ResetInv) /\ Opens(session) /\ [LinkNext]_allVars => Opens(session')
  BY LinkOpensStep DEF BridgeInv, ResetInv
<1>3. Opens(session)' <=> Opens(session')
  BY DEF Opens
<1> QED
  BY <1>1, <1>2, <1>3, LinkInvariant, PTL DEF LinkSpec

LEMMA LinkNewestStep ==
  ASSUME SlotInv, LinkTypes, ShutdownPhase, NewestInv, [LinkNext]_allVars
  PROVE  ShutdownPhase' /\ NewestInv'
<1>1. ASSUME NEW st \in Status, AcceptBoardStatus(st)
      PROVE  ShutdownPhase' /\ NewestInv'
  <2>1. shutdown' \in {shutdown, "finished"}
    BY <1>1 DEF AcceptBoardStatus
  <2> QED
    BY <1>1, <2>1, AcceptStatusNewest DEF ShutdownPhase
<1> QED
  BY <1>1, LinkStepsBridge, PhaseStep, NewestStep

LEMMA LinkNewest == LinkSpec => [](ShutdownPhase /\ NewestInv)
<1>1. LinkInit => ShutdownPhase /\ NewestInv
  BY InitIsNewest DEF LinkInit, Init, ShutdownPhase
<1>2. (BridgeInv /\ ResetInv) /\ (ShutdownPhase /\ NewestInv) /\ [LinkNext]_allVars
        => (ShutdownPhase /\ NewestInv)'
  BY LinkNewestStep DEF BridgeInv, ResetInv
<1> QED
  BY <1>1, <1>2, LinkInvariant, PTL DEF LinkSpec

(* on_command, accept_board_status_io and start_write_io on a lossy wire:   *)
(* no armed command passes the barrier without a disarmed one before it,    *)
(* no frame of another boot is in a slot, a session opens with a disabled   *)
(* frame and is acknowledged only by a frame reported as applied, the       *)
(* newest request of a session leaves or waits, and every enabled frame is  *)
(* authorised when it leaves, whichever statuses are lost and whenever the  *)
(* board resets.                                                            *)
THEOREM LinkKeepsBridge ==
  LinkSpec => /\ [](AuthorizedAfterDisarm /\ SessionBindsBoot /\ SessionOpensDisabled
                      /\ NewestRequestLeaves)
              /\ EnabledFrameIsAuthorized
<1> DEFINE A == active' # active /\ active'.enable => FrameIsAuthorized
<1>1. BridgeInv /\ ResetInv => AuthorizedAfterDisarm /\ SessionBindsBoot
  BY DEF BridgeInv, BarrierInv, SlotInv, BoundSlots, Bound, SessionBindsBoot, Slots
<1>2. Opens(session) => SessionOpensDisabled
  BY DEF Opens, SessionOpensDisabled
<1>3. NewestInv => NewestRequestLeaves
  BY NewestLeaves
<1>4. (BridgeInv /\ ResetInv) /\ [LinkNext]_allVars => [A]_vars
  BY FrameLeavesWithBridge, EnabledStep DEF BridgeInv, ResetInv
<1>5. LinkSpec => /\ [](AuthorizedAfterDisarm /\ SessionBindsBoot /\ SessionOpensDisabled
                          /\ NewestRequestLeaves)
                  /\ [][A]_vars
  BY <1>1, <1>2, <1>3, <1>4, LinkInvariant, LinkOpening, LinkNewest, PTL DEF LinkSpec
<1> QED
  BY <1>5 DEF EnabledFrameIsAuthorized, FrameIsAuthorized

-----------------------------------------------------------------------------
(* Acknowledgements: the invariant.                                         *)

(* Within these bounds a session never wraps its sequence numbers: sequence *)
(* numbers of one session compare like numbers.                             *)
LastSequence == MaxSequence + 1
SessionsDoNotWrap == 2 * LastSequence < SequenceModulus

(* kDispatchHistoryDepth (16) against kMaximumAckSequenceLag (8).           *)
HistoryCoversLag == MaxAckLag < HistoryDepth

(* A frame with this number and flag is in the dispatch history.            *)
Recorded(h, q, enable) ==
  \E i \in 1..Len(h) : h[i].sequence = q /\ h[i].enable = enable

(* Such a frame left in session s, and the history has it, or it lies       *)
(* further back than the history is deep.                                   *)
Dispatched(s, q, enable) ==
  /\ s.dispatched # NoSequence /\ q <= s.dispatched
  /\ Recorded(s.history, q, enable) \/ q + HistoryDepth <= s.dispatched

(* Each frame has a number of its own, so that as many numbers as frames    *)
(* lie between one of them and the last.                                    *)
InOrder(h, boot, last) ==
  \A i \in 1..Len(h) :
    h[i].boot = boot /\ h[i].sequence + (Len(h) - i) <= last

Acknowledges(s, received, applied) ==
  s.ack_received # NoSequence => s.ack_received <= received /\ s.ack_applied <= applied

(* What the session's own record promises, with its boot ID.                *)
RecordInv(s, boot) ==
  IF s.dispatched = NoSequence
    THEN s.history = << >> /\ s.ack_received = NoSequence
    ELSE /\ s.dispatched <= LastSequence
         /\ InOrder(s.history, boot, s.dispatched)
         /\ Acknowledges(s, s.dispatched, s.dispatched)

(* What the board has accepted, and what drives its outputs.                *)
Staged(m) == [session |-> m.session, sequence |-> m.received, enable |-> m.staged]
Output(m) == [session |-> m.latched, sequence |-> m.applied, enable |-> m.outputs]

(* What is found of session s has left in it, and is not behind what was    *)
(* acknowledged.                                                            *)
Known(s, r) == r.session = s.id => Dispatched(s, r.sequence, r.enable)

AppliedFloor(s, r) ==
  r.session = s.id /\ s.ack_received # NoSequence => s.ack_applied <= r.sequence

ReceivedFloor(s, r) ==
  r.session = s.id /\ s.ack_received # NoSequence => s.ack_received <= r.sequence

Fits(s, r) == Known(s, r) /\ AppliedFloor(s, r)

(* On the way from the bridge to the board and back nothing overtakes.      *)
Ahead(id, a, b) == a.session = id /\ b.session = id => b.sequence <= a.sequence

AheadOfAll(id, a, b, c, d) ==
  Ahead(id, a, b) /\ Ahead(id, a, c) /\ Ahead(id, a, d)

(* Of a frame being written, one on the wire, the one accepted and the one  *)
(* latched by the board, and the two that a report tells of.  The report of *)
(* a transition gives a number of another session for the latter, so what   *)
(* is latched must not lie behind the one it accepted.                      *)
Chain(s, writing, sent, accepted, latched, received, applied, settled) ==
  /\ Fits(s, writing) /\ Fits(s, sent) /\ Fits(s, accepted)
  /\ Fits(s, latched) /\ Fits(s, received) /\ Fits(s, applied)
  /\ ReceivedFloor(s, writing) /\ ReceivedFloor(s, sent)
  /\ ReceivedFloor(s, accepted) /\ ReceivedFloor(s, received)
  /\ Ahead(s.id, writing, sent) /\ AheadOfAll(s.id, writing, accepted, latched, received)
  /\ Ahead(s.id, writing, applied)
  /\ AheadOfAll(s.id, sent, accepted, latched, received) /\ Ahead(s.id, sent, applied)
  /\ AheadOfAll(s.id, accepted, latched, received, applied)
  /\ Ahead(s.id, latched, applied) /\ Ahead(s.id, received, applied)
  /\ ~settled => Ahead(s.id, latched, received)

(* The bound on a session's numbers leaves room for one neutral frame.      *)
NumbersInv ==
  /\ session.command_sequence <= IF neutral_due THEN MaxSequence ELSE LastSequence
  /\ mailbox.session = session.id => mailbox.sequence <= LastSequence
  /\ pending.session = session.id => pending.sequence <= LastSequence

Loop(s, writing, sent, m, u) ==
  Chain(s, writing, sent, Staged(m), Output(m), Staged(u), Output(u), Settled(u))

EchoInv ==
  /\ NumbersInv
  /\ RecordInv(session, link_boot)
  /\ Loop(session, active, downlink, mcu, uplink)

(* While sessions do not wrap, sequence_newer is the order of the numbers.  *)
LEMMA NewerIsGreater ==
  ASSUME SessionsDoNotWrap, NEW a \in 0..LastSequence, NEW b \in 0..LastSequence
  PROVE  /\ Newer(a, b) <=> a > b
         /\ b <= a => Distance(a, b) = a - b
<1>1. SequenceModulus \in Nat /\ SequenceModulus > 0 /\ LastSequence \in Nat
      /\ 2 * LastSequence < SequenceModulus
  BY BridgeAssumption DEF SessionsDoNotWrap, LastSequence
<1>2. CASE b <= a
  <2>1. a - b \in 0..(SequenceModulus - 1) /\ 2 * (a - b) < SequenceModulus
    BY <1>1, <1>2
  <2>2. Distance(a, b) = a - b
    BY <1>1, <2>1, Remainders DEF Distance
  <2> QED BY <1>1, <1>2, <2>1, <2>2 DEF Newer
<1>3. CASE a < b
  <2> DEFINE x == SequenceModulus - (b - a)
  <2>1. x \in 0..(SequenceModulus - 1) /\ x - SequenceModulus = a - b
        /\ 2 * x > SequenceModulus
    BY <1>1, <1>3
  <2> HIDE DEF x
  <2>2. (x - SequenceModulus) % SequenceModulus = x
    BY <1>1, <2>1, Remainders
  <2>3. Distance(a, b) = x
    BY <2>1, <2>2 DEF Distance
  <2> QED BY <1>1, <1>3, <2>1, <2>3 DEF Newer
<1> QED BY <1>1, <1>2, <1>3

LEMMA LastSequenceType ==
  ASSUME SessionsDoNotWrap
  PROVE  /\ LastSequence \in Nat /\ MaxSequence \in Nat
         /\ LastSequence = MaxSequence + 1
         /\ LastSequence + 1 < SequenceModulus
         /\ 0..LastSequence \subseteq SequenceNumbers
         /\ NoSequence \notin 0..LastSequence
  BY BridgeAssumption DEF SessionsDoNotWrap, LastSequence, SequenceNumbers, NoSequence

(* The next number is the next one.                                         *)
LEMMA NextIsNext ==
  ASSUME SessionsDoNotWrap, NEW s, s.command_sequence \in 0..LastSequence
  PROVE  NextSequence(s) = s.command_sequence + 1
<1>1. s.command_sequence + 1 \in 0..(SequenceModulus - 1)
  BY LastSequenceType, BridgeAssumption
<1>2. SequenceModulus \in Nat /\ SequenceModulus > 0
  BY BridgeAssumption
<1> QED BY <1>1, <1>2, Remainders DEF NextSequence

(* The frame that drops out of the history lies further back than its depth.*)
LEMMA RecentEntries ==
  ASSUME NEW h \in Seq(Request), Len(h) <= HistoryDepth, NEW f \in Request
  PROVE  LET n == Len(h)
             kept == Recent(Append(h, f))
         IN \/ /\ Len(kept) = n + 1
               /\ \A i \in 1..n : kept[i] = h[i]
               /\ kept[n + 1] = f
            \/ /\ n = HistoryDepth /\ Len(kept) = n /\ n > 0
               /\ \A i \in 1..(n - 1) : kept[i] = h[i + 1]
               /\ kept[n] = f
<1> DEFINE g == Append(h, f)
           n == Len(h)
<1>1. g \in Seq(Request) /\ Len(g) = n + 1 /\ (\A i \in 1..n : g[i] = h[i])
      /\ g[n + 1] = f /\ n \in Nat
  OBVIOUS
<1>2. HistoryDepth \in Nat /\ HistoryDepth > 0
  BY BridgeAssumption
<1> HIDE DEF g
<1>3. CASE Len(g) > HistoryDepth
  <2>1. Recent(g) = Tail(g) /\ n = HistoryDepth /\ n > 0
    BY <1>1, <1>2, <1>3 DEF Recent
  <2>2. Len(Tail(g)) = n /\ \A i \in 1..n : Tail(g)[i] = g[i + 1]
    BY <1>1, <2>1
  <2>3. \A i \in 1..(n - 1) : Tail(g)[i] = h[i + 1]
    BY <1>1, <2>2
  <2>4. Tail(g)[n] = f
    BY <1>1, <2>1, <2>2
  <2> QED BY <2>1, <2>2, <2>3, <2>4 DEF g
<1>4. CASE ~(Len(g) > HistoryDepth)
  <2>1. Recent(g) = g
    BY <1>4 DEF Recent
  <2> QED BY <1>1, <2>1 DEF g
<1> QED BY <1>3, <1>4

LEMMA OneFurther ==
  ASSUME NEW q \in Nat, NEW n \in Nat, NEW i \in Nat, NEW last \in Nat,
         NEW newest \in Nat, q + (n - (i + 1)) <= last, newest > last
  PROVE  q + (n - i) <= newest
OBVIOUS

LEMMA HistoryGrows ==
  ASSUME NEW h \in Seq(Request), Len(h) <= HistoryDepth, NEW f \in Request,
         NEW last \in Nat, NEW boot, f.sequence > last, f.boot = boot,
         InOrder(h, boot, last), NEW kept, kept = Recent(Append(h, f))
  PROVE  /\ InOrder(kept, boot, f.sequence)
         /\ \A q, e : Recorded(h, q, e)
              => Recorded(kept, q, e) \/ q + HistoryDepth <= f.sequence
         /\ Recorded(kept, f.sequence, f.enable)
<1> DEFINE n == Len(h)
<1>1. n \in Nat /\ (\A i \in 1..n : h[i] \in Request) /\ f.sequence \in Nat
      /\ \A i \in 1..n : h[i].sequence \in Nat
  <2>1. \A r \in Request : r.sequence \in Nat
    BY BridgeAssumption DEF Request, SequenceNumbers
  <2> QED BY <2>1
<1>2. \/ /\ Len(kept) = n + 1
         /\ \A i \in 1..n : kept[i] = h[i]
         /\ kept[n + 1] = f
      \/ /\ n = HistoryDepth /\ Len(kept) = n /\ n > 0
         /\ \A i \in 1..(n - 1) : kept[i] = h[i + 1]
         /\ kept[n] = f
  BY RecentEntries
<1>3. \A i \in 1..n : h[i].boot = boot /\ h[i].sequence + (n - i) <= last
  BY DEF InOrder
<1> HIDE DEF n
<1>4. CASE /\ Len(kept) = n + 1
           /\ \A i \in 1..n : kept[i] = h[i]
           /\ kept[n + 1] = f
  <2>1. ASSUME NEW i \in 1..Len(kept)
        PROVE  kept[i].boot = boot /\ kept[i].sequence + (Len(kept) - i) <= f.sequence
    <3>1. CASE i = n + 1
      BY <1>1, <1>4, <3>1
    <3>2. CASE i \in 1..n
      <4>1. kept[i] = h[i] /\ h[i].sequence + (n - i) <= last /\ h[i].boot = boot
        BY <1>3, <1>4, <3>2
      <4> QED BY <1>1, <1>4, <3>2, <4>1
    <3> QED BY <1>1, <1>4, <3>1, <3>2
  <2>2. ASSUME NEW q, NEW e, NEW i \in 1..n, h[i].sequence = q, h[i].enable = e
        PROVE  \E j \in 1..Len(kept) : kept[j].sequence = q /\ kept[j].enable = e
    BY <1>1, <1>4, <2>2
  <2>3. \E j \in 1..Len(kept) :
           kept[j].sequence = f.sequence /\ kept[j].enable = f.enable
    BY <1>1, <1>4
  <2>4. \A q, e : (\E i \in 1..n : h[i].sequence = q /\ h[i].enable = e)
              => \/ \E i \in 1..Len(kept) : kept[i].sequence = q /\ kept[i].enable = e
                 \/ q + HistoryDepth <= f.sequence
    BY <2>2
  <2> QED BY <2>1, <2>3, <2>4 DEF n, InOrder, Recorded
<1>5. CASE /\ n = HistoryDepth /\ Len(kept) = n /\ n > 0
           /\ \A i \in 1..(n - 1) : kept[i] = h[i + 1]
           /\ kept[n] = f
  <2>1. ASSUME NEW i \in 1..Len(kept)
        PROVE  kept[i].boot = boot /\ kept[i].sequence + (Len(kept) - i) <= f.sequence
    <3>1. CASE i = n
      BY <1>1, <1>5, <3>1
    <3>2. CASE i \in 1..(n - 1)
      <4>1. i + 1 \in 1..n /\ kept[i] = h[i + 1]
        BY <1>1, <1>5, <3>2
      <4>2. h[i + 1].sequence + (n - (i + 1)) <= last /\ h[i + 1].boot = boot
            /\ h[i + 1].sequence \in Nat
        BY <1>1, <1>3, <4>1
      <4>3. i \in Nat /\ n \in Nat /\ f.sequence \in Nat /\ Len(kept) = n
        BY <1>1, <1>5, <3>2
      <4>4. h[i + 1].sequence + (n - i) <= f.sequence
        BY <4>2, <4>3, OneFurther
      <4> QED BY <4>1, <4>2, <4>3, <4>4, Zenon
    <3> QED BY <1>1, <1>5, <3>1, <3>2
  <2>2. ASSUME NEW q, NEW e, NEW i \in 1..n, h[i].sequence = q, h[i].enable = e
        PROVE  \/ \E j \in 1..Len(kept) : kept[j].sequence = q /\ kept[j].enable = e
               \/ q + HistoryDepth <= f.sequence
    <3>1. CASE i = 1
      <4>1. h[1].sequence + (n - 1) <= last
        BY <1>1, <1>3, <1>5
      <4>2. q \in Nat /\ q = h[1].sequence
        BY <1>1, <2>2, <3>1
      <4> QED BY <1>1, <1>5, <4>1, <4>2
    <3>2. CASE i # 1
      <4>1. i - 1 \in 1..(n - 1) /\ (i - 1) + 1 = i
        BY <1>1, <3>2
      <4>2. kept[i - 1] = h[i]
        BY <1>5, <4>1
      <4>3. i - 1 \in 1..Len(kept)
        BY <1>1, <1>5, <4>1
      <4> QED BY <2>2, <4>2, <4>3
    <3> QED BY <3>1, <3>2
  <2>3. \E j \in 1..Len(kept) :
           kept[j].sequence = f.sequence /\ kept[j].enable = f.enable
    BY <1>1, <1>5
  <2> QED BY <2>1, <2>2, <2>3 DEF n, InOrder, Recorded
<1> QED BY <1>2, <1>4, <1>5

LEMMA SequenceTypes ==
  /\ SequenceNumbers \subseteq Nat /\ NoSequence \in Nat /\ 0 \in SequenceNumbers
  /\ NoSequence \notin SequenceNumbers
  /\ HistoryDepth \in Nat
  BY BridgeAssumption DEF SequenceNumbers, NoSequence

LEMMA NumberTypes ==
  ASSUME NEW q \in SequenceNumbers
  PROVE  q \in Nat /\ q # NoSequence /\ q < NoSequence
  BY BridgeAssumption DEF SequenceNumbers, NoSequence

LEMMA RequestNumbers ==
  ASSUME NEW r \in Request
  PROVE  r.sequence \in SequenceNumbers /\ r.sequence \in Nat /\ r.sequence # NoSequence
<1>1. r.sequence \in SequenceNumbers
  BY DEF Request
<1> QED BY <1>1, NumberTypes

LEMMA Less ==
  ASSUME NEW a \in Nat, NEW b \in Nat, NEW c \in Nat, a <= b, b < c
  PROVE  a <= c /\ a < c /\ b <= c
  OBVIOUS

LEMMA LessBy ==
  ASSUME NEW a \in Nat, NEW b \in Nat, NEW c \in Nat, NEW n \in Nat,
         a + n <= b, b <= c
  PROVE  a + n <= c
  OBVIOUS

(* A frame that leaves joins the record, and nothing is lost that the       *)
(* history is deep enough for.                                              *)
LEMMA RecordGrows ==
  ASSUME SessionsDoNotWrap, NEW s, GoodSession(s), NEW boot, RecordInv(s, boot),
         NEW f \in Request, f.boot = boot, f.sequence <= LastSequence,
         s.dispatched = NoSequence \/ Newer(f.sequence, s.dispatched),
         NEW t, t.dispatched = f.sequence, t.history = Recent(Append(s.history, f)),
         t.ack_received = s.ack_received, t.ack_applied = s.ack_applied
  PROVE  /\ RecordInv(t, boot)
         /\ \A q \in SequenceNumbers : \A e : Dispatched(s, q, e) => Dispatched(t, q, e)
         /\ Dispatched(t, f.sequence, f.enable)
         /\ s.dispatched # NoSequence => s.dispatched <= f.sequence
<1> DEFINE kept == Recent(Append(s.history, f))
<1>1. /\ s.history \in Seq(Request) /\ Len(s.history) <= HistoryDepth
      /\ s.dispatched \in SequenceNumbers \cup {NoSequence}
      /\ s.ack_received \in SequenceNumbers \cup {NoSequence}
      /\ s.ack_applied \in SequenceNumbers \cup {NoSequence}
  BY DEF GoodSession, SessionType
<1>2. f.sequence \in Nat /\ f.sequence # NoSequence /\ HistoryDepth \in Nat
      /\ f.sequence <= f.sequence
  BY RequestNumbers, SequenceTypes
<1> HIDE DEF kept
<1>3. t.history = kept
  BY DEF kept
<1>4. CASE s.dispatched # NoSequence
  <2>1. s.dispatched \in Nat /\ s.dispatched <= LastSequence
    <3>1. s.dispatched \in SequenceNumbers
      BY <1>1, <1>4
    <3> QED BY <1>4, <3>1, NumberTypes DEF RecordInv
  <2>2. s.dispatched \in 0..LastSequence /\ f.sequence \in 0..LastSequence
    BY <1>2, <2>1, LastSequenceType
  <2>3. s.dispatched < f.sequence
    <3>1. Newer(f.sequence, s.dispatched)
      BY <1>4
    <3>2. f.sequence > s.dispatched
      BY <2>2, <3>1, NewerIsGreater
    <3> QED BY <1>2, <2>1, <3>2
  <2>4. s.dispatched <= f.sequence /\ f.sequence > s.dispatched
    BY <1>2, <2>1, <2>3
  <2>5. InOrder(s.history, boot, s.dispatched)
    BY <1>4 DEF RecordInv
  <2>6. /\ InOrder(kept, boot, f.sequence)
        /\ \A q, e : Recorded(s.history, q, e)
              => Recorded(kept, q, e) \/ q + HistoryDepth <= f.sequence
        /\ Recorded(kept, f.sequence, f.enable)
    <3>1. kept = Recent(Append(s.history, f))
      BY DEF kept
    <3> QED BY <1>1, <2>1, <2>4, <2>5, <3>1, HistoryGrows
  <2>8. ASSUME NEW q \in SequenceNumbers, NEW e, Dispatched(s, q, e)
        PROVE  Dispatched(t, q, e)
    <3>1. q \in Nat /\ q <= s.dispatched
      BY <2>8, NumberTypes DEF Dispatched
    <3>2. q <= f.sequence
      BY <1>2, <2>1, <2>3, <3>1, Less
    <3>3. CASE q + HistoryDepth <= s.dispatched
      <4>1. q + HistoryDepth <= f.sequence
        BY <1>2, <2>1, <2>4, <3>1, <3>3, LessBy
      <4> QED BY <1>2, <3>2, <4>1 DEF Dispatched
    <3>4. CASE Recorded(s.history, q, e)
      <4>1. Recorded(kept, q, e) \/ q + HistoryDepth <= f.sequence
        BY <2>6, <3>4
      <4> QED BY <1>2, <1>3, <3>2, <4>1 DEF Dispatched
    <3> QED BY <2>8, <3>3, <3>4 DEF Dispatched
  <2>9. Dispatched(t, f.sequence, f.enable)
    BY <1>2, <1>3, <2>6 DEF Dispatched
  <2>10. Acknowledges(t, f.sequence, f.sequence)
    <3>1. CASE s.ack_received # NoSequence
      <4>1. s.ack_received <= s.dispatched /\ s.ack_applied <= s.dispatched
        BY <1>4, <3>1 DEF RecordInv, Acknowledges
      <4>2. s.ack_received \in Nat /\ s.ack_applied \in Nat
        BY <1>1, <2>1, NumberTypes, SequenceTypes
      <4> QED BY <1>2, <2>1, <2>3, <4>1, <4>2, Less DEF Acknowledges
    <3> QED BY <3>1 DEF Acknowledges
  <2>11. RecordInv(t, boot)
    BY <1>2, <1>3, <2>6, <2>10 DEF RecordInv
  <2> QED BY <2>4, <2>8, <2>9, <2>11
<1>5. CASE s.dispatched = NoSequence
  <2>1. s.history = << >> /\ s.ack_received = NoSequence
    BY <1>5 DEF RecordInv
  <2>2. Len(kept) = 1 /\ kept[1] = f
    <3>1. Append(s.history, f) = <<f>> /\ Len(<<f>>) = 1
      BY <2>1
    <3>2. ~(Len(<<f>>) > HistoryDepth)
      BY <3>1, BridgeAssumption
    <3>3. kept = <<f>>
      BY <3>1, <3>2 DEF kept, Recent
    <3> QED BY <3>3
  <2>3. \A i \in 1..Len(kept) : i = 1
    BY <2>2
  <2>4. f.sequence + (1 - 1) <= f.sequence
    BY <1>2
  <2>5. InOrder(kept, boot, f.sequence)
    BY <2>2, <2>3, <2>4 DEF InOrder
  <2>6. 1 \in 1..Len(kept)
    BY <2>2
  <2>7. Dispatched(t, f.sequence, f.enable)
    BY <1>2, <1>3, <2>2, <2>6 DEF Dispatched, Recorded
  <2>8. \A q, e : ~Dispatched(s, q, e)
    BY <1>5 DEF Dispatched
  <2>9. RecordInv(t, boot)
    BY <1>2, <1>3, <2>1, <2>5 DEF RecordInv, Acknowledges
  <2> QED BY <1>5, <2>7, <2>8, <2>9
<1> QED BY <1>4, <1>5

LEMMA StartWriteRecords ==
  ASSUME SessionsDoNotWrap, NEW s, GoodSession(s), NEW boot, RecordInv(s, boot),
         NEW r \in Request,
         r.session = s.id => r.boot = boot /\ r.sequence <= LastSequence,
         StartWrite(s, r)
  PROVE  /\ session'.id = s.id
         /\ session'.command_sequence = s.command_sequence
         /\ session'.ack_received = s.ack_received
         /\ session'.ack_applied = s.ack_applied
         /\ RecordInv(session', boot)
         /\ \A q \in SequenceNumbers : \A e :
              Dispatched(s, q, e) => Dispatched(session', q, e)
         /\ \/ active' = NoRequest
            \/ /\ active' \in Request
               /\ Dispatched(session', active'.sequence, active'.enable)
               /\ s.dispatched # NoSequence => s.dispatched <= active'.sequence
               /\ active'.sequence = session'.dispatched
<1>1. CASE ~Dispatchable(s, r)
  BY <1>1 DEF StartWrite
<1>2. CASE Dispatchable(s, r)
  <2> DEFINE frame == Sent(s, r)
             hs == IF ~frame.enable /\ s.handshake = NoSequence
                     THEN r.sequence ELSE s.handshake
             kept == Recent(Append(s.history, frame))
  <2>1. /\ active' = frame
        /\ session' = [s EXCEPT !.dispatched = r.sequence, !.handshake = hs,
                                !.history = kept]
    BY <1>2 DEF StartWrite
  <2>2. /\ frame \in Request /\ frame.sequence = r.sequence /\ frame.boot = r.boot
    BY SentType
  <2>3. s \in SessionType
    BY DEF GoodSession
  <2>4. r.session = s.id /\ r.boot = boot /\ r.sequence <= LastSequence
        /\ (s.dispatched = NoSequence \/ Newer(r.sequence, s.dispatched))
    BY <1>2 DEF Dispatchable
  <2>5. kept = Recent(Append(s.history, frame))
    OBVIOUS
  <2> HIDE DEF frame, hs, kept
  <2>6. /\ session'.id = s.id
        /\ session'.command_sequence = s.command_sequence
        /\ session'.ack_received = s.ack_received
        /\ session'.ack_applied = s.ack_applied
        /\ session'.dispatched = r.sequence
        /\ session'.history = kept
    BY <2>1, <2>3 DEF SessionType
  <2>7. frame.sequence <= LastSequence /\ frame.boot = boot
        /\ (s.dispatched = NoSequence \/ Newer(frame.sequence, s.dispatched))
    BY <2>2, <2>4
  <2>8. session'.dispatched = frame.sequence
        /\ session'.history = Recent(Append(s.history, frame))
    BY <2>2, <2>5, <2>6
  <2>9. /\ RecordInv(session', boot)
        /\ \A q \in SequenceNumbers : \A e : Dispatched(s, q, e) => Dispatched(session', q, e)
        /\ Dispatched(session', frame.sequence, frame.enable)
        /\ s.dispatched # NoSequence => s.dispatched <= frame.sequence
    BY <2>2, <2>6, <2>7, <2>8, RecordGrows
  <2> QED BY <2>1, <2>2, <2>6, <2>8, <2>9
<1> QED BY <1>1, <1>2

-----------------------------------------------------------------------------
(* What is on its way, step by step.                                        *)

Wired(r) == r.sequence \in SequenceNumbers

WiredBoard(m) == Wired(Staged(m)) /\ Wired(Output(m))

(* Session t is session s with more frames dispatched.                      *)
Continues(s, t) ==
  /\ t.id = s.id /\ t.ack_received = s.ack_received /\ t.ack_applied = s.ack_applied
  /\ \A q \in SequenceNumbers : \A e : Dispatched(s, q, e) => Dispatched(t, q, e)

LEMMA ContinuesItself ==
  ASSUME NEW s
  PROVE  Continues(s, s)
  BY DEF Continues

LEMMA FitsStill ==
  ASSUME NEW s, NEW t, Continues(s, t), NEW r, Wired(r)
  PROVE  /\ Fits(s, r) => Fits(t, r)
         /\ ReceivedFloor(s, r) => ReceivedFloor(t, r)
  BY DEF Continues, Fits, Known, Wired, AppliedFloor, ReceivedFloor

LEMMA AheadOfItself ==
  ASSUME NEW id, NEW r, Wired(r)
  PROVE  Ahead(id, r, r)
<1>1. r.sequence \in Nat
  BY NumberTypes DEF Wired
<1> QED BY <1>1 DEF Ahead

(* Things may stay where they are.                                          *)
LEMMA ChainStays ==
  ASSUME NEW s, NEW t, Continues(s, t), NEW a, NEW b, NEW c, NEW d, NEW e, NEW f,
         NEW settled \in BOOLEAN, Chain(s, a, b, c, d, e, f, settled),
         Wired(a), Wired(b), Wired(c), Wired(d), Wired(e), Wired(f)
  PROVE  Chain(t, a, b, c, d, e, f, settled)
<1>1. t.id = s.id
  BY DEF Continues
<1>2. /\ Fits(t, a) /\ Fits(t, b) /\ Fits(t, c) /\ Fits(t, d) /\ Fits(t, e) /\ Fits(t, f)
      /\ ReceivedFloor(t, a) /\ ReceivedFloor(t, b) /\ ReceivedFloor(t, c)
      /\ ReceivedFloor(t, e)
  BY FitsStill DEF Chain
<1> QED BY <1>1, <1>2, Zenon DEF Chain

(* Or get lost.                                                             *)
Elsewhere(s, r) == r.session # s.id

LEMMA ElsewhereFits ==
  ASSUME NEW s, NEW r, Elsewhere(s, r)
  PROVE  /\ Fits(s, r) /\ ReceivedFloor(s, r)
         /\ \A x : Ahead(s.id, r, x) /\ Ahead(s.id, x, r)
  BY DEF Elsewhere, Fits, Known, AppliedFloor, ReceivedFloor, Ahead

LEMMA WritingLost ==
  ASSUME NEW s, NEW a, NEW b, NEW c, NEW d, NEW e, NEW f, NEW settled,
         Chain(s, a, b, c, d, e, f, settled), NEW r, Elsewhere(s, r)
  PROVE  Chain(s, r, b, c, d, e, f, settled)
  BY ElsewhereFits, Zenon DEF Chain, AheadOfAll

LEMMA SentLost ==
  ASSUME NEW s, NEW a, NEW b, NEW c, NEW d, NEW e, NEW f, NEW settled,
         Chain(s, a, b, c, d, e, f, settled), NEW r, Elsewhere(s, r)
  PROVE  Chain(s, a, r, c, d, e, f, settled)
  BY ElsewhereFits, Zenon DEF Chain, AheadOfAll

LEMMA AcceptedLost ==
  ASSUME NEW s, NEW a, NEW b, NEW c, NEW d, NEW e, NEW f, NEW settled,
         Chain(s, a, b, c, d, e, f, settled), NEW r, Elsewhere(s, r)
  PROVE  Chain(s, a, b, r, d, e, f, settled)
  BY ElsewhereFits, Zenon DEF Chain, AheadOfAll

LEMMA LatchedLost ==
  ASSUME NEW s, NEW a, NEW b, NEW c, NEW d, NEW e, NEW f, NEW settled,
         Chain(s, a, b, c, d, e, f, settled), NEW r, Elsewhere(s, r)
  PROVE  Chain(s, a, b, c, r, e, f, settled)
  BY ElsewhereFits, Zenon DEF Chain, AheadOfAll

LEMMA ReportLost ==
  ASSUME NEW s, NEW a, NEW b, NEW c, NEW d, NEW e, NEW f, NEW settled,
         Chain(s, a, b, c, d, e, f, settled),
         NEW r, Elsewhere(s, r), NEW q, Elsewhere(s, q), NEW now
  PROVE  Chain(s, a, b, c, d, r, q, now)
  BY ElsewhereFits, Zenon DEF Chain, AheadOfAll

(* A frame whose number is the last one is ahead of all.                    *)
LEMMA NewestIsAhead ==
  ASSUME NEW s, s.dispatched \in SequenceNumbers \cup {NoSequence},
         NEW r, Wired(r), Known(s, r), NEW a, Wired(a),
         s.dispatched # NoSequence => s.dispatched <= a.sequence
  PROVE  Ahead(s.id, a, r)
<1> SUFFICES ASSUME r.session = s.id
             PROVE  r.sequence <= a.sequence
  BY DEF Ahead
<1>1. s.dispatched # NoSequence /\ r.sequence <= s.dispatched
  BY DEF Known, Dispatched
<1>2. s.dispatched \in Nat /\ a.sequence \in Nat /\ r.sequence \in Nat
  BY <1>1, NumberTypes DEF Wired
<1> QED BY <1>1, <1>2

LEMMA ChainStarts ==
  ASSUME NEW s, NEW t, Continues(s, t), s.dispatched \in SequenceNumbers \cup {NoSequence},
         NEW a, NEW b, NEW c, NEW d, NEW e, NEW f, NEW settled \in BOOLEAN,
         Chain(s, a, b, c, d, e, f, settled),
         Wired(b), Wired(c), Wired(d), Wired(e), Wired(f),
         NEW r, Wired(r), Fits(t, r), ReceivedFloor(t, r),
         s.dispatched # NoSequence => s.dispatched <= r.sequence
  PROVE  Chain(t, r, b, c, d, e, f, settled)
<1>1. t.id = s.id
  BY DEF Continues
<1>2. /\ Known(s, b) /\ Known(s, c) /\ Known(s, d) /\ Known(s, e) /\ Known(s, f)
  BY DEF Chain, Fits
<1>3. /\ Ahead(s.id, r, b) /\ Ahead(s.id, r, c) /\ Ahead(s.id, r, d)
      /\ Ahead(s.id, r, e) /\ Ahead(s.id, r, f)
  BY <1>2, NewestIsAhead
<1>4. /\ Fits(t, b) /\ Fits(t, c) /\ Fits(t, d) /\ Fits(t, e) /\ Fits(t, f)
      /\ ReceivedFloor(t, b) /\ ReceivedFloor(t, c) /\ ReceivedFloor(t, e)
  BY FitsStill DEF Chain
<1> QED BY <1>1, <1>3, <1>4, Zenon DEF Chain, AheadOfAll

(* The write completes.                                                     *)
LEMMA ChainSends ==
  ASSUME NEW s, NEW a, NEW b, NEW c, NEW d, NEW e, NEW f, NEW settled,
         Chain(s, a, b, c, d, e, f, settled), NEW r, Elsewhere(s, r)
  PROVE  Chain(s, r, a, c, d, e, f, settled)
  BY ElsewhereFits, Zenon DEF Chain, AheadOfAll

(* The board accepts the frame.                                             *)
LEMMA ChainAccepts ==
  ASSUME NEW s, NEW a, NEW b, NEW c, NEW d, NEW e, NEW f, NEW settled,
         Chain(s, a, b, c, d, e, f, settled), NEW r, Elsewhere(s, r)
  PROVE  Chain(s, a, r, b, d, e, f, settled)
  BY ElsewhereFits, Zenon DEF Chain, AheadOfAll

(* It crosses a PWM boundary.                                               *)
LEMMA ChainApplies ==
  ASSUME NEW s, NEW a, NEW b, NEW c, NEW d, NEW e, NEW f, NEW settled,
         Chain(s, a, b, c, d, e, f, settled), Wired(c)
  PROVE  Chain(s, a, b, c, c, e, f, settled)
  BY AheadOfItself, Zenon DEF Chain, AheadOfAll

(* The board reports: a transition when the two belong to two sessions.     *)
LEMMA ChainReports ==
  ASSUME NEW s, NEW a, NEW b, NEW c, NEW d, NEW e, NEW f, NEW settled,
         Chain(s, a, b, c, d, e, f, settled), Wired(c), Wired(d), NEW now,
         ~now => c.session # d.session
  PROVE  Chain(s, a, b, c, d, c, d, now)
<1>1. ~now => Ahead(s.id, d, c)
  BY DEF Ahead
<1> QED BY <1>1, AheadOfItself, Zenon DEF Chain, AheadOfAll

(* The report becomes the new floor.                                        *)
LEMMA NewFloor ==
  ASSUME NEW s, NEW t, t.id = s.id, t.dispatched = s.dispatched, t.history = s.history,
         NEW e, NEW applied \in SequenceNumbers, Wired(e), e.session = s.id,
         t.ack_received = e.sequence, t.ack_applied = applied,
         applied <= e.sequence, NEW r, Wired(r), Fits(s, r), Ahead(s.id, r, e)
  PROVE  Fits(t, r) /\ ReceivedFloor(t, r)
<1>1. Known(t, r)
  BY DEF Fits, Known, Dispatched
<1>2. CASE r.session # s.id
  BY <1>1, <1>2 DEF Fits, AppliedFloor, ReceivedFloor
<1>3. CASE r.session = s.id
  <2>1. e.sequence <= r.sequence
    BY <1>3 DEF Ahead
  <2>2. e.sequence \in Nat /\ r.sequence \in Nat /\ applied \in Nat
    BY NumberTypes DEF Wired
  <2>3. applied <= r.sequence
    BY <2>1, <2>2
  <2> QED BY <1>1, <2>1, <2>3 DEF Fits, AppliedFloor, ReceivedFloor
<1> QED BY <1>2, <1>3

LEMMA NewAppliedFloor ==
  ASSUME NEW s, NEW t, t.id = s.id, t.dispatched = s.dispatched, t.history = s.history,
         NEW f, f.session = s.id, t.ack_applied = f.sequence,
         NEW r, Fits(s, r), Ahead(s.id, r, f)
  PROVE  Fits(t, r)
  BY DEF Fits, Known, Dispatched, AppliedFloor, Ahead

LEMMA ChainAcknowledges ==
  ASSUME NEW s, NEW a, NEW b, NEW c, NEW d, NEW e, NEW f, NEW settled \in BOOLEAN,
         Chain(s, a, b, c, d, e, f, settled),
         Wired(a), Wired(b), Wired(c), Wired(d), Wired(e), Wired(f),
         e.session = s.id, settled => f.session = s.id, f.sequence <= e.sequence,
         NEW t, t.id = s.id, t.dispatched = s.dispatched, t.history = s.history,
         t.ack_received = e.sequence, t.ack_applied = f.sequence,
         NEW r, Elsewhere(s, r), NEW q, Elsewhere(s, q), NEW now
  PROVE  Chain(t, a, b, c, d, r, q, now)
<1>1. f.sequence \in SequenceNumbers
  BY DEF Wired
<1>2. /\ Ahead(s.id, a, e) /\ Ahead(s.id, b, e) /\ Ahead(s.id, c, e)
      /\ Fits(s, a) /\ Fits(s, b) /\ Fits(s, c) /\ Fits(s, d)
      /\ Ahead(s.id, d, f) /\ (~settled => Ahead(s.id, d, e))
  BY DEF Chain, AheadOfAll
<1>3. /\ Fits(t, a) /\ Fits(t, b) /\ Fits(t, c)
      /\ ReceivedFloor(t, a) /\ ReceivedFloor(t, b) /\ ReceivedFloor(t, c)
  BY <1>1, <1>2, NewFloor
<1>4. Fits(t, d)
  <2>1. CASE settled
    BY <1>2, <2>1, NewAppliedFloor
  <2>2. CASE ~settled
    BY <1>1, <1>2, <2>2, NewFloor
  <2> QED BY <2>1, <2>2
<1>5. /\ Fits(t, r) /\ ReceivedFloor(t, r) /\ Fits(t, q)
      /\ \A x : /\ Ahead(s.id, r, x) /\ Ahead(s.id, x, r)
                /\ Ahead(s.id, q, x) /\ Ahead(s.id, x, q)
  BY ElsewhereFits DEF Elsewhere
<1> QED BY <1>3, <1>4, <1>5, Zenon DEF Chain, AheadOfAll

-----------------------------------------------------------------------------
(* The places themselves.                                                   *)

LEMMA GoodNumbers ==
  ASSUME NEW r, GoodRequest(r)
  PROVE  Wired(r)
<1>1. CASE r = NoRequest
  BY <1>1, SequenceTypes DEF NoRequest, Wired
<1>2. CASE r \in Request
  BY <1>2, RequestNumbers DEF Wired
<1> QED BY <1>1, <1>2 DEF GoodRequest

LEMMA BoardNumbers ==
  ASSUME NEW m, m = NoReport \/ m \in Mcu
  PROVE  WiredBoard(m)
<1>1. m.received \in SequenceNumbers /\ m.applied \in SequenceNumbers
  BY SequenceTypes DEF NoReport, NeutralBoard, Mcu
<1> QED BY <1>1 DEF WiredBoard, Wired, Staged, Output

LEMMA WireTypes ==
  ASSUME SlotInv, LinkTypes
  PROVE  /\ Wired(active) /\ Wired(downlink) /\ WiredBoard(mcu) /\ WiredBoard(uplink)
         /\ Wired(Staged(mcu)) /\ Wired(Output(mcu))
         /\ Wired(Staged(uplink)) /\ Wired(Output(uplink))
         /\ Settled(uplink) \in BOOLEAN
<1>1. GoodRequest(active) /\ GoodRequest(downlink)
  BY DEF SlotInv, BoundSlots, Bound, LinkTypes
<1>2. WiredBoard(mcu) /\ WiredBoard(uplink)
  BY BoardNumbers DEF LinkTypes
<1>3. Settled(uplink) \in BOOLEAN
  BY DEF Settled
<1> QED BY <1>1, <1>2, <1>3, GoodNumbers DEF WiredBoard

LEMMA NothingIsElsewhere ==
  ASSUME NEW s, s.id \in Sessions
  PROVE  /\ NoRequest.session # s.id /\ NoSession # s.id
         /\ Elsewhere(s, NoRequest)
         /\ Elsewhere(s, Staged(NoReport)) /\ Elsewhere(s, Output(NoReport))
  BY BridgeAssumption DEF NoRequest, NoReport, NeutralBoard, Staged, Output, Elsewhere

LEMMA SessionId ==
  ASSUME SlotInv
  PROVE  /\ session.id \in Sessions
         /\ session.command_sequence \in SequenceNumbers
         /\ session.dispatched \in SequenceNumbers \cup {NoSequence}
         /\ session.ack_applied \in SequenceNumbers \cup {NoSequence}
  BY DEF SlotInv, GoodSession, SessionType

LEMMA LoopContinues ==
  ASSUME SlotInv, LinkTypes, NEW s, NEW t, Continues(s, t),
         Loop(s, active, downlink, mcu, uplink)
  PROVE  Loop(t, active, downlink, mcu, uplink)
<1>1. Chain(s, active, downlink, Staged(mcu), Output(mcu), Staged(uplink),
            Output(uplink), Settled(uplink))
  BY DEF Loop
<1>2. Chain(t, active, downlink, Staged(mcu), Output(mcu), Staged(uplink),
            Output(uplink), Settled(uplink))
  BY <1>1, WireTypes, ChainStays
<1> QED BY <1>2 DEF Loop

(* What a place may come to hold: what it held, or nothing of the session.  *)
BoardKeeps(m) ==
  /\ Staged(m) = Staged(mcu) \/ Elsewhere(session, Staged(m))
  /\ Output(m) = Output(mcu) \/ Elsewhere(session, Output(m))

LEMMA LoopLoses ==
  ASSUME SlotInv, Loop(session, active, downlink, mcu, uplink),
         NEW a \in {active, NoRequest}, NEW b \in {downlink, NoRequest},
         NEW m, BoardKeeps(m), NEW u \in {uplink, NoReport}
  PROVE  Loop(session, a, b, m, u)
<1>0. session.id \in Sessions
  BY SessionId
<1> DEFINE C == Staged(mcu)
           D == Output(mcu)
           E == Staged(uplink)
           F == Output(uplink)
           N == Settled(uplink)
<1>1. Chain(session, active, downlink, C, D, E, F, N)
  BY DEF Loop
<1> HIDE DEF C, D, E, F, N
<1>2. Chain(session, a, downlink, C, D, E, F, N)
  BY <1>0, <1>1, NothingIsElsewhere, WritingLost
<1>3. Chain(session, a, b, C, D, E, F, N)
  BY <1>0, <1>2, NothingIsElsewhere, SentLost
<1>4. Chain(session, a, b, Staged(m), D, E, F, N)
  <2>1. Staged(m) = C \/ Elsewhere(session, Staged(m))
    BY DEF BoardKeeps, C
  <2> QED BY <1>3, <2>1, AcceptedLost
<1>5. Chain(session, a, b, Staged(m), Output(m), E, F, N)
  <2>1. Output(m) = D \/ Elsewhere(session, Output(m))
    BY DEF BoardKeeps, D
  <2> QED BY <1>4, <2>1, LatchedLost
<1>6. CASE u = uplink
  BY <1>5, <1>6 DEF Loop, E, F, N
<1>7. CASE u = NoReport
  BY <1>0, <1>5, <1>7, NothingIsElsewhere, ReportLost DEF Loop
<1> QED BY <1>6, <1>7

(* Steps that leave the session alone, and lose things or not.              *)
LEMMA EchoKept ==
  ASSUME SlotInv, LinkTypes, EchoInv, session' = session, link_boot' = link_boot,
         neutral_due' => neutral_due,
         mailbox' \in {mailbox, NoRequest}, pending' \in {pending, NoRequest},
         active' \in {active, NoRequest}, downlink' \in {downlink, NoRequest},
         mcu' = mcu \/ BoardKeeps(mcu'), uplink' \in {uplink, NoReport}
  PROVE  EchoInv'
<1>1. session.id \in Sessions
  BY SessionId
<1>2. NumbersInv'
  <2>1. session.command_sequence \in Nat
    BY SessionId, NumberTypes
  <2>2. session.command_sequence <= MaxSequence => session.command_sequence <= LastSequence
    BY <2>1, BridgeAssumption DEF LastSequence
  <2> QED BY <1>1, <2>2, NothingIsElsewhere DEF EchoInv, NumbersInv
<1>3. RecordInv(session', link_boot')
  BY DEF EchoInv
<1>4. Loop(session', active', downlink', mcu', uplink')
  <2>1. BoardKeeps(mcu')
    BY DEF BoardKeeps
  <2>2. Loop(session, active, downlink, mcu, uplink)
    BY DEF EchoInv
  <2>3. Loop(session, active', downlink', mcu', uplink')
    BY <2>1, <2>2, LoopLoses
  <2> QED BY <2>3
<1> QED BY <1>2, <1>3, <1>4 DEF EchoInv

(* The record of a session that has just begun.                             *)
Begins(s) ==
  /\ s.dispatched = NoSequence /\ s.history = << >> /\ s.ack_received = NoSequence

(* Nothing of the session is anywhere.                                      *)
LEMMA NothingChains ==
  ASSUME NEW s, NEW a, NEW b, NEW c, NEW d, NEW e, NEW f, NEW settled,
         Elsewhere(s, a), Elsewhere(s, b), Elsewhere(s, c), Elsewhere(s, d),
         Elsewhere(s, e), Elsewhere(s, f)
  PROVE  Chain(s, a, b, c, d, e, f, settled)
  BY ElsewhereFits, Zenon DEF Chain, AheadOfAll

LEMMA EchoBegins ==
  ASSUME Begins(session'), NumbersInv',
         session'.id \notin {active'.session, downlink'.session, mcu'.session,
                             mcu'.latched, uplink'.session, uplink'.latched}
  PROVE  EchoInv'
<1>1. RecordInv(session', link_boot')
  BY DEF RecordInv, Begins
<1>2. /\ Elsewhere(session', active') /\ Elsewhere(session', downlink')
      /\ Elsewhere(session', Staged(mcu')) /\ Elsewhere(session', Output(mcu'))
      /\ Elsewhere(session', Staged(uplink')) /\ Elsewhere(session', Output(uplink'))
  BY DEF Elsewhere, Staged, Output
<1>3. Loop(session', active', downlink', mcu', uplink')
  BY <1>2, NothingChains DEF Loop
<1> QED BY <1>1, <1>3 DEF EchoInv

LEMMA NewBegins ==
  ASSUME NEW id, NEW f
  PROVE  /\ Begins(NewSession(id, f)) /\ NewSession(id, f).id = id
         /\ NewSession(id, f).command_sequence = 0
  BY DEF Begins, NewSession

(* A session of its own ID that nothing else refers to.                     *)
LEMMA RotationBegins ==
  ASSUME SlotInv, LinkTypes, SessionsDoNotWrap, FreshOnTheWire,
         NEW f, RotateSession(f),
         mailbox' = mailbox, pending' \in {pending, NoRequest},
         active' \in {active, NoRequest}, downlink' = downlink, mcu' = mcu,
         uplink' \in {uplink, NoReport}
  PROVE  EchoInv'
<1>1. PICK id \in FreshSessions : session' = NewSession(id, f)
  BY DEF RotateSession
<1>2. /\ Begins(session') /\ session'.id = id /\ session'.command_sequence = 0
  BY <1>1, NewBegins
<1>3. id \in Sessions /\ id # session.id /\ id # mailbox.session /\ id # pending.session
      /\ id # active.session
  BY DEF FreshSessions, SessionsInUse
<1>4. id \notin {mcu.session, mcu.latched, downlink.session, uplink.session, uplink.latched}
  BY <1>2, <1>3 DEF FreshOnTheWire
<1>5. 0 <= MaxSequence /\ 0 <= LastSequence
  BY LastSequenceType
<1>6. NoRequest.session # id /\ NoReport.session # id /\ NoReport.latched # id
  BY <1>3, BridgeAssumption DEF NoRequest, NoReport, NeutralBoard
<1>7. NumbersInv'
  BY <1>2, <1>3, <1>5, <1>6 DEF NumbersInv
<1>8. session'.id \notin {active'.session, downlink'.session, mcu'.session,
                          mcu'.latched, uplink'.session, uplink'.latched}
  BY <1>2, <1>3, <1>4, <1>6
<1> QED BY <1>2, <1>7, <1>8, EchoBegins

LEMMA CountedKeeps ==
  ASSUME NEW s, GoodSession(s)
  PROVE  /\ Counted(s).id = s.id /\ Counted(s).command_sequence = NextSequence(s)
         /\ Counted(s).dispatched = s.dispatched /\ Counted(s).history = s.history
         /\ Counted(s).ack_received = s.ack_received
         /\ Counted(s).ack_applied = s.ack_applied
  BY DEF Counted, GoodSession, SessionType

LEMMA CountedContinues ==
  ASSUME NEW s, GoodSession(s)
  PROVE  /\ Continues(s, Counted(s))
         /\ \A boot : RecordInv(s, boot) => RecordInv(Counted(s), boot)
         /\ Begins(s) => Begins(Counted(s))
<1> DEFINE t == Counted(s)
<1>1. /\ t.id = s.id /\ t.dispatched = s.dispatched /\ t.history = s.history
      /\ t.ack_received = s.ack_received /\ t.ack_applied = s.ack_applied
  BY CountedKeeps
<1> HIDE DEF t
<1>2. Continues(s, t)
  BY <1>1 DEF Continues, Dispatched
<1>3. \A boot : RecordInv(s, boot) => RecordInv(t, boot)
  BY <1>1 DEF RecordInv, Acknowledges
<1>4. Begins(s) => Begins(t)
  BY <1>1 DEF Begins
<1> QED BY <1>2, <1>3, <1>4 DEF t

LEMMA WriteCommandEchoes ==
  ASSUME SlotInv, LinkTypes, SessionsDoNotWrap, EchoInv, FreshOnTheWire,
         WriteCommand(TRUE, FALSE), UNCHANGED linkVars
  PROVE  EchoInv'
<1> DEFINE rotates == /\ link_open /\ status_age = "expired"
                      /\ ~heartbeat_timeout_latched
<1>1. PICK ses \in IF rotates THEN {NewSession(id, FALSE) : id \in FreshSessions}
                   ELSE {session} :
          /\ SequenceRoom(ses)
          /\ session' = Counted(ses)
          /\ mailbox'.session = ses.id /\ mailbox'.sequence = NextSequence(ses)
  BY DEF WriteCommand, NextRequest
<1>2. UNCHANGED <<link_boot, pending, active, neutral_due, mcu, downlink, uplink>>
  BY DEF WriteCommand, linkVars
<1>3. NextSequence(ses) <= MaxSequence /\ MaxSequence \in Nat /\ LastSequence = MaxSequence + 1
  BY <1>1, LastSequenceType DEF SequenceRoom
<1>4. CASE rotates
  <2>1. PICK id \in FreshSessions : ses = NewSession(id, FALSE)
    BY <1>1, <1>4
  <2>2. id \in Sessions /\ id # session.id /\ id # pending.session /\ id # active.session
    BY DEF FreshSessions, SessionsInUse
  <2>3. GoodSession(ses) /\ ses.id = id /\ Begins(ses)
    BY <2>1, <2>2, NewSessionType, NewBegins
  <2>4. Begins(session') /\ session'.id = id /\ session'.command_sequence = NextSequence(ses)
    BY <1>1, <2>3, CountedContinues, CountedKeeps
  <2>5. NextSequence(ses) \in Nat
    BY <2>3, NextSequenceType, NumberTypes DEF GoodSession
  <2>6. NextSequence(ses) <= LastSequence
    BY <1>3, <2>5
  <2>7. NumbersInv'
    BY <1>1, <1>2, <1>3, <2>2, <2>4, <2>6 DEF NumbersInv
  <2>8. id \notin {mcu.session, mcu.latched, downlink.session, uplink.session, uplink.latched}
    BY <2>2, <2>4 DEF FreshOnTheWire
  <2>9. session'.id \notin {active'.session, downlink'.session, mcu'.session,
                            mcu'.latched, uplink'.session, uplink'.latched}
    BY <1>2, <2>2, <2>4, <2>8
  <2> QED BY <2>4, <2>7, <2>9, EchoBegins
<1>5. CASE ~rotates
  <2>1. ses = session
    BY <1>1, <1>5
  <2>2. GoodSession(session)
    BY DEF SlotInv
  <2>3. /\ Continues(session, session') /\ RecordInv(session', link_boot)
        /\ session'.id = session.id /\ session'.command_sequence = NextSequence(session)
    BY <1>1, <2>1, <2>2, CountedContinues, CountedKeeps DEF EchoInv
  <2>5. NextSequence(session) \in Nat
    BY <2>2, NextSequenceType, NumberTypes DEF GoodSession
  <2>6. NextSequence(session) <= LastSequence
    BY <1>3, <2>1, <2>5
  <2>7. NumbersInv'
    BY <1>1, <1>2, <1>3, <2>1, <2>3, <2>6 DEF NumbersInv, EchoInv
  <2>8. Loop(session', active, downlink, mcu, uplink)
    BY <2>3, LoopContinues DEF EchoInv
  <2> QED BY <1>2, <2>3, <2>7, <2>8 DEF EchoInv
<1> QED BY <1>4, <1>5

-----------------------------------------------------------------------------
(* A write that starts, on a wire that holds sent or nothing more.          *)
LEMMA StartWriteEchoes ==
  ASSUME SlotInv, LinkTypes, SessionsDoNotWrap, EchoInv,
         NEW s, s = session \/ s = Counted(session), NEW r \in Request,
         r.session = session.id => r.boot = link_boot /\ r.sequence <= LastSequence,
         StartWrite(s, r), NEW sent, Wired(sent),
         Loop(session, NoRequest, sent, mcu, uplink)
  PROVE  /\ session'.id = session.id /\ session'.command_sequence = s.command_sequence
         /\ RecordInv(session', link_boot)
         /\ Loop(session', active', sent, mcu, uplink)
<1>1. GoodSession(session) /\ session.id \in Sessions
      /\ session.dispatched \in SequenceNumbers \cup {NoSequence}
  BY SessionId DEF SlotInv
<1>2. /\ GoodSession(s) /\ Continues(session, s) /\ RecordInv(s, link_boot)
      /\ s.id = session.id /\ s.dispatched = session.dispatched
  BY <1>1, CountedType, CountedContinues, CountedKeeps, ContinuesItself DEF EchoInv
<1>3. r.session = s.id => r.boot = link_boot /\ r.sequence <= LastSequence
  BY <1>2
<1>4. /\ session'.id = s.id
      /\ session'.command_sequence = s.command_sequence
      /\ session'.ack_received = s.ack_received
      /\ session'.ack_applied = s.ack_applied
      /\ RecordInv(session', link_boot)
      /\ \A q \in SequenceNumbers : \A e :
              Dispatched(s, q, e) => Dispatched(session', q, e)
      /\ \/ active' = NoRequest
         \/ /\ active' \in Request
            /\ Dispatched(session', active'.sequence, active'.enable)
            /\ s.dispatched # NoSequence => s.dispatched <= active'.sequence
            /\ active'.sequence = session'.dispatched
  BY <1>2, <1>3, StartWriteRecords
<1>5. Continues(session, session')
  BY <1>2, <1>4 DEF Continues
<1>6. Chain(session, NoRequest, sent, Staged(mcu), Output(mcu), Staged(uplink),
            Output(uplink), Settled(uplink))
  BY DEF Loop
<1>7. Wired(NoRequest)
  BY GoodNumbers DEF GoodRequest
<1>8. CASE active' = NoRequest
  <2>1. Chain(session', NoRequest, sent, Staged(mcu), Output(mcu), Staged(uplink),
              Output(uplink), Settled(uplink))
    BY <1>5, <1>6, <1>7, WireTypes, ChainStays
  <2> QED BY <1>2, <1>4, <1>8, <2>1 DEF Loop
<1>9. CASE active' # NoRequest
  <2> DEFINE a == active'
  <2>1. /\ a \in Request /\ Dispatched(session', a.sequence, a.enable)
        /\ session.dispatched # NoSequence => session.dispatched <= a.sequence
        /\ a.sequence = session'.dispatched
    BY <1>2, <1>4, <1>9
  <2> HIDE DEF a
  <2>2. Wired(a) /\ a.sequence # NoSequence
    BY <2>1, RequestNumbers DEF Wired
  <2>3. Acknowledges(session', a.sequence, a.sequence)
    BY <1>4, <2>1, <2>2 DEF RecordInv
  <2>4. Fits(session', a) /\ ReceivedFloor(session', a)
    BY <2>1, <2>3 DEF Fits, Known, AppliedFloor, ReceivedFloor, Acknowledges
  <2>5. Chain(session', a, sent, Staged(mcu), Output(mcu), Staged(uplink),
              Output(uplink), Settled(uplink))
    BY <1>1, <1>5, <1>6, <2>1, <2>2, <2>4, WireTypes, ChainStarts
  <2> QED BY <1>2, <1>4, <2>5 DEF Loop, a
<1> QED BY <1>8, <1>9

LEMMA QueueWriteEchoes ==
  ASSUME SlotInv, LinkTypes, SessionsDoNotWrap, EchoInv,
         NEW s, s = session \/ s = Counted(session), NEW r \in Request,
         r.session = session.id => r.boot = link_boot /\ r.sequence <= LastSequence,
         QueueWrite(s, r)
  PROVE  /\ session'.id = session.id /\ session'.command_sequence = s.command_sequence
         /\ RecordInv(session', link_boot)
         /\ Loop(session', active', downlink, mcu, uplink)
         /\ pending'.session = session.id => pending'.sequence <= LastSequence
<1>1. GoodSession(session) /\ NumbersInv
      /\ Loop(session, active, downlink, mcu, uplink)
  BY DEF SlotInv, EchoInv
<1>2. /\ Continues(session, s) /\ RecordInv(s, link_boot) /\ s.id = session.id
  BY <1>1, CountedContinues, CountedKeeps, ContinuesItself DEF EchoInv
<1>3. CASE session' = s /\ active' = active
  <2>1. Loop(session', active, downlink, mcu, uplink)
    BY <1>1, <1>2, <1>3, LoopContinues
  <2>2. pending' \in {pending, r}
    BY <1>2, <1>3 DEF QueueWrite, StartWrite, Dispatchable
  <2>3. pending'.session = session.id => pending'.sequence <= LastSequence
    BY <1>1, <2>2 DEF NumbersInv
  <2> QED BY <1>2, <1>3, <2>1, <2>3
<1>4. CASE active = NoRequest /\ StartWrite(s, r) /\ pending' = pending
  <2>1. Wired(downlink) /\ Loop(session, NoRequest, downlink, mcu, uplink)
    BY <1>1, <1>4, WireTypes
  <2>2. /\ session'.id = session.id /\ session'.command_sequence = s.command_sequence
        /\ RecordInv(session', link_boot)
        /\ Loop(session', active', downlink, mcu, uplink)
    BY <1>4, <2>1, StartWriteEchoes
  <2> QED BY <1>1, <1>4, <2>2 DEF NumbersInv
<1> QED BY <1>3, <1>4 DEF QueueWrite

LEMMA DrainEchoes ==
  ASSUME SlotInv, LinkTypes, SessionsDoNotWrap, EchoInv, DrainLatestWrite,
         UNCHANGED linkVars
  PROVE  EchoInv'
<1>1. /\ mailbox # NoRequest /\ mailbox' = NoRequest
      /\ UNCHANGED <<link_boot, neutral_due, mcu, downlink, uplink>>
  BY DEF DrainLatestWrite, statusVars, linkVars
<1>2. CASE shutdown # "no"
  BY <1>1, <1>2, EchoKept DEF DrainLatestWrite
<1>3. CASE shutdown = "no"
  <2>1. QueueWrite(session, mailbox)
    BY <1>3 DEF DrainLatestWrite
  <2>2. mailbox \in Request
        /\ (mailbox.session = session.id =>
              mailbox.boot = link_boot /\ mailbox.sequence <= LastSequence)
    BY <1>1 DEF SlotInv, BoundSlots, Bound, GoodRequest, EchoInv, NumbersInv
  <2>3. /\ session'.id = session.id /\ session'.command_sequence = session.command_sequence
        /\ RecordInv(session', link_boot)
        /\ Loop(session', active', downlink, mcu, uplink)
        /\ pending'.session = session.id => pending'.sequence <= LastSequence
    BY <2>1, <2>2, QueueWriteEchoes
  <2>4. session.id \in Sessions
    BY SessionId
  <2>5. NumbersInv'
    BY <1>1, <2>3, <2>4, NothingIsElsewhere DEF NumbersInv, EchoInv
  <2> QED BY <1>1, <2>3, <2>5 DEF EchoInv
<1> QED BY <1>2, <1>3

LEMMA NeutralEchoes ==
  ASSUME SlotInv, LinkTypes, SessionsDoNotWrap, EchoInv, DispatchNeutral,
         UNCHANGED linkVars
  PROVE  EchoInv'
<1>1. /\ neutral_due /\ ~neutral_due'
      /\ UNCHANGED <<link_boot, mailbox, mcu, downlink, uplink>>
  BY DEF DispatchNeutral, statusVars, linkVars
<1>2. CASE ~(link_open /\ shutdown = "no")
  BY <1>1, <1>2, EchoKept DEF DispatchNeutral
<1>3. CASE link_open /\ shutdown = "no"
  <2> DEFINE r == NextRequest(session, FALSE)
  <2>1. QueueWrite(Counted(session), r)
    BY <1>3 DEF DispatchNeutral
  <2>2. GoodSession(session) /\ link_boot \in Boots \cup {NoBoot}
    BY DEF SlotInv
  <2>3. r \in Request /\ r.session = session.id /\ r.boot = link_boot
        /\ r.sequence = NextSequence(session)
    <3>1. r \in Request
      BY <2>2, NextRequestType
    <3> QED BY <3>1 DEF NextRequest
  <2> HIDE DEF r
  <2>4. session.command_sequence \in Nat /\ session.command_sequence <= MaxSequence
    BY <1>1, SessionId, NumberTypes DEF EchoInv, NumbersInv
  <2>5. session.command_sequence \in 0..LastSequence
        /\ session.command_sequence + 1 <= LastSequence
    BY <2>4, LastSequenceType
  <2>6. NextSequence(session) <= LastSequence
    BY <2>5, NextIsNext
  <2>7. Counted(session).command_sequence = NextSequence(session)
    BY <2>2, CountedKeeps
  <2>8. r.session = session.id => r.boot = link_boot /\ r.sequence <= LastSequence
    BY <2>3, <2>6
  <2>9. /\ session'.id = session.id
        /\ session'.command_sequence = Counted(session).command_sequence
        /\ RecordInv(session', link_boot)
        /\ Loop(session', active', downlink, mcu, uplink)
        /\ pending'.session = session.id => pending'.sequence <= LastSequence
    BY <2>1, <2>3, <2>8, QueueWriteEchoes
  <2>10. NumbersInv'
    BY <1>1, <2>6, <2>7, <2>9 DEF NumbersInv, EchoInv
  <2> QED BY <1>1, <2>9, <2>10 DEF EchoInv
<1> QED BY <1>2, <1>3

LEMMA TransmitsEchoes ==
  ASSUME SlotInv, LinkTypes, SessionsDoNotWrap, EchoInv, Transmits
  PROVE  EchoInv'
<1>1. /\ downlink' = active
      /\ UNCHANGED <<link_boot, neutral_due, mailbox, mcu, uplink>>
  BY DEF Transmits, WriteDone, statusVars
<1>2. session.id \in Sessions
  BY SessionId
<1>3. Loop(session, NoRequest, active, mcu, uplink)
  BY <1>2, NothingIsElsewhere, ChainSends DEF EchoInv, Loop
<1>4. CASE active' = NoRequest /\ UNCHANGED <<session, pending>>
  BY <1>1, <1>3, <1>4 DEF EchoInv, NumbersInv
<1>5. CASE pending # NoRequest /\ StartWrite(session, pending) /\ pending' = NoRequest
  <2>1. pending \in Request
        /\ (pending.session = session.id =>
              pending.boot = link_boot /\ pending.sequence <= LastSequence)
    BY <1>5 DEF SlotInv, BoundSlots, Bound, GoodRequest, EchoInv, NumbersInv
  <2>2. Wired(active)
    BY WireTypes
  <2>3. /\ session'.id = session.id /\ session'.command_sequence = session.command_sequence
        /\ RecordInv(session', link_boot)
        /\ Loop(session', active', active, mcu, uplink)
    BY <1>3, <1>5, <2>1, <2>2, StartWriteEchoes
  <2>4. NumbersInv'
    BY <1>1, <1>2, <1>5, <2>3, NothingIsElsewhere DEF NumbersInv, EchoInv
  <2> QED BY <1>1, <2>3, <2>4 DEF EchoInv
<1> QED BY <1>4, <1>5 DEF Transmits, WriteDone

(* A report that the checks accept applies no more than it has received,    *)
(* whichever session its numbers belong to.                                 *)
LEMMA AckOrder ==
  ASSUME SlotInv, SessionsDoNotWrap, RecordInv(session, link_boot),
         NEW st \in Status, AckValid(session, st)
  PROVE  /\ session.dispatched # NoSequence
         /\ st.applied <= st.received /\ st.received <= session.dispatched
<1>1. /\ session.history \in Seq(Request) /\ session.dispatched # NoSequence
      /\ session.dispatched \in SequenceNumbers
      /\ InOrder(session.history, link_boot, session.dispatched)
      /\ session.dispatched <= LastSequence
  BY SessionId DEF SlotInv, GoodSession, SessionType, AckValid, RecordInv
<1>2. session.dispatched \in Nat
  BY <1>1, NumberTypes
<1>3. ASSUME NEW q \in SequenceNumbers, NEW i \in 1..Len(session.history),
             session.history[i].sequence = q
      PROVE  q \in 0..LastSequence /\ q <= session.dispatched
  <2>1. q + (Len(session.history) - i) <= session.dispatched
    BY <1>1, <1>3 DEF InOrder
  <2>2. q \in Nat /\ Len(session.history) \in Nat
    BY <1>1, NumberTypes
  <2>3. q <= session.dispatched /\ q <= LastSequence
    BY <1>1, <1>2, <2>1, <2>2, LastSequenceType
  <2> QED BY <2>2, <2>3, LastSequenceType
<1>4. st.received \in SequenceNumbers /\ st.applied \in SequenceNumbers
  BY DEF Status
<1>5. /\ st.received \in 0..LastSequence /\ st.received <= session.dispatched
      /\ st.applied \in 0..LastSequence
  BY <1>3, <1>4 DEF AckValid
<1>6. ~(st.applied > st.received)
  BY <1>5, NewerIsGreater DEF AckValid
<1> QED BY <1>1, <1>5, <1>6, LastSequenceType

LEMMA StatusEchoes ==
  ASSUME SlotInv, LinkTypes, SessionsDoNotWrap, EchoInv, FreshOnTheWire, StatusArrives
  PROVE  EchoInv'
<1> DEFINE st == AsStatus(uplink)
<1>1. /\ uplink \in Mcu /\ AcceptBoardStatus(st) /\ uplink' = NoReport
      /\ UNCHANGED <<mailbox, pending, active, mcu, downlink>>
  BY DEF StatusArrives, LinkTypes, AcceptBoardStatus
<1>0. /\ st \in Status /\ st.session = uplink.session /\ st.received = uplink.received
      /\ st.applied = uplink.applied
  BY <1>1, ReportIsStatus DEF AsStatus
<1> HIDE DEF st
<1>2. session.id \in Sessions /\ session \in SessionType
  BY SessionId DEF SlotInv, GoodSession
<1>3. CASE \E f : RotateSession(f)
  BY <1>1, <1>3, RotationBegins
<1>4. CASE /\ link_boot' = link_boot /\ neutral_due' = FALSE
           /\ session' = session
  <2>1. neutral_due' => neutral_due
    BY <1>4
  <2> QED BY <1>1, <1>4, <2>1, EchoKept
<1>5. CASE /\ link_boot' = link_boot /\ neutral_due' = FALSE /\ ~neutral_due
           /\ st.session = session.id /\ AckValid(session, st)
           /\ session' = Acknowledged(session, st)
  <2>1. /\ session'.id = session.id /\ session'.dispatched = session.dispatched
        /\ session'.history = session.history
        /\ session'.command_sequence = session.command_sequence
        /\ session'.ack_received = uplink.received
        /\ session'.ack_applied = uplink.applied
    BY <1>0, <1>2, <1>5 DEF Acknowledged, SessionType
  <2>2. NumbersInv'
    BY <1>1, <1>5, <2>1 DEF EchoInv, NumbersInv
  <2>3. /\ session.dispatched # NoSequence
        /\ uplink.applied <= uplink.received /\ uplink.received <= session.dispatched
    BY <1>0, <1>5, AckOrder DEF EchoInv
  <2>4. Acknowledges(session', session'.dispatched, session'.dispatched)
    <3>1. uplink.applied \in Nat /\ uplink.received \in Nat /\ session.dispatched \in Nat
      BY <1>1, <1>2, <2>3, NumberTypes DEF Mcu, SessionType
    <3> QED BY <2>1, <2>3, <3>1 DEF Acknowledges
  <2>5. RecordInv(session', link_boot')
    BY <1>5, <2>1, <2>3, <2>4 DEF RecordInv, EchoInv
  <2>6. Chain(session, active, downlink, Staged(mcu), Output(mcu), Staged(uplink),
              Output(uplink), Settled(uplink))
    BY DEF EchoInv, Loop
  <2>7. /\ Staged(uplink).session = session.id
        /\ Settled(uplink) => Output(uplink).session = session.id
        /\ Output(uplink).sequence <= Staged(uplink).sequence
        /\ session'.ack_received = Staged(uplink).sequence
        /\ session'.ack_applied = Output(uplink).sequence
    BY <1>0, <1>5, <2>1, <2>3 DEF Staged, Output, Settled
  <2>8. Chain(session', active, downlink, Staged(mcu), Output(mcu), Staged(NoReport),
              Output(NoReport), Settled(NoReport))
    BY <1>2, <2>1, <2>6, <2>7, WireTypes, NothingIsElsewhere, ChainAcknowledges
  <2>9. Loop(session', active', downlink', mcu', uplink')
    BY <1>1, <2>8 DEF Loop
  <2> QED BY <2>2, <2>5, <2>9 DEF EchoInv
<1>6. link_boot' = st.boot /\ ~neutral_due
  BY <1>1 DEF AcceptBoardStatus, IoIdle
<1> QED BY <1>1, <1>3, <1>4, <1>5, <1>6 DEF AcceptBoardStatus

-----------------------------------------------------------------------------
LEMMA BoardReceivesEchoes ==
  ASSUME SlotInv, LinkTypes, EchoInv, BoardReceives
  PROVE  EchoInv'
<1>1. /\ downlink' = NoRequest /\ downlink \in Request /\ mcu \in Mcu
      /\ UNCHANGED <<session, link_boot, neutral_due, mailbox, pending, active, uplink>>
  BY DEF BoardReceives, vars, LinkTypes, GoodRequest
<1>2. session.id \in Sessions
  BY SessionId
<1>3. NumbersInv' /\ RecordInv(session', link_boot')
  BY <1>1 DEF EchoInv, NumbersInv
<1>4. CASE mcu' = mcu
  BY <1>1, <1>4, EchoKept
<1>5. CASE Dropped
  <2>1. BoardKeeps(mcu')
    BY <1>1, <1>2, <1>5, NothingIsElsewhere
    DEF Dropped, Mcu, BoardKeeps, Staged, Output, Elsewhere
  <2> QED BY <1>1, <2>1, EchoKept
<1>6. CASE Accepted(downlink)
  <2>1. /\ Output(mcu') = Output(mcu)
        /\ Staged(mcu').session = downlink.session
        /\ Staged(mcu').sequence = downlink.sequence
        /\ Staged(mcu').enable = downlink.enable
    BY <1>1, <1>6 DEF Accepted, Mcu, Staged, Output
  <2>2. Chain(session, active, downlink, Staged(mcu), Output(mcu), Staged(uplink),
              Output(uplink), Settled(uplink))
    BY DEF EchoInv, Loop
  <2>3. Chain(session, active, NoRequest, downlink, Output(mcu), Staged(uplink),
              Output(uplink), Settled(uplink))
    BY <1>2, <2>2, NothingIsElsewhere, ChainAccepts
  <2>4. Chain(session, active, NoRequest, Staged(mcu'), Output(mcu'), Staged(uplink),
              Output(uplink), Settled(uplink))
    BY <2>1, <2>3
    DEF Chain, Fits, Known, AppliedFloor, ReceivedFloor, Ahead, AheadOfAll
  <2>5. Loop(session', active', downlink', mcu', uplink')
    BY <1>1, <2>4 DEF Loop
  <2> QED BY <1>3, <2>5 DEF EchoInv
<1> QED BY <1>4, <1>5, <1>6 DEF BoardReceives

LEMMA BoardEchoes ==
  ASSUME SlotInv, LinkTypes, EchoInv,
         BoardApplies \/ BoardWatchdog \/ BoardResets \/ BoardReports
  PROVE  EchoInv'
<1>1. /\ mcu \in Mcu
      /\ UNCHANGED <<session, link_boot, neutral_due, mailbox, pending, active, downlink>>
  BY DEF BoardApplies, BoardWatchdog, BoardResets, BoardReports, vars, LinkTypes
<1>2. session.id \in Sessions
  BY SessionId
<1>3. Chain(session, active, downlink, Staged(mcu), Output(mcu), Staged(uplink),
            Output(uplink), Settled(uplink))
  BY DEF EchoInv, Loop
<1>4. NumbersInv' /\ RecordInv(session', link_boot')
  BY <1>1 DEF EchoInv, NumbersInv
<1>5. CASE BoardApplies
  <2>1. /\ uplink' = uplink /\ Staged(mcu') = Staged(mcu)
        /\ Output(mcu').session = mcu.session
        /\ mcu.session # NoSession => Output(mcu') = Staged(mcu)
    BY <1>1, <1>5 DEF BoardApplies, Mcu, Staged, Output
  <2>2. CASE mcu.session = NoSession
    <3>1. BoardKeeps(mcu')
      BY <1>2, <2>1, <2>2, NothingIsElsewhere DEF BoardKeeps, Elsewhere
    <3> QED BY <1>1, <2>1, <3>1, EchoKept
  <2>3. CASE mcu.session # NoSession
    <3>1. Chain(session, active, downlink, Staged(mcu), Staged(mcu), Staged(uplink),
                Output(uplink), Settled(uplink))
      BY <1>3, WireTypes, ChainApplies
    <3>2. Loop(session', active', downlink', mcu', uplink')
      BY <1>1, <2>1, <2>3, <3>1 DEF Loop
    <3> QED BY <1>4, <3>2 DEF EchoInv
  <2> QED BY <2>2, <2>3
<1>6. CASE BoardWatchdog
  <2>1. BoardKeeps(mcu') /\ uplink' = uplink
    BY <1>1, <1>2, <1>6, NothingIsElsewhere
    DEF BoardWatchdog, Dropped, Mcu, BoardKeeps, Staged, Output, Elsewhere
  <2> QED BY <1>1, <2>1, EchoKept
<1>7. CASE BoardResets
  <2>1. uplink' = uplink /\ mcu'.session = NoSession /\ mcu'.latched = NoSession
    BY <1>7 DEF BoardResets, NeutralBoard
  <2>2. BoardKeeps(mcu')
    BY <1>2, <2>1, NothingIsElsewhere DEF BoardKeeps, Staged, Output, Elsewhere
  <2> QED BY <1>1, <2>1, <2>2, EchoKept
<1>8. CASE BoardReports
  <2>1. uplink' = mcu /\ mcu' = mcu
    BY <1>8 DEF BoardReports
  <2>2. ~Settled(mcu) => Staged(mcu).session # Output(mcu).session
    BY DEF Settled, Staged, Output
  <2>3. Chain(session, active, downlink, Staged(mcu), Output(mcu), Staged(mcu),
              Output(mcu), Settled(mcu))
    BY <1>3, <2>2, WireTypes, ChainReports
  <2>4. Loop(session', active', downlink', mcu', uplink')
    BY <1>1, <2>1, <2>3 DEF Loop
  <2> QED BY <1>4, <2>4 DEF EchoInv
<1> QED BY <1>5, <1>6, <1>7, <1>8

-----------------------------------------------------------------------------
LEMMA EchoStep ==
  ASSUME SlotInv, LinkTypes, SessionsDoNotWrap, EchoInv, [LinkNext]_allVars
  PROVE  EchoInv'
<1>1. CASE UNCHANGED allVars
  BY <1>1, EchoKept DEF allVars, vars, linkVars
<1>2. CASE LinkNext
  <2>1. FreshOnTheWire
    BY <1>2 DEF LinkNext
  <2>2. ASSUME NEW m \in AuthorityMessage, Commanded(m) PROVE EchoInv'
    BY <2>2, EchoKept DEF Commanded, OnCommand, statusVars, writeVars
  <2>3. CASE BridgeSteps
    <3>1. CASE RefreshAuthorityEndpoint(TRUE, TRUE)
      BY <2>3, <3>1, EchoKept
      DEF BridgeSteps, linkVars, RefreshAuthorityEndpoint, statusVars, writeVars
    <3>2. CASE WriteAborted
      BY <2>3, <3>2, EchoKept DEF BridgeSteps, linkVars, WriteAborted, statusVars
    <3> QED
      BY <2>1, <2>3, <3>1, <3>2, WriteCommandEchoes, DrainEchoes, NeutralEchoes
      DEF BridgeSteps
  <2>4. CASE BridgeFaults
    <3>1. UNCHANGED <<mcu, downlink, uplink>>
      BY <2>4 DEF BridgeFaults
    <3>2. CASE CommandExpires
      BY <3>1, <3>2, EchoKept DEF CommandExpires, sessionVars, statusVars, writeVars
    <3>3. ASSUME NEW ownError \in BOOLEAN, IoFault(ownError) PROVE EchoInv'
      BY <2>1, <3>1, <3>3, RotationBegins DEF IoFault
    <3> QED BY <2>4, <3>2, <3>3 DEF BridgeFaults
  <2>5. CASE Reopens
    BY <2>1, <2>5, RotationBegins DEF Reopens, OpenSerial
  <2>6. CASE FrameLost \/ StatusLost
    BY <2>6, EchoKept DEF FrameLost, StatusLost, vars
  <2> QED
    BY <1>2, <2>1, <2>2, <2>3, <2>4, <2>5, <2>6, TransmitsEchoes, StatusEchoes,
       BoardReceivesEchoes, BoardEchoes
    DEF LinkNext
<1> QED BY <1>1, <1>2

LEMMA EchoInit ==
  ASSUME LinkInit, SessionsDoNotWrap
  PROVE  EchoInv
<1>1. PICK id \in Sessions : session = NewSession(id, FALSE)
  BY DEF LinkInit, Init
<1>2. Begins(session) /\ session.id = id /\ session.command_sequence = 0
  BY <1>1, NewBegins
<1>3. /\ mailbox = NoRequest /\ pending = NoRequest /\ active = NoRequest
      /\ downlink = NoRequest /\ uplink = NoReport /\ neutral_due = FALSE
      /\ mcu.session = NoSession /\ mcu.latched = NoSession
  BY DEF LinkInit, Init, NeutralBoard
<1>4. NumbersInv
  BY <1>2, <1>3, NothingIsElsewhere, LastSequenceType DEF NumbersInv
<1>5. RecordInv(session, link_boot)
  BY <1>2 DEF RecordInv, Begins
<1>6. /\ Elsewhere(session, active) /\ Elsewhere(session, downlink)
      /\ Elsewhere(session, Staged(mcu)) /\ Elsewhere(session, Output(mcu))
      /\ Elsewhere(session, Staged(uplink)) /\ Elsewhere(session, Output(uplink))
  BY <1>2, <1>3, NothingIsElsewhere DEF Elsewhere, Staged, Output
<1>7. Loop(session, active, downlink, mcu, uplink)
  BY <1>6, NothingChains DEF Loop
<1> QED BY <1>4, <1>5, <1>7 DEF EchoInv

(* What is known of the session and lags no more than the budget is in the  *)
(* history, with the boot ID that the bridge knows.                         *)
LEMMA RecentIsRecorded ==
  ASSUME SessionsDoNotWrap, HistoryCoversLag, NEW s, NEW boot, RecordInv(s, boot),
         s.dispatched \in SequenceNumbers \cup {NoSequence},
         NEW q \in SequenceNumbers, NEW e, Dispatched(s, q, e),
         Distance(s.dispatched, q) <= MaxAckLag
  PROVE  /\ q \in 0..LastSequence /\ s.dispatched \in 0..LastSequence
         /\ ~Newer(q, s.dispatched)
         /\ \E i \in 1..Len(s.history) :
              /\ s.history[i].sequence = q /\ s.history[i].boot = boot
              /\ s.history[i].enable = e
<1>1. s.dispatched # NoSequence /\ q <= s.dispatched
  BY DEF Dispatched
<1>2. s.dispatched \in Nat /\ q \in Nat /\ s.dispatched <= LastSequence
  BY <1>1, NumberTypes DEF RecordInv
<1>3. q \in 0..LastSequence /\ s.dispatched \in 0..LastSequence
  BY <1>1, <1>2, LastSequenceType
<1>4. ~Newer(q, s.dispatched)
  <2>1. ~(q > s.dispatched)
    BY <1>1, <1>2
  <2> QED BY <1>3, <2>1, NewerIsGreater
<1>5. Distance(s.dispatched, q) = s.dispatched - q
  BY <1>1, <1>3, NewerIsGreater
<1>6. s.dispatched - q <= MaxAckLag /\ MaxAckLag < HistoryDepth
      /\ MaxAckLag \in Nat /\ HistoryDepth \in Nat
  BY <1>5, BridgeAssumption DEF HistoryCoversLag
<1>7. ~(q + HistoryDepth <= s.dispatched)
  BY <1>2, <1>6
<1>8. Recorded(s.history, q, e) /\ InOrder(s.history, boot, s.dispatched)
  BY <1>1, <1>7 DEF Dispatched, RecordInv
<1> QED BY <1>3, <1>4, <1>8 DEF Recorded, InOrder

LEMMA EchoIsBelieved ==
  ASSUME SlotInv, LinkTypes, SessionsDoNotWrap, HistoryCoversLag, EchoInv
  PROVE  HonestBoardIsBelieved
<1> SUFFICES ASSUME uplink # NoReport, uplink.boot = link_boot,
                    uplink.session = session.id, Settled(uplink),
                    \A q \in {uplink.received, uplink.applied} :
                       Distance(session.dispatched, q) <= MaxAckLag
             PROVE  AckValid(session, AsStatus(uplink))
  BY DEF HonestBoardIsBelieved
<1>1. /\ uplink.received \in SequenceNumbers /\ uplink.applied \in SequenceNumbers
      /\ session.dispatched \in SequenceNumbers \cup {NoSequence}
      /\ RecordInv(session, link_boot)
  BY SessionId DEF LinkTypes, Mcu, EchoInv
<1>2. /\ uplink.applied <= uplink.received
      /\ Dispatched(session, uplink.received, uplink.staged)
      /\ Dispatched(session, uplink.applied, uplink.outputs)
      /\ Acknowledges(session, uplink.received, uplink.applied)
  <2>1. uplink.latched = session.id
    BY DEF Settled
  <2>2. /\ Fits(session, Staged(uplink)) /\ Fits(session, Output(uplink))
        /\ ReceivedFloor(session, Staged(uplink))
        /\ Ahead(session.id, Staged(uplink), Output(uplink))
    BY DEF EchoInv, Loop, Chain
  <2> QED BY <2>1, <2>2 DEF Fits, Known, AppliedFloor, ReceivedFloor, Ahead, Staged,
                            Output, Acknowledges
<1> DEFINE e == uplink.staged
<1>3. Dispatched(session, uplink.received, e)
  BY <1>2
<1>4. /\ uplink.received \in 0..LastSequence /\ session.dispatched \in 0..LastSequence
      /\ ~Newer(uplink.received, session.dispatched)
      /\ \E i \in 1..Len(session.history) :
              /\ session.history[i].sequence = uplink.received
              /\ session.history[i].boot = link_boot
              /\ session.history[i].enable = e
  BY <1>1, <1>3, RecentIsRecorded
<1>5. /\ uplink.applied \in 0..LastSequence
      /\ \E i \in 1..Len(session.history) :
              /\ session.history[i].sequence = uplink.applied
              /\ session.history[i].boot = link_boot
              /\ session.history[i].enable = uplink.outputs
  BY <1>1, <1>2, RecentIsRecorded
<1>6. ~Newer(uplink.applied, uplink.received)
  <2>1. ~(uplink.applied > uplink.received)
    BY <1>2, <1>4, <1>5
  <2> QED BY <1>4, <1>5, <2>1, NewerIsGreater
<1>7. session.ack_received # NoSequence =>
        /\ ~Newer(session.ack_received, uplink.received)
        /\ ~Newer(session.ack_applied, uplink.applied)
  <2> SUFFICES ASSUME session.ack_received # NoSequence
               PROVE  /\ ~Newer(session.ack_received, uplink.received)
                      /\ ~Newer(session.ack_applied, uplink.applied)
    OBVIOUS
  <2>1. /\ session.ack_received <= uplink.received /\ session.ack_applied <= uplink.applied
    BY <1>2 DEF Acknowledges
  <2>2. session.ack_received \in Nat /\ session.ack_applied \in Nat
    <3>1. session.ack_received \in SequenceNumbers \cup {NoSequence}
          /\ session.ack_applied \in SequenceNumbers \cup {NoSequence}
      BY DEF SlotInv, GoodSession, SessionType
    <3> QED BY <3>1, NumberTypes, SequenceTypes
  <2>3. session.ack_received \in 0..LastSequence /\ session.ack_applied \in 0..LastSequence
    BY <1>4, <1>5, <2>1, <2>2, LastSequenceType
  <2>4. ~(session.ack_received > uplink.received) /\ ~(session.ack_applied > uplink.applied)
    BY <1>4, <1>5, <2>1, <2>2
  <2> QED BY <1>4, <1>5, <2>3, <2>4, NewerIsGreater
<1>8. session.dispatched # NoSequence
  BY <1>2 DEF Dispatched
<1> QED BY <1>4, <1>5, <1>6, <1>7, <1>8 DEF AckValid, AsStatus

LEMMA EchoInvariant ==
  SessionsDoNotWrap => (LinkSpec => [](BridgeInv /\ ResetInv /\ EchoInv))
<1> SUFFICES ASSUME SessionsDoNotWrap
             PROVE  LinkSpec => [](BridgeInv /\ ResetInv /\ EchoInv)
  OBVIOUS
<1>1. LinkInit => EchoInv
  BY EchoInit
<1>2. BridgeInv /\ ResetInv /\ EchoInv /\ [LinkNext]_allVars => EchoInv'
  BY EchoStep DEF BridgeInv, ResetInv
<1> QED
  BY <1>1, <1>2, LinkInvariant, PTL DEF LinkSpec

(* The checks of accept_board_status_io never misfire, for every number of  *)
(* boots, sessions and faults, every budget and every depth: a status of a  *)
(* board that follows the protocol, has crossed a PWM boundary in the       *)
(* session and lags no more than kMaximumAckSequenceLag is believed.  It    *)
(* takes a dispatch history deeper than the budget (16 against 8 in the     *)
(* code) and a session of less than half the range of sequence numbers      *)
(* (over a year at a frame every 20 ms): a board that lost half of it would *)
(* rightly seem to be ahead.                                                *)
THEOREM LinkHonestBoardIsBelieved ==
  SessionsDoNotWrap /\ HistoryCoversLag => (LinkSpec => []HonestBoardIsBelieved)
<1> SUFFICES ASSUME SessionsDoNotWrap, HistoryCoversLag
             PROVE  LinkSpec => []HonestBoardIsBelieved
  OBVIOUS
<1>1. BridgeInv /\ ResetInv /\ EchoInv => HonestBoardIsBelieved
  BY EchoIsBelieved DEF BridgeInv, ResetInv
<1> QED
  BY <1>1, EchoInvariant, PTL

-----------------------------------------------------------------------------
(* Whose outputs are on.  A session is acknowledged by a report with its    *)
(* disabled frame, so with outputs off: whatever another session commanded  *)
(* is over by then, and comes back no more.                                 *)

(* Before the acknowledgement only disabled frames leave.                   *)
OpensQuietly(s) ==
  ~s.acknowledged => \A i \in 1..Len(s.history) : ~s.history[i].enable

(* The frame being written is of the session, once it has begun to send.    *)
Writes(s, r) ==
  /\ r.session = s.id => s.dispatched # NoSequence
  /\ s.dispatched # NoSequence => r = NoRequest \/ r.session = s.id

(* The board has heard of the session.                                      *)
Reached(s, m, u) == s.acknowledged \/ m.session = s.id \/ u.session = s.id

OutputsAreOwn(s, m) == m.outputs => m.latched = s.id

OwnLoop(s, writing, sent, m, u) ==
  /\ Writes(s, writing)
  /\ sent.session = s.id => s.dispatched # NoSequence
  /\ Reached(s, m, u) =>
       /\ s.dispatched # NoSequence
       /\ m.session \in {s.id, NoSession}
       /\ sent = NoRequest \/ sent.session = s.id
  /\ m.staged => m.session # NoSession
  /\ s.acknowledged \/ (u.session = s.id /\ OutputsAreOwn(s, u))
       => OutputsAreOwn(s, m)

OwnInv ==
  OpensQuietly(session) /\ OwnLoop(session, active, downlink, mcu, uplink)

(* The session t goes on from s.                                            *)
GoesOn(s, t) ==
  /\ t.id = s.id /\ t.acknowledged = s.acknowledged
  /\ s.dispatched # NoSequence => t.dispatched # NoSequence

LEMMA StartWriteOwns ==
  ASSUME NEW s, GoodSession(s), OpensQuietly(s), NEW r \in Request, StartWrite(s, r)
  PROVE  /\ OpensQuietly(session') /\ GoesOn(s, session')
         /\ session' = s \/ session'.dispatched # NoSequence
         /\ active' = NoRequest
            \/ (active'.session = s.id /\ session'.dispatched # NoSequence)
<1>1. CASE ~Dispatchable(s, r)
  BY <1>1 DEF StartWrite, GoesOn
<1>2. CASE Dispatchable(s, r)
  <2> DEFINE frame == Sent(s, r)
             hs == IF ~frame.enable /\ s.handshake = NoSequence
                     THEN r.sequence ELSE s.handshake
             kept == Recent(Append(s.history, frame))
  <2>1. /\ active' = frame
        /\ session' = [s EXCEPT !.dispatched = r.sequence, !.handshake = hs,
                                !.history = kept]
    BY <1>2 DEF StartWrite
  <2>2. r.sequence # NoSequence /\ r.session = s.id
    BY <1>2, NotASequence DEF Request, Dispatchable
  <2>3. /\ frame \in Request /\ frame.session = r.session
        /\ frame.enable => s.acknowledged
    BY SentType DEF HostEnableAllowed
  <2>4. s \in SessionType /\ s.history \in Seq(Request) /\ Len(s.history) <= HistoryDepth
    BY DEF GoodSession, SessionType
  <2>5. Len(s.history) \in Nat
    BY <2>4
  <2> HIDE DEF frame, hs
  <2>6. ASSUME ~s.acknowledged, NEW i \in 1..Len(kept)
        PROVE  ~kept[i].enable
    <3> DEFINE h == s.history
               n == Len(h)
    <3>1. \A j \in 1..n : ~h[j].enable
      BY <2>6 DEF OpensQuietly
    <3>2. ~frame.enable
      BY <2>3, <2>6
    <3>3. \/ /\ Len(kept) = n + 1
             /\ \A j \in 1..n : kept[j] = h[j]
             /\ kept[n + 1] = frame
          \/ /\ n = HistoryDepth /\ Len(kept) = n /\ n > 0
             /\ \A j \in 1..(n - 1) : kept[j] = h[j + 1]
             /\ kept[n] = frame
      BY <2>3, <2>4, RecentEntries
    <3> HIDE DEF h, n, kept
    <3>4. n \in Nat
      BY <2>5 DEF n, h
    <3>5. kept[i] = frame \/ \E j \in 1..n : kept[i] = h[j]
      <4>1. CASE kept[i] = frame
        BY <4>1
      <4>2. CASE i \in 1..n /\ kept[i] = h[i]
        BY <4>2
      <4>3. CASE i \in 1..(n - 1) /\ kept[i] = h[i + 1]
        <5>1. i + 1 \in 1..n
          BY <3>4, <4>3
        <5> QED BY <4>3, <5>1
      <4> QED BY <2>6, <3>3, <3>4, <4>1, <4>2, <4>3
    <3> QED BY <3>1, <3>2, <3>5
  <2> HIDE DEF kept
  <2>7. /\ session'.id = s.id /\ session'.acknowledged = s.acknowledged
        /\ session'.history = kept /\ session'.dispatched = r.sequence
    BY <2>1, <2>4 DEF SessionType
  <2> QED BY <2>1, <2>2, <2>3, <2>6, <2>7 DEF OpensQuietly, GoesOn
<1> QED BY <1>1, <1>2

LEMMA CountedOwns ==
  ASSUME NEW s, GoodSession(s)
  PROVE  /\ GoesOn(s, Counted(s)) /\ Counted(s).dispatched = s.dispatched
         /\ OpensQuietly(s) => OpensQuietly(Counted(s))
<1>1. /\ Counted(s).id = s.id /\ Counted(s).acknowledged = s.acknowledged
      /\ Counted(s).dispatched = s.dispatched /\ Counted(s).history = s.history
  BY DEF Counted, GoodSession, SessionType
<1> HIDE DEF Counted
<1> QED BY <1>1 DEF GoesOn, OpensQuietly

(* What the wires lose, or pass on, while the session goes on.              *)
LEMMA OwnGoesOn ==
  ASSUME NEW s, NEW t, s.id # NoSession, GoesOn(s, t),
         NEW a, NEW d, NEW m, NEW u, OwnLoop(s, a, d, m, u),
         NEW b, Writes(t, b),
         NEW e \in {d, a, NoRequest}, NEW v \in {u, NoReport}
  PROVE  OwnLoop(t, b, e, m, v)
<1>1. NoRequest.session = NoSession /\ NoReport.session = NoSession
  BY DEF NoRequest, NoReport, NeutralBoard
<1>2. Reached(t, m, v) => Reached(s, m, u)
  BY <1>1 DEF Reached, GoesOn
<1>3. e.session = t.id => t.dispatched # NoSequence
  BY <1>1 DEF OwnLoop, GoesOn, Writes
<1>4. Reached(t, m, v) =>
        /\ t.dispatched # NoSequence
        /\ m.session \in {t.id, NoSession}
        /\ e = NoRequest \/ e.session = t.id
  BY <1>2 DEF OwnLoop, GoesOn, Writes
<1>5. t.acknowledged \/ (v.session = t.id /\ OutputsAreOwn(t, v))
        => OutputsAreOwn(t, m)
  BY <1>1 DEF OwnLoop, GoesOn, OutputsAreOwn
<1> QED BY <1>3, <1>4, <1>5 DEF OwnLoop

LEMMA OwnKept ==
  ASSUME SlotInv, OwnInv, session' = session \/ session' = Counted(session),
         active' \in {active, NoRequest}, mcu' = mcu,
         downlink' \in {downlink, NoRequest}, uplink' \in {uplink, NoReport}
  PROVE  OwnInv'
<1>0. session.id \in Sessions /\ session.id # NoSession /\ GoodSession(session)
  BY SessionId, BridgeAssumption DEF SlotInv
<1>1. /\ GoesOn(session, session') /\ OpensQuietly(session')
      /\ session'.dispatched = session.dispatched /\ session'.id = session.id
  BY <1>0, CountedOwns DEF OwnInv, GoesOn
<1>2. Writes(session', active')
  BY <1>0, <1>1, NothingIsElsewhere DEF OwnInv, OwnLoop, Writes
<1>3. OwnLoop(session, active, downlink, mcu, uplink)
  BY DEF OwnInv
<1>4. OwnLoop(session', active', downlink', mcu, uplink')
  BY <1>0, <1>1, <1>2, <1>3, OwnGoesOn
<1> QED BY <1>1, <1>4 DEF OwnInv

(* A write that starts, on a wire that holds d.                             *)
LEMMA StartWriteKeepsOwn ==
  ASSUME SlotInv, OwnInv, NEW s, s = session \/ s = Counted(session),
         NEW r \in Request, StartWrite(s, r), mcu' = mcu, uplink' = uplink,
         downlink' \in {downlink, active, NoRequest}
  PROVE  OwnInv'
<1>0. session.id # NoSession /\ GoodSession(session)
  BY SessionId, BridgeAssumption DEF SlotInv
<1>1. GoodSession(s) /\ GoesOn(session, s) /\ OpensQuietly(s)
  BY <1>0, CountedOwns, CountedType DEF OwnInv, GoesOn
<1>2. /\ OpensQuietly(session') /\ GoesOn(s, session')
      /\ active' = NoRequest
         \/ (active'.session = s.id /\ session'.dispatched # NoSequence)
  BY <1>1, StartWriteOwns
<1>3. GoesOn(session, session')
  BY <1>1, <1>2 DEF GoesOn
<1>4. NoRequest.session = NoSession /\ session'.id = session.id /\ s.id = session.id
  BY <1>1, <1>2 DEF NoRequest, GoesOn
<1>5. Writes(session', active')
  BY <1>0, <1>2, <1>4 DEF Writes
<1>6. OwnLoop(session, active, downlink, mcu, uplink)
  BY DEF OwnInv
<1>7. OwnLoop(session', active', downlink', mcu, uplink)
  BY <1>0, <1>3, <1>5, <1>6, OwnGoesOn
<1> QED BY <1>2, <1>7 DEF OwnInv

LEMMA QueueWriteKeepsOwn ==
  ASSUME SlotInv, OwnInv, NEW s, s = session \/ s = Counted(session),
         NEW r \in Request, QueueWrite(s, r), UNCHANGED <<mcu, downlink, uplink>>
  PROVE  OwnInv'
<1>1. CASE session' = s /\ active' = active
  BY <1>1, OwnKept
<1>2. CASE StartWrite(s, r)
  BY <1>2, StartWriteKeepsOwn
<1> QED BY <1>1, <1>2 DEF QueueWrite

(* A session that nothing refers to yet.                                    *)
LEMMA OwnBegins ==
  ASSUME OwnInv, session'.dispatched = NoSequence, ~session'.acknowledged,
         session'.history = << >>, session'.id # NoSession, mcu' = mcu,
         session'.id \notin {active'.session, downlink'.session, mcu.session,
                             uplink'.session}
  PROVE  OwnInv'
<1>1. OpensQuietly(session')
  BY DEF OpensQuietly
<1>2. OwnLoop(session', active', downlink', mcu, uplink')
  BY DEF OwnInv, OwnLoop, Writes, Reached
<1> QED BY <1>1, <1>2 DEF OwnInv

LEMMA NewOwns ==
  ASSUME NEW id, NEW f
  PROVE  /\ NewSession(id, f).id = id /\ ~NewSession(id, f).acknowledged
         /\ NewSession(id, f).dispatched = NoSequence
         /\ NewSession(id, f).history = << >>
  BY DEF NewSession

LEMMA RotationKeepsOwn ==
  ASSUME SlotInv, LinkTypes, OwnInv, FreshOnTheWire,
         NEW id \in FreshSessions, NEW f \in BOOLEAN,
         session' = NewSession(id, f) \/ session' = Counted(NewSession(id, f)),
         active' \in {active, NoRequest}, downlink' = downlink, mcu' = mcu,
         uplink' \in {uplink, NoReport}
  PROVE  OwnInv'
<1>1. id \in Sessions /\ id # NoSession /\ id # session.id /\ id # active.session
  BY BridgeAssumption DEF FreshSessions, SessionsInUse
<1>2. GoodSession(NewSession(id, f))
  BY <1>1, NewSessionType
<1>3. /\ session'.id = id /\ ~session'.acknowledged
      /\ session'.dispatched = NoSequence /\ session'.history = << >>
  BY <1>2, NewOwns, CountedKeeps, CountedOwns DEF GoesOn
<1>4. id \notin {mcu.session, downlink.session, uplink.session}
  BY <1>1, <1>3 DEF FreshOnTheWire
<1>5. NoRequest.session # id /\ NoReport.session # id
  BY <1>1 DEF NoRequest, NoReport, NeutralBoard
<1> QED BY <1>1, <1>3, <1>4, <1>5, OwnBegins

LEMMA WriteCommandKeepsOwn ==
  ASSUME SlotInv, LinkTypes, OwnInv, FreshOnTheWire, WriteCommand(TRUE, FALSE),
         UNCHANGED linkVars
  PROVE  OwnInv'
<1> DEFINE rotates == /\ link_open /\ status_age = "expired"
                      /\ ~heartbeat_timeout_latched
<1>1. PICK ses \in IF rotates THEN {NewSession(id, FALSE) : id \in FreshSessions}
                   ELSE {session} :
          session' = Counted(ses)
  BY DEF WriteCommand
<1>2. UNCHANGED <<active, mcu, downlink, uplink>>
  BY DEF WriteCommand, linkVars
<1>3. CASE rotates
  <2>1. PICK id \in FreshSessions : ses = NewSession(id, FALSE)
    BY <1>1, <1>3
  <2> QED BY <1>1, <1>2, <2>1, RotationKeepsOwn
<1>4. CASE ~rotates
  BY <1>1, <1>2, <1>4, OwnKept
<1> QED BY <1>3, <1>4

LEMMA DrainOwns ==
  ASSUME SlotInv, LinkTypes, OwnInv, DrainLatestWrite, UNCHANGED linkVars
  PROVE  OwnInv'
<1>1. /\ mailbox # NoRequest /\ UNCHANGED <<mcu, downlink, uplink>>
  BY DEF DrainLatestWrite, linkVars
<1>2. CASE shutdown # "no"
  BY <1>1, <1>2, OwnKept DEF DrainLatestWrite
<1>3. CASE shutdown = "no"
  <2>1. QueueWrite(session, mailbox)
    BY <1>3 DEF DrainLatestWrite
  <2>2. mailbox \in Request
    BY <1>1 DEF SlotInv, BoundSlots, Bound, GoodRequest
  <2> QED BY <1>1, <2>1, <2>2, QueueWriteKeepsOwn
<1> QED BY <1>2, <1>3

LEMMA NeutralOwns ==
  ASSUME SlotInv, LinkTypes, OwnInv, DispatchNeutral, UNCHANGED linkVars
  PROVE  OwnInv'
<1>1. UNCHANGED <<mcu, downlink, uplink>>
  BY DEF linkVars
<1>2. CASE ~(link_open /\ shutdown = "no")
  BY <1>1, <1>2, OwnKept DEF DispatchNeutral
<1>3. CASE link_open /\ shutdown = "no"
  <2>1. QueueWrite(Counted(session), NextRequest(session, FALSE))
    BY <1>3 DEF DispatchNeutral
  <2>2. NextRequest(session, FALSE) \in Request
    BY NextRequestType DEF SlotInv
  <2> QED BY <1>1, <2>1, <2>2, QueueWriteKeepsOwn
<1> QED BY <1>2, <1>3

LEMMA TransmitsOwns ==
  ASSUME SlotInv, LinkTypes, OwnInv, Transmits
  PROVE  OwnInv'
<1>1. downlink' = active /\ UNCHANGED <<mcu, uplink>>
  BY DEF Transmits
<1>2. CASE active' = NoRequest /\ session' = session
  <2>1. session.id # NoSession /\ NoRequest.session = NoSession
    BY SessionId, BridgeAssumption DEF NoRequest
  <2>2. Writes(session, NoRequest) /\ GoesOn(session, session)
    BY <2>1 DEF Writes, GoesOn
  <2>3. OwnLoop(session, active, downlink, mcu, uplink) /\ OpensQuietly(session)
    BY DEF OwnInv
  <2>4. OwnLoop(session, NoRequest, active, mcu, uplink)
    BY <2>1, <2>2, <2>3, OwnGoesOn
  <2> QED BY <1>1, <1>2, <2>3, <2>4 DEF OwnInv
<1>3. CASE pending # NoRequest /\ StartWrite(session, pending)
  <2>1. pending \in Request
    BY <1>3 DEF SlotInv, BoundSlots, Bound, GoodRequest
  <2> QED BY <1>1, <1>3, <2>1, StartWriteKeepsOwn
<1> QED BY <1>2, <1>3 DEF Transmits, WriteDone

(* The acknowledgement: until then no enabled frame has left, so that what  *)
(* the checks accept reports outputs off.                                   *)
LEMMA StatusOwns ==
  ASSUME SlotInv, LinkTypes, OwnInv, FreshOnTheWire, StatusArrives
  PROVE  OwnInv'
<1> DEFINE st == AsStatus(uplink)
<1>1. /\ uplink \in Mcu /\ AcceptBoardStatus(st) /\ uplink' = NoReport
      /\ UNCHANGED <<active, mcu, downlink>>
  BY DEF StatusArrives, LinkTypes, AcceptBoardStatus
<1>2. st.session = uplink.session /\ st.outputs = uplink.outputs
  BY DEF AsStatus
<1> HIDE DEF st
<1>3. session.id \in Sessions /\ session.id # NoSession /\ session \in SessionType
  BY SessionId, BridgeAssumption DEF SlotInv, GoodSession
<1>4. ASSUME NEW f \in BOOLEAN, RotateSession(f) PROVE OwnInv'
  BY <1>1, <1>4, RotationKeepsOwn DEF RotateSession
<1>5. CASE session' = session
  BY <1>1, <1>5, OwnKept
<1>6. CASE /\ st.session = session.id /\ AckValid(session, st)
           /\ session' = Acknowledged(session, st)
  <2>1. /\ session'.id = session.id /\ session'.dispatched = session.dispatched
        /\ session'.history = session.history
        /\ session'.acknowledged \in BOOLEAN
        /\ session.acknowledged => session'.acknowledged
    BY <1>3, <1>6 DEF Acknowledged, SessionType, HandshakeApplied
  <2>2. session.acknowledged \/ ~uplink.outputs
    BY <1>2, <1>6 DEF AckValid, OwnInv, OpensQuietly
  <2>3. NoReport.session = NoSession /\ NoReport.outputs = FALSE
    BY DEF NoReport, NeutralBoard
  <2>4. OwnLoop(session, active, downlink, mcu, uplink)
    BY DEF OwnInv
  <2>5. Reached(session, mcu, uplink) /\ OutputsAreOwn(session, mcu)
    BY <1>2, <1>6, <2>2, <2>4 DEF OwnLoop, Reached, OutputsAreOwn
  <2>6. Writes(session', active)
    BY <2>1, <2>4 DEF OwnLoop, Writes
  <2>7. OwnLoop(session', active, downlink, mcu, NoReport)
    BY <2>1, <2>4, <2>5, <2>6 DEF OwnLoop, OutputsAreOwn
  <2>8. OpensQuietly(session')
    BY <2>1 DEF OwnInv, OpensQuietly
  <2> QED BY <1>1, <2>7, <2>8 DEF OwnInv
<1> QED BY <1>1, <1>4, <1>5, <1>6 DEF AcceptBoardStatus

LEMMA BoardReceivesOwns ==
  ASSUME SlotInv, LinkTypes, OwnInv, BoardReceives
  PROVE  OwnInv'
<1>1. /\ downlink # NoRequest /\ downlink' = NoRequest
      /\ downlink \in Request /\ mcu \in Mcu
      /\ UNCHANGED <<session, active, uplink>>
  BY DEF BoardReceives, vars, LinkTypes, GoodRequest
<1>2. session.id \in Sessions /\ session.id # NoSession
  BY SessionId, BridgeAssumption
<1>3. /\ NoRequest.session = NoSession
      /\ downlink.session \in Sessions /\ downlink.session # NoSession
  BY <1>1, BridgeAssumption DEF NoRequest, Request
<1>4. OwnLoop(session, active, downlink, mcu, uplink) /\ OpensQuietly(session)
  BY DEF OwnInv
<1>5. CASE mcu' = mcu
  BY <1>1, <1>5, OwnKept
<1>6. CASE Dropped
  <2>1. /\ mcu'.session = NoSession /\ mcu'.staged = FALSE
        /\ mcu'.outputs = mcu.outputs /\ mcu'.latched = mcu.latched
    BY <1>1, <1>6 DEF Dropped, Mcu
  <2>2. OwnLoop(session, active, NoRequest, mcu', uplink)
    BY <1>2, <1>3, <1>4, <2>1 DEF OwnLoop, Reached, OutputsAreOwn
  <2> QED BY <1>1, <1>4, <2>2 DEF OwnInv
<1>7. CASE Accepted(downlink)
  <2>1. /\ mcu'.session = downlink.session
        /\ mcu'.outputs = mcu.outputs /\ mcu'.latched = mcu.latched
    BY <1>1, <1>7 DEF Accepted, Mcu
  <2>2. Reached(session, mcu', uplink) =>
          session.dispatched # NoSequence /\ downlink.session = session.id
    BY <1>1, <1>4, <2>1 DEF OwnLoop, Reached
  <2>3. OwnLoop(session, active, NoRequest, mcu', uplink)
    BY <1>2, <1>3, <1>4, <2>1, <2>2 DEF OwnLoop, OutputsAreOwn
  <2> QED BY <1>1, <1>4, <2>3 DEF OwnInv
<1> QED BY <1>5, <1>6, <1>7 DEF BoardReceives

LEMMA BoardOwns ==
  ASSUME SlotInv, LinkTypes, OwnInv,
         BoardApplies \/ BoardWatchdog \/ BoardResets \/ BoardReports
  PROVE  OwnInv'
<1>1. mcu \in Mcu /\ UNCHANGED <<session, active, downlink>>
  BY DEF BoardApplies, BoardWatchdog, BoardResets, BoardReports, vars, LinkTypes
<1>2. session.id # NoSession
  BY SessionId, BridgeAssumption
<1>3. OwnLoop(session, active, downlink, mcu, uplink) /\ OpensQuietly(session)
  BY DEF OwnInv
<1>4. CASE BoardApplies
  <2>1. /\ uplink' = uplink
        /\ mcu'.session = mcu.session /\ mcu'.staged = mcu.staged
        /\ mcu'.latched = mcu.session /\ mcu'.outputs = mcu.staged
    BY <1>1, <1>4 DEF BoardApplies, Mcu
  <2>2. Reached(session, mcu, uplink) => OutputsAreOwn(session, mcu')
    BY <1>3, <2>1 DEF OwnLoop, OutputsAreOwn
  <2>3. OwnLoop(session, active, downlink, mcu', uplink)
    BY <1>3, <2>1, <2>2 DEF OwnLoop, Reached
  <2> QED BY <1>1, <1>3, <2>1, <2>3 DEF OwnInv
<1>5. CASE BoardWatchdog
  <2>1. /\ uplink' = uplink
        /\ mcu'.session = NoSession /\ mcu'.staged = FALSE
        /\ mcu'.outputs = mcu.outputs /\ mcu'.latched = mcu.latched
    BY <1>1, <1>5 DEF BoardWatchdog, Dropped, Mcu
  <2>2. OwnLoop(session, active, downlink, mcu', uplink)
    BY <1>2, <1>3, <2>1 DEF OwnLoop, Reached, OutputsAreOwn
  <2> QED BY <1>1, <1>3, <2>1, <2>2 DEF OwnInv
<1>6. CASE BoardResets
  <2>1. /\ uplink' = uplink
        /\ mcu'.session = NoSession /\ mcu'.staged = FALSE /\ mcu'.outputs = FALSE
    BY <1>6 DEF BoardResets, NeutralBoard
  <2>2. OwnLoop(session, active, downlink, mcu', uplink)
    BY <1>2, <1>3, <2>1 DEF OwnLoop, Reached, OutputsAreOwn
  <2> QED BY <1>1, <1>3, <2>1, <2>2 DEF OwnInv
<1>7. CASE BoardReports
  <2>1. uplink' = mcu /\ mcu' = mcu
    BY <1>7 DEF BoardReports
  <2>2. OwnLoop(session, active, downlink, mcu, mcu)
    BY <1>3 DEF OwnLoop, Reached, OutputsAreOwn
  <2> QED BY <1>1, <1>3, <2>1, <2>2 DEF OwnInv
<1> QED BY <1>4, <1>5, <1>6, <1>7

LEMMA OwnStep ==
  ASSUME SlotInv, LinkTypes, OwnInv, [LinkNext]_allVars
  PROVE  OwnInv'
<1>1. CASE UNCHANGED allVars
  BY <1>1, OwnKept DEF allVars, vars, linkVars
<1>2. CASE LinkNext
  <2>1. FreshOnTheWire
    BY <1>2 DEF LinkNext
  <2>2. ASSUME NEW m \in AuthorityMessage, Commanded(m) PROVE OwnInv'
    BY <2>2, OwnKept DEF Commanded, OnCommand, writeVars
  <2>3. CASE BridgeSteps
    <3>1. CASE RefreshAuthorityEndpoint(TRUE, TRUE)
      BY <2>3, <3>1, OwnKept
      DEF BridgeSteps, linkVars, RefreshAuthorityEndpoint, writeVars
    <3>2. CASE WriteAborted
      BY <2>3, <3>2, OwnKept DEF BridgeSteps, linkVars, WriteAborted, sessionVars
    <3> QED
      BY <2>1, <2>3, <3>1, <3>2, WriteCommandKeepsOwn, DrainOwns, NeutralOwns
      DEF BridgeSteps
  <2>4. CASE BridgeFaults
    <3>1. UNCHANGED <<mcu, downlink, uplink>>
      BY <2>4 DEF BridgeFaults
    <3>2. CASE CommandExpires
      BY <3>1, <3>2, OwnKept DEF CommandExpires, sessionVars, writeVars
    <3>3. ASSUME NEW ownError \in BOOLEAN, IoFault(ownError) PROVE OwnInv'
      BY <2>1, <3>1, <3>3, RotationKeepsOwn DEF IoFault, RotateSession
    <3> QED BY <2>4, <3>2, <3>3 DEF BridgeFaults
  <2>5. CASE Reopens
    BY <2>1, <2>5, RotationKeepsOwn DEF Reopens, OpenSerial, RotateSession
  <2>6. CASE FrameLost \/ StatusLost
    BY <2>6, OwnKept DEF FrameLost, StatusLost, vars
  <2> QED
    BY <1>2, <2>1, <2>2, <2>3, <2>4, <2>5, <2>6, TransmitsOwns, StatusOwns,
       BoardReceivesOwns, BoardOwns
    DEF LinkNext
<1> QED BY <1>1, <1>2

LEMMA OwnInvariant == LinkSpec => []OwnInv
<1>1. LinkInit => OwnInv
  <2> SUFFICES ASSUME LinkInit PROVE OwnInv
    OBVIOUS
  <2>1. PICK id \in Sessions : session = NewSession(id, FALSE)
    BY DEF LinkInit, Init
  <2>2. /\ session.id = id /\ id # NoSession /\ ~session.acknowledged
        /\ session.dispatched = NoSequence /\ session.history = << >>
    BY <2>1, NewOwns, BridgeAssumption
  <2>3. /\ active = NoRequest /\ downlink = NoRequest /\ uplink = NoReport
        /\ NoRequest.session = NoSession /\ NoReport.session = NoSession
        /\ mcu.session = NoSession /\ mcu.staged = FALSE
    BY DEF LinkInit, Init, NeutralBoard, NoRequest, NoReport
  <2> QED BY <2>2, <2>3 DEF OwnInv, OpensQuietly, OwnLoop, Writes, Reached
<1>2. BridgeInv /\ ResetInv /\ OwnInv /\ [LinkNext]_allVars => OwnInv'
  BY OwnStep DEF BridgeInv, ResetInv
<1> QED BY <1>1, <1>2, LinkInvariant, PTL DEF LinkSpec

(* However the session and the board's own moved on meanwhile, and although *)
(* a status may tell numbers of another session: in a session that the      *)
(* bridge takes for acknowledged (accept_board_status_io), the board drives *)
(* nothing that another session commanded.                                  *)
THEOREM LinkAcknowledgedOutputsAreOwn == LinkSpec => []AcknowledgedOutputsAreOwn
<1>1. OwnInv => AcknowledgedOutputsAreOwn
  BY DEF OwnInv, OwnLoop, OutputsAreOwn, AcknowledgedOutputsAreOwn, Settled
<1> QED BY <1>1, OwnInvariant, PTL
=============================================================================
