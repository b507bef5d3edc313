-------------------------- MODULE AboardBridgeProofs --------------------------
(***************************************************************************)
(* Proofs about AboardBridge, for every number of boots, sessions,         *)
(* sequence numbers and generations and every set of events.               *)
(*                                                                         *)
(* BarrierInv and SlotInv are inductive.  AuthorizedAfterDisarm is not: it *)
(* needs the generation that the barrier waits to be exceeded to be that   *)
(* of the last disarmed command.  SessionBindsBoot rests on the fresh      *)
(* IDs a rotation takes, so each rotation is shown to take one that no     *)
(* slot holds.  EnabledFrameIsAuthorized then follows step by step.        *)
(*                                                                         *)
(* A session opens with a disabled frame because an enabled one needs an   *)
(* acknowledgement, and that needs the handshake (Opens).  Nothing enabled *)
(* leaves after the shutdown frame is queued because what waits behind the *)
(* write in progress is that frame (LastFrameIsNeutral).                   *)
(*                                                                         *)
(* The newest request leaves (NewestInv) because what it may be dropped    *)
(* for is never newer: every slot trails the session's last number and     *)
(* stays within half the range of it.                                      *)
(***************************************************************************)
EXTENDS AboardBridge, TLAPS

(* What the argument needs of the types.                                    *)
BarrierType ==
  [arm_authorized : BOOLEAN, authorized_generation : Nat,
   saw_disarmed : BOOLEAN, disarmed_generation : Nat]

BarrierTypes ==
  /\ barrier \in BarrierType
  /\ last_disarm \in Nat

(* The barrier waits for a generation above that of the last disarmed       *)
(* command.                                                                 *)
BarrierWaits == barrier.saw_disarmed => last_disarm = barrier.disarmed_generation

BarrierInv == BarrierTypes /\ BarrierWaits /\ AuthorizedAfterDisarm

-----------------------------------------------------------------------------
(* The arm barrier.                                                         *)

LEMMA ResetIsClosed ==
  ASSUME NEW b \in BarrierType
  PROVE  /\ BarrierReset(b) \in BarrierType
         /\ BarrierReset(b).arm_authorized = FALSE
         /\ BarrierReset(b).saw_disarmed = FALSE
  BY DEF BarrierReset, BarrierType

LEMMA NoDisarmIsNat == NoDisarm \in Nat
  BY BridgeAssumption DEF NoDisarm

LEMMA LosingIsSafe ==
  ASSUME BarrierInv, LoseAuthority
  PROVE  BarrierInv'
<1>1. /\ barrier' \in BarrierType
      /\ barrier'.arm_authorized = FALSE
      /\ barrier'.saw_disarmed = FALSE
      /\ last_disarm' \in Nat
  BY ResetIsClosed, NoDisarmIsNat DEF BarrierInv, BarrierTypes, LoseAuthority
<1> QED
  BY <1>1 DEF BarrierInv, BarrierTypes, BarrierWaits, AuthorizedAfterDisarm

LEMMA CommandKeepsBarrier ==
  ASSUME BarrierInv, NEW m \in Message, NEW single \in BOOLEAN,
         OnCommand(m, single)
  PROVE  BarrierInv'
<1> DEFINE bar  == IF AuthorityRevoked(single) THEN BarrierReset(barrier) ELSE barrier
           seen == IF AuthorityRevoked(single) THEN NoDisarm ELSE last_disarm
<1>1. /\ m.armed \in BOOLEAN
      /\ m.generation \in Nat
  BY BridgeAssumption DEF Message, Generations
<1>2. /\ bar \in BarrierType
      /\ seen \in Nat
      /\ bar.saw_disarmed => seen = bar.disarmed_generation
      /\ bar.arm_authorized => seen < bar.authorized_generation
  BY ResetIsClosed, NoDisarmIsNat
  DEF BarrierInv, BarrierTypes, BarrierWaits, AuthorizedAfterDisarm
<1>3. CASE m.well_formed /\ GateOpens(single)
  <2>1. /\ barrier' = BarrierAfter(bar, m)
        /\ last_disarm' = IF m.armed THEN seen ELSE m.generation
    BY <1>3 DEF OnCommand
  <2> HIDE DEF bar, seen
  <2>2. /\ BarrierAfter(bar, m) \in BarrierType
        /\ (IF m.armed THEN seen ELSE m.generation) \in Nat
    BY <1>1, <1>2 DEF BarrierAfter, BarrierType
  <2>3. BarrierAfter(bar, m).saw_disarmed =>
          (IF m.armed THEN seen ELSE m.generation)
            = BarrierAfter(bar, m).disarmed_generation
    BY <1>1, <1>2 DEF BarrierAfter, BarrierType
  <2>4. BarrierAfter(bar, m).arm_authorized =>
          (IF m.armed THEN seen ELSE m.generation)
            < BarrierAfter(bar, m).authorized_generation
    BY <1>1, <1>2 DEF BarrierAfter, BarrierType, GenerationNewer
  <2> QED
    BY <2>1, <2>2, <2>3, <2>4
    DEF BarrierInv, BarrierTypes, BarrierWaits, AuthorizedAfterDisarm
<1>4. CASE ~(m.well_formed /\ GateOpens(single))
  BY <1>4, LosingIsSafe DEF OnCommand
<1> QED
  BY <1>3, <1>4

LEMMA WriteKeepsBarrier ==
  ASSUME BarrierInv, NEW single \in BOOLEAN, NEW expires \in BOOLEAN,
         WriteCommand(single, expires)
  PROVE  BarrierInv'
<1>1. \/ barrier' = barrier /\ last_disarm' = last_disarm
      \/ LoseAuthority
  BY DEF WriteCommand, LoseAuthority
<1> QED
  BY <1>1, LosingIsSafe
  DEF BarrierInv, BarrierTypes, BarrierWaits, AuthorizedAfterDisarm

LEMMA BarrierStep ==
  ASSUME BarrierInv, [Next]_vars
  PROVE  BarrierInv'
<1>1. ASSUME barrier' = barrier, last_disarm' = last_disarm
      PROVE  BarrierInv'
  BY <1>1 DEF BarrierInv, BarrierTypes, BarrierWaits, AuthorizedAfterDisarm
<1>2. CASE \E m \in Message, single \in PublisherCounts : OnCommand(m, single)
  BY <1>2, CommandKeepsBarrier DEF PublisherCounts
<1>3. CASE \E valid, single \in PublisherCounts :
             RefreshAuthorityEndpoint(valid, single)
  BY <1>1, <1>3, LosingIsSafe DEF RefreshAuthorityEndpoint
<1>4. CASE CalibrateImuGyro
  BY <1>4, LosingIsSafe DEF CalibrateImuGyro
<1>5. CASE \E single \in PublisherCounts, expires \in BOOLEAN :
             WriteCommand(single, expires)
  BY <1>5, WriteKeepsBarrier DEF PublisherCounts
<1>6. CASE OpenSerial \/ (\E own \in BOOLEAN : IoFault(own))
  BY <1>6, LosingIsSafe DEF OpenSerial, IoFault, RotateSession
<1>7. CASE RejectBoardStatus
  BY <1>1, <1>7, LosingIsSafe DEF RejectBoardStatus, RotateSession, sessionVars
<1>8. CASE \E st \in StatusInputs : AcceptBoardStatus(st)
  BY <1>1, <1>8, LosingIsSafe DEF AcceptBoardStatus, RotateSession
<1>9. CASE \/ DestroyNode \/ DrainLatestWrite \/ DispatchNeutral \/ WriteDone
           \/ WriteAborted \/ BeginShutdown \/ ShutdownDeadline
           \/ StatusExpires \/ CommandExpires \/ UNCHANGED vars
  BY <1>1, <1>9
  DEF DestroyNode, DrainLatestWrite, DispatchNeutral, WriteDone, WriteAborted,
      BeginShutdown, ShutdownDeadline, StatusExpires, CommandExpires, vars,
      sessionVars
<1> QED
  BY <1>2, <1>3, <1>4, <1>5, <1>6, <1>7, <1>8, <1>9 DEF Next, RosNext, IoNext

-----------------------------------------------------------------------------
(* Types of the session and of the three slots.                             *)

GoodSession(s) == s \in SessionType /\ Len(s.history) <= HistoryDepth

GoodRequest(r) == r = NoRequest \/ r \in Request

LEMMA NextSequenceType ==
  ASSUME NEW s \in SessionType
  PROVE  NextSequence(s) \in SequenceNumbers
  BY BridgeAssumption DEF NextSequence, SessionType, SequenceNumbers

LEMMA NewSessionType ==
  ASSUME NEW id \in Sessions, NEW f \in BOOLEAN
  PROVE  GoodSession(NewSession(id, f)) /\ NewSession(id, f).id = id
<1>1. << >> \in Seq(Request) /\ Len(<< >>) = 0
  OBVIOUS
<1> QED
  BY <1>1, BridgeAssumption
  DEF NewSession, SessionType, GoodSession, SequenceNumbers, NoSequence

LEMMA CountedType ==
  ASSUME NEW s, GoodSession(s)
  PROVE  GoodSession(Counted(s)) /\ Counted(s).id = s.id
  BY NextSequenceType DEF Counted, GoodSession, SessionType

LEMMA NextRequestType ==
  ASSUME NEW s, GoodSession(s), NEW last \in BOOLEAN,
         link_boot \in Boots \cup {NoBoot}
  PROVE  /\ NextRequest(s, last) \in Request
         /\ NextRequest(s, last).session = s.id
         /\ NextRequest(s, last).boot = link_boot
         /\ NextRequest(s, last).enable = FALSE
  BY NextSequenceType DEF NextRequest, GoodSession, SessionType, Request

LEMMA SentType ==
  ASSUME NEW s, NEW r \in Request
  PROVE  /\ Sent(s, r) \in Request
         /\ Sent(s, r).session = r.session
         /\ Sent(s, r).boot = r.boot
         /\ Sent(s, r).sequence = r.sequence
         /\ Sent(s, r).calibrate = r.calibrate
         /\ Sent(s, r).enable =>
              /\ HostEnableAllowed(s, command, command_publisher_gate, barrier,
                                   calibration)
              /\ ~r.calibrate
<1> DEFINE allowed == HostEnableAllowed(s, command, command_publisher_gate,
                                        barrier, calibration)
           e == r.enable /\ allowed /\ ~r.calibrate
<1>1. e \in BOOLEAN
  OBVIOUS
<1>2. Sent(s, r) = [r EXCEPT !.enable = e]
  BY DEF Sent
<1> HIDE DEF e
<1>3. /\ Sent(s, r) \in Request
      /\ Sent(s, r).session = r.session
      /\ Sent(s, r).boot = r.boot
      /\ Sent(s, r).sequence = r.sequence
      /\ Sent(s, r).calibrate = r.calibrate
      /\ Sent(s, r).enable = e
  BY <1>1, <1>2 DEF Request
<1> QED
  BY <1>3 DEF e

LEMMA RecentType ==
  ASSUME NEW h \in Seq(Request), Len(h) <= HistoryDepth, NEW f \in Request
  PROVE  /\ Recent(Append(h, f)) \in Seq(Request)
         /\ Len(Recent(Append(h, f))) <= HistoryDepth
  BY BridgeAssumption DEF Recent

LEMMA StartWriteType ==
  ASSUME NEW s, GoodSession(s), NEW r \in Request, StartWrite(s, r)
  PROVE  /\ GoodSession(session')
         /\ session'.id = s.id
         /\ session'.acknowledged = s.acknowledged
         /\ session'.ack_fault = s.ack_fault
         /\ \/ active' = NoRequest
            \/ active' = Sent(s, r) /\ Dispatchable(s, r)
<1>1. CASE ~Dispatchable(s, r)
  BY <1>1 DEF StartWrite
<1>2. CASE Dispatchable(s, r)
  <2> DEFINE frame == Sent(s, r)
             hs == IF ~frame.enable /\ s.handshake = NoSequence
                     THEN r.sequence ELSE s.handshake
             hist == Recent(Append(s.history, frame))
  <2>1. /\ active' = frame
        /\ session' = [s EXCEPT !.dispatched = r.sequence, !.handshake = hs,
                                !.history = hist]
    BY <1>2 DEF StartWrite
  <2>2. hs \in SequenceNumbers \cup {NoSequence} /\ r.sequence \in SequenceNumbers
    BY DEF GoodSession, SessionType, Request
  <2>3. hist \in Seq(Request) /\ Len(hist) <= HistoryDepth
    BY SentType, RecentType DEF GoodSession, SessionType
  <2> HIDE DEF hs, hist, frame
  <2>4. /\ session' \in SessionType
        /\ session'.id = s.id
        /\ session'.acknowledged = s.acknowledged
        /\ session'.ack_fault = s.ack_fault
        /\ session'.history = hist
    BY <2>1, <2>2, <2>3 DEF GoodSession, SessionType
  <2> QED
    BY <1>2, <2>1, <2>3, <2>4 DEF GoodSession, frame
<1> QED
  BY <1>1, <1>2

-----------------------------------------------------------------------------
(* The slots: whatever waits for the current session carries the current    *)
(* boot challenge.                                                          *)

Bound(r, id, boot) == GoodRequest(r) /\ (r.session = id => r.boot = boot)

BoundSlots(id, boot) ==
  /\ Bound(mailbox, id, boot)
  /\ Bound(pending, id, boot)
  /\ Bound(active, id, boot)

SlotInv ==
  /\ GoodSession(session)
  /\ link_boot \in Boots \cup {NoBoot}
  /\ BoundSlots(session.id, link_boot)

LEMMA EmptyIsBound ==
  ASSUME NEW id \in Sessions, NEW boot
  PROVE  Bound(NoRequest, id, boot)
  BY BridgeAssumption DEF Bound, GoodRequest, NoRequest

LEMMA FreshIsUnbound ==
  ASSUME SlotInv, NEW id \in FreshSessions, NEW boot
  PROVE  id \in Sessions /\ BoundSlots(id, boot)
  BY DEF SlotInv, BoundSlots, Bound, FreshSessions, SessionsInUse

LEMMA RotationType ==
  ASSUME SlotInv, NEW f \in BOOLEAN, RotateSession(f), NEW boot
  PROVE  /\ GoodSession(session')
         /\ BoundSlots(session'.id, boot)
<1>1. PICK id \in FreshSessions : session' = NewSession(id, f)
  BY DEF RotateSession
<1> QED
  BY <1>1, FreshIsUnbound, NewSessionType

LEMMA StartWriteBinds ==
  ASSUME SlotInv, NEW s, GoodSession(s), s.id = session.id,
         NEW r \in Request, Bound(r, session.id, link_boot), StartWrite(s, r)
  PROVE  /\ GoodSession(session')
         /\ session'.id = session.id
         /\ Bound(active', session.id, link_boot)
<1>1. Bound(Sent(s, r), session.id, link_boot)
  BY SentType DEF Bound, GoodRequest
<1> QED
  BY <1>1, StartWriteType, EmptyIsBound DEF SlotInv, GoodSession, SessionType

LEMMA QueueWriteBinds ==
  ASSUME SlotInv, NEW s, GoodSession(s), s.id = session.id,
         NEW r \in Request, Bound(r, session.id, link_boot), QueueWrite(s, r)
  PROVE  /\ GoodSession(session')
         /\ session'.id = session.id
         /\ Bound(active', session.id, link_boot)
         /\ Bound(pending', session.id, link_boot)
<1>1. CASE r.session # s.id \/ r.boot # link_boot
  BY <1>1 DEF QueueWrite, SlotInv, BoundSlots
<1>2. CASE ~(r.session # s.id \/ r.boot # link_boot) /\ active = NoRequest
  BY <1>2, StartWriteBinds DEF QueueWrite, SlotInv, BoundSlots
<1>3. CASE ~(r.session # s.id \/ r.boot # link_boot) /\ active # NoRequest
  BY <1>3 DEF QueueWrite, SlotInv, BoundSlots
<1> QED
  BY <1>1, <1>2, <1>3

LEMMA AcknowledgedType ==
  ASSUME GoodSession(session), NEW st \in Status
  PROVE  /\ GoodSession(Acknowledged(session, st))
         /\ Acknowledged(session, st).id = session.id
<1> DEFINE h == HandshakeApplied(session, st)
<1>1. h \in BOOLEAN
  BY DEF HandshakeApplied
<1>2. Acknowledged(session, st) =
        [session EXCEPT !.ack_received = st.received, !.ack_applied = st.applied,
                        !.acknowledged = session.acknowledged \/ h,
                        !.ack_fault = session.ack_fault /\ ~h]
  BY DEF Acknowledged, GoodSession, SessionType
<1>3. st.received \in SequenceNumbers /\ st.applied \in SequenceNumbers
  BY DEF Status
<1>4. (session.acknowledged \/ h) \in BOOLEAN /\ (session.ack_fault /\ ~h) \in BOOLEAN
  OBVIOUS
<1> HIDE DEF h
<1> QED
  BY <1>1, <1>2, <1>3, <1>4 DEF GoodSession, SessionType

LEMMA StatusInputsType ==
  ASSUME SlotInv
  PROVE  StatusInputs \subseteq Status
<1>1. Acked(session) \subseteq SequenceNumbers
  <2>1. session.history \in Seq(Request)
    BY DEF SlotInv, GoodSession, SessionType
  <2>2. \A i \in 1..Len(session.history) : session.history[i] \in Request
    BY <2>1
  <2>3. \A r \in Request : r.sequence \in SequenceNumbers
    BY DEF Request
  <2> QED
    BY <2>2, <2>3 DEF Acked
<1>2. NextSequence(session) \in SequenceNumbers
  BY NextSequenceType DEF SlotInv, GoodSession
<1>3. session.id \in Sessions
  BY DEF SlotInv, GoodSession, SessionType
<1>4. 0 \in SequenceNumbers
  BY BridgeAssumption DEF SequenceNumbers
<1> QED
  BY <1>1, <1>2, <1>3, <1>4 DEF StatusInputs, Status

(* Who may change what: a step leaves the slots alone, or rotates with them *)
(* untouched, or dispatches.                                                *)
LEMMA SlotsUntouched ==
  ASSUME SlotInv, UNCHANGED <<session, link_boot, mailbox, pending, active>>
  PROVE  SlotInv'
  BY DEF SlotInv, GoodSession, BoundSlots, Bound, GoodRequest

LEMMA BoundAfter ==
  ASSUME NEW id, id = session'.id, NEW boot, boot = link_boot',
         boot \in Boots \cup {NoBoot}, GoodSession(session'),
         Bound(mailbox', id, boot), Bound(pending', id, boot),
         Bound(active', id, boot)
  PROVE  SlotInv'
  BY DEF SlotInv, GoodSession, BoundSlots, Bound, GoodRequest

LEMMA WriteCommandBinds ==
  ASSUME SlotInv, NEW single \in BOOLEAN, NEW expires \in BOOLEAN,
         WriteCommand(single, expires)
  PROVE  SlotInv'
<1> DEFINE rotates == /\ link_open /\ status_age = "expired"
                      /\ ~heartbeat_timeout_latched
           cmd   == CommandAfterChecks(single)
           calib == IF expires THEN "idle" ELSE calibration
           bar   == IF rotates \/ AuthorityRevoked(single)
                      THEN BarrierReset(barrier) ELSE barrier
           Enable(ses) == HostEnableAllowed(ses, cmd, GateOpens(single), bar, calib)
           Start == IF rotates THEN {NewSession(id, FALSE) : id \in FreshSessions}
                    ELSE {session}
<1>1. PICK ses \in Start :
        /\ session' = Counted(ses)
        /\ mailbox' = [NextRequest(ses, FALSE) EXCEPT
                         !.enable = Enable(ses), !.calibrate = calib # "idle"]
  BY DEF WriteCommand
<1>2. GoodSession(ses) /\ BoundSlots(ses.id, link_boot)
  <2>1. CASE ses = session
    BY <2>1 DEF SlotInv
  <2>2. CASE ses \in {NewSession(id, FALSE) : id \in FreshSessions}
    BY <2>2, FreshIsUnbound, NewSessionType
  <2> QED
    BY <1>1, <2>1, <2>2
<1>3. GoodSession(session') /\ session'.id = ses.id
  BY <1>1, <1>2, CountedType
<1>4. Enable(ses) \in BOOLEAN /\ (calib # "idle") \in BOOLEAN
  BY DEF HostEnableAllowed
<1>5. Bound(mailbox', ses.id, link_boot)
  <2> DEFINE e == Enable(ses)
             c == calib # "idle"
  <2>1. mailbox' = [NextRequest(ses, FALSE) EXCEPT !.enable = e, !.calibrate = c]
    BY <1>1
  <2>2. e \in BOOLEAN /\ c \in BOOLEAN
    BY <1>4
  <2>3. NextRequest(ses, FALSE) \in Request /\ NextRequest(ses, FALSE).boot = link_boot
    BY <1>2, NextRequestType DEF SlotInv
  <2> HIDE DEF e, c
  <2> QED
    BY <2>1, <2>2, <2>3 DEF Bound, GoodRequest, Request
<1>6. link_boot' = link_boot /\ pending' = pending /\ active' = active
  BY DEF WriteCommand
<1> QED
  BY <1>2, <1>3, <1>5, <1>6, BoundAfter DEF BoundSlots, SlotInv

LEMMA AcceptStatusBinds ==
  ASSUME SlotInv, NEW st \in Status, AcceptBoardStatus(st)
  PROVE  SlotInv'
<1> DEFINE reset    == st.boot # link_boot \/ st.rolled
           reported == st.session = session.id
           dropped  == ~reset /\ session.acknowledged /\ ~reported
           faulty   == ~reset /\ reported /\ ~AckValid(session, st)
           rotates  == reset \/ dropped \/ faulty
<1>1. /\ link_boot' = st.boot
      /\ st.boot \in Boots
      /\ UNCHANGED <<mailbox, pending, active>>
  BY DEF AcceptBoardStatus, Status
<1>2. CASE rotates
  <2>1. faulty \in BOOLEAN
    OBVIOUS
  <2>2. RotateSession(faulty)
    BY <1>2 DEF AcceptBoardStatus
  <2>3. GoodSession(session') /\ BoundSlots(session'.id, st.boot)
    BY <2>1, <2>2, RotationType
  <2> QED
    BY <1>1, <2>3, BoundAfter DEF BoundSlots
<1>3. CASE ~rotates
  <2>1. st.boot = link_boot
    BY <1>3
  <2>2. GoodSession(session') /\ session'.id = session.id
    BY <1>3, AcknowledgedType DEF AcceptBoardStatus, SlotInv
  <2> QED
    BY <1>1, <2>1, <2>2, BoundAfter DEF BoundSlots, SlotInv
<1> QED
  BY <1>2, <1>3

LEMMA SlotStep ==
  ASSUME SlotInv, [Next]_vars
  PROVE  SlotInv'
<1>0. session.id \in Sessions
  BY DEF SlotInv, GoodSession, SessionType
<1>1. CASE \/ \E m \in Message, single \in PublisherCounts : OnCommand(m, single)
           \/ \E valid, single \in PublisherCounts :
                RefreshAuthorityEndpoint(valid, single)
           \/ CalibrateImuGyro \/ DestroyNode \/ ShutdownDeadline
           \/ StatusExpires \/ CommandExpires \/ UNCHANGED vars
  BY <1>1, SlotsUntouched
  DEF OnCommand, RefreshAuthorityEndpoint, CalibrateImuGyro, DestroyNode,
      ShutdownDeadline, StatusExpires, CommandExpires, vars, statusVars,
      writeVars, sessionVars
<1>2. CASE \E single \in PublisherCounts, expires \in BOOLEAN :
             WriteCommand(single, expires)
  BY <1>2, WriteCommandBinds DEF PublisherCounts
<1>3. CASE DrainLatestWrite
  <2>1. /\ mailbox' = NoRequest /\ link_boot' = link_boot
        /\ mailbox \in Request
    BY <1>3 DEF DrainLatestWrite, statusVars, SlotInv, BoundSlots, Bound, GoodRequest
  <2>2. /\ GoodSession(session') /\ session'.id = session.id
        /\ Bound(active', session.id, link_boot)
        /\ Bound(pending', session.id, link_boot)
    BY <1>3, <2>1, QueueWriteBinds DEF DrainLatestWrite, SlotInv, BoundSlots
  <2> QED
    BY <1>0, <2>1, <2>2, EmptyIsBound, BoundAfter DEF SlotInv
<1>4. CASE DispatchNeutral
  <2> DEFINE r == NextRequest(session, FALSE)
  <2>1. mailbox' = mailbox /\ link_boot' = link_boot
    BY <1>4 DEF DispatchNeutral, statusVars
  <2>2. r \in Request /\ Bound(r, session.id, link_boot)
    BY NextRequestType DEF SlotInv, Bound, GoodRequest
  <2>3. GoodSession(Counted(session)) /\ Counted(session).id = session.id
    BY CountedType DEF SlotInv
  <2>4. \/ UNCHANGED <<session, active, pending>>
        \/ QueueWrite(Counted(session), r)
    BY <1>4 DEF DispatchNeutral
  <2> HIDE DEF r
  <2>5. /\ GoodSession(session') /\ session'.id = session.id
        /\ Bound(active', session.id, link_boot)
        /\ Bound(pending', session.id, link_boot)
    BY <2>2, <2>3, <2>4, QueueWriteBinds DEF SlotInv, BoundSlots
  <2> QED
    BY <2>1, <2>5, BoundAfter DEF SlotInv, BoundSlots
<1>5. CASE WriteDone
  <2>1. mailbox' = mailbox /\ link_boot' = link_boot
    BY <1>5 DEF WriteDone, statusVars
  <2>2. CASE active.shutdown \/ pending = NoRequest
    BY <1>0, <1>5, <2>1, <2>2, EmptyIsBound, BoundAfter
    DEF WriteDone, SlotInv, BoundSlots
  <2>3. CASE ~(active.shutdown \/ pending = NoRequest)
    <3>1. pending \in Request /\ Bound(pending, session.id, link_boot)
      BY <2>3 DEF SlotInv, BoundSlots, Bound, GoodRequest
    <3>2. StartWrite(session, pending) /\ pending' = NoRequest
      BY <1>5, <2>3 DEF WriteDone
    <3>3. /\ GoodSession(session') /\ session'.id = session.id
          /\ Bound(active', session.id, link_boot)
      BY <3>1, <3>2, StartWriteBinds DEF SlotInv
    <3> QED
      BY <1>0, <2>1, <3>2, <3>3, EmptyIsBound, BoundAfter DEF SlotInv, BoundSlots
  <2> QED
    BY <2>2, <2>3
<1>6. CASE WriteAborted
  BY <1>0, <1>6, EmptyIsBound, BoundAfter
  DEF WriteAborted, statusVars, SlotInv, BoundSlots
<1>7. CASE OpenSerial
  <2>1. /\ RotateSession(FALSE) /\ link_boot' = NoBoot
        /\ UNCHANGED <<mailbox, pending, active>>
    BY <1>7 DEF OpenSerial
  <2>2. GoodSession(session') /\ BoundSlots(session'.id, NoBoot)
    BY <2>1, RotationType
  <2> QED
    BY <2>1, <2>2, BoundAfter DEF BoundSlots
<1>8. CASE \E own \in BOOLEAN : IoFault(own)
  <2>1. /\ RotateSession(FALSE) /\ link_boot' = link_boot /\ mailbox' = mailbox
        /\ pending' = NoRequest /\ (active' = NoRequest \/ active' = active)
    BY <1>8 DEF IoFault
  <2>2. GoodSession(session') /\ BoundSlots(session'.id, link_boot)
    BY <2>1, RotationType
  <2>3. session'.id \in Sessions
    BY <2>2 DEF GoodSession, SessionType
  <2> QED
    BY <2>1, <2>2, <2>3, EmptyIsBound, BoundAfter DEF BoundSlots, SlotInv
<1>9. CASE RejectBoardStatus
  <2>1. UNCHANGED <<link_boot, mailbox, pending, active>>
    BY <1>9 DEF RejectBoardStatus
  <2>2. CASE session' = session
    BY <2>1, <2>2, SlotsUntouched
  <2>3. CASE RotateSession(TRUE)
    <3>1. GoodSession(session') /\ BoundSlots(session'.id, link_boot)
      BY <2>3, RotationType
    <3> QED
      BY <2>1, <3>1, BoundAfter DEF BoundSlots, SlotInv
  <2> QED
    BY <1>9, <2>2, <2>3 DEF RejectBoardStatus, sessionVars
<1>10. CASE \E st \in StatusInputs : AcceptBoardStatus(st)
  BY <1>10, StatusInputsType, AcceptStatusBinds
<1>11. CASE BeginShutdown
  <2> DEFINE r == NextRequest(session, TRUE)
  <2>1. mailbox' = NoRequest /\ link_boot' = link_boot
    BY <1>11 DEF BeginShutdown, statusVars
  <2>2. r \in Request /\ Bound(r, session.id, link_boot)
    BY NextRequestType DEF SlotInv, Bound, GoodRequest
  <2>3. GoodSession(Counted(session)) /\ Counted(session).id = session.id
    BY CountedType DEF SlotInv
  <2>4. \/ UNCHANGED <<session, active, pending>>
        \/ StartWrite(Counted(session), r) /\ pending' = pending
        \/ pending' = r /\ session' = Counted(session) /\ active' = active
    BY <1>11 DEF BeginShutdown, PendingAtShutdown
  <2> HIDE DEF r
  <2>5. /\ GoodSession(session') /\ session'.id = session.id
        /\ Bound(active', session.id, link_boot)
        /\ Bound(pending', session.id, link_boot)
    BY <2>2, <2>3, <2>4, StartWriteBinds DEF SlotInv, BoundSlots
  <2> QED
    BY <1>0, <2>1, <2>5, EmptyIsBound, BoundAfter DEF SlotInv
<1> QED
  BY <1>1, <1>2, <1>3, <1>4, <1>5, <1>6, <1>7, <1>8, <1>9, <1>10, <1>11
  DEF Next, RosNext, IoNext

-----------------------------------------------------------------------------
(* What leaves the bridge.                                                  *)

FrameIsAuthorized ==
  /\ link_open /\ session'.acknowledged /\ ~session'.ack_fault
  /\ active'.session = session'.id
  /\ active'.boot = link_boot
  /\ calibration = "idle" /\ ~active'.calibrate
  /\ barrier.arm_authorized /\ last_disarm < barrier.authorized_generation

LEMMA StartedIsAuthorized ==
  ASSUME BarrierInv, SlotInv, NEW s, GoodSession(s), s.id = session.id,
         NEW r \in Request, Bound(r, session.id, link_boot), StartWrite(s, r),
         active'.enable
  PROVE  FrameIsAuthorized
<1>1. active' # NoRequest
  BY DEF NoRequest
<1>2. active' = Sent(s, r) /\ Dispatchable(s, r)
  BY <1>1, StartWriteType
<1>3. /\ HostEnableAllowed(s, command, command_publisher_gate, barrier, calibration)
      /\ ~active'.calibrate
      /\ active'.session = r.session /\ active'.boot = r.boot
  BY <1>2, SentType
<1>4. /\ session'.id = s.id
      /\ session'.acknowledged = s.acknowledged
      /\ session'.ack_fault = s.ack_fault
  BY StartWriteType
<1>5. r.session = s.id
  BY <1>2 DEF Dispatchable
<1> QED
  BY <1>3, <1>4, <1>5
  DEF HostEnableAllowed, Bound, FrameIsAuthorized, BarrierInv,
      AuthorizedAfterDisarm

LEMMA EnabledStep ==
  ASSUME BarrierInv, SlotInv, Next, active' # active, active'.enable
  PROVE  FrameIsAuthorized
<1>0. active' # NoRequest
  BY DEF NoRequest
<1>1. CASE DrainLatestWrite
  <2>1. mailbox \in Request /\ Bound(mailbox, session.id, link_boot)
    BY <1>1 DEF DrainLatestWrite, SlotInv, BoundSlots, Bound, GoodRequest
  <2>2. StartWrite(session, mailbox)
    BY <1>1 DEF DrainLatestWrite, QueueWrite
  <2> QED
    BY <2>1, <2>2, StartedIsAuthorized DEF SlotInv
<1>2. CASE DispatchNeutral
  <2>1. /\ NextRequest(session, FALSE) \in Request
        /\ Bound(NextRequest(session, FALSE), session.id, link_boot)
    BY NextRequestType DEF SlotInv, Bound, GoodRequest
  <2>2. StartWrite(Counted(session), NextRequest(session, FALSE))
    BY <1>2 DEF DispatchNeutral, QueueWrite
  <2> QED
    BY <2>1, <2>2, CountedType, StartedIsAuthorized DEF SlotInv
<1>3. CASE WriteDone
  <2>1. pending \in Request /\ Bound(pending, session.id, link_boot)
    BY <1>0, <1>3 DEF WriteDone, SlotInv, BoundSlots, Bound, GoodRequest
  <2>2. StartWrite(session, pending)
    BY <1>0, <1>3 DEF WriteDone
  <2> QED
    BY <2>1, <2>2, StartedIsAuthorized DEF SlotInv
<1>4. CASE BeginShutdown
  <2>1. /\ NextRequest(session, TRUE) \in Request
        /\ Bound(NextRequest(session, TRUE), session.id, link_boot)
    BY NextRequestType DEF SlotInv, Bound, GoodRequest
  <2>2. StartWrite(Counted(session), NextRequest(session, TRUE))
    BY <1>4 DEF BeginShutdown
  <2> QED
    BY <2>1, <2>2, CountedType, StartedIsAuthorized DEF SlotInv
<1>5. CASE WriteAborted \/ (\E own \in BOOLEAN : IoFault(own))
  BY <1>0, <1>5 DEF WriteAborted, IoFault
<1>6. CASE RosNext \/ StatusExpires \/ CommandExpires
  BY <1>6
  DEF RosNext, OnCommand, RefreshAuthorityEndpoint, CalibrateImuGyro,
      WriteCommand, DestroyNode, StatusExpires, CommandExpires, writeVars
<1>7. CASE \/ OpenSerial \/ RejectBoardStatus \/ ShutdownDeadline
           \/ \E st \in StatusInputs : AcceptBoardStatus(st)
  BY <1>7
  DEF OpenSerial, RejectBoardStatus, ShutdownDeadline, AcceptBoardStatus, writeVars
<1> QED
  BY <1>1, <1>2, <1>3, <1>4, <1>5, <1>6, <1>7 DEF Next, IoNext

-----------------------------------------------------------------------------
(* How a session opens: whatever was dispatched, a disabled frame went      *)
(* first; whatever was acknowledged is a frame of the session.              *)

Opens(s) ==
  /\ s.dispatched # NoSequence => s.handshake # NoSequence
  /\ s.acknowledged => s.handshake # NoSequence /\ s.ack_applied # NoSequence

LEMMA NotASequence == NoSequence \notin SequenceNumbers
  BY BridgeAssumption DEF NoSequence, SequenceNumbers

LEMMA NewSessionOpens ==
  ASSUME NEW id \in Sessions, NEW f \in BOOLEAN
  PROVE  Opens(NewSession(id, f))
  BY DEF Opens, NewSession

LEMMA CountedOpens ==
  ASSUME NEW s, GoodSession(s), Opens(s)
  PROVE  Opens(Counted(s))
  BY DEF Opens, Counted, GoodSession, SessionType

LEMMA StartWriteOpens ==
  ASSUME NEW s, GoodSession(s), Opens(s), NEW r \in Request, StartWrite(s, r)
  PROVE  Opens(session')
<1>1. CASE ~Dispatchable(s, r)
  BY <1>1 DEF StartWrite
<1>2. CASE Dispatchable(s, r)
  <2> DEFINE frame == Sent(s, r)
             hs == IF ~frame.enable /\ s.handshake = NoSequence
                     THEN r.sequence ELSE s.handshake
             hist == Recent(Append(s.history, frame))
  <2>1. session' = [s EXCEPT !.dispatched = r.sequence, !.handshake = hs,
                             !.history = hist]
    BY <1>2 DEF StartWrite
  <2>2. r.sequence # NoSequence
    BY NotASequence DEF Request
  <2>3. frame.enable => s.acknowledged
    BY SentType DEF HostEnableAllowed
  <2>4. hs # NoSequence
    BY <2>2, <2>3 DEF Opens
  <2> HIDE DEF hs, hist, frame
  <2>5. /\ session'.handshake = hs
        /\ session'.acknowledged = s.acknowledged
        /\ session'.ack_applied = s.ack_applied
    BY <2>1 DEF GoodSession, SessionType
  <2> QED
    BY <2>4, <2>5 DEF Opens
<1> QED
  BY <1>1, <1>2

LEMMA QueueWriteOpens ==
  ASSUME NEW s, GoodSession(s), Opens(s), NEW r \in Request, QueueWrite(s, r)
  PROVE  Opens(session')
  BY StartWriteOpens DEF QueueWrite

LEMMA AcknowledgedOpens ==
  ASSUME GoodSession(session), Opens(session), NEW st \in Status
  PROVE  Opens(Acknowledged(session, st))
<1> DEFINE h == HandshakeApplied(session, st)
           s == Acknowledged(session, st)
<1>1. /\ s.handshake = session.handshake /\ s.dispatched = session.dispatched
      /\ s.acknowledged = (session.acknowledged \/ h)
      /\ s.ack_applied = st.applied
  BY DEF Acknowledged, GoodSession, SessionType
<1>2. h => session.handshake # NoSequence
  BY DEF HandshakeApplied
<1>3. st.applied # NoSequence
  BY NotASequence DEF Status
<1> HIDE DEF s, h
<1>4. Opens(s)
  BY <1>1, <1>2, <1>3 DEF Opens
<1> QED
  BY <1>4 DEF s

LEMMA RotationOpens ==
  ASSUME NEW f \in BOOLEAN, RotateSession(f)
  PROVE  Opens(session')
  BY NewSessionOpens DEF RotateSession, FreshSessions

LEMMA OpensStep ==
  ASSUME SlotInv, Opens(session), [Next]_vars
  PROVE  Opens(session')
<1>0. GoodSession(session)
  BY DEF SlotInv
<1>1. CASE session' = session
  BY <1>1
<1>2. CASE \E single \in PublisherCounts, expires \in BOOLEAN :
             WriteCommand(single, expires)
  <2>1. PICK ses \in {session} \cup {NewSession(id, FALSE) : id \in FreshSessions} :
          session' = Counted(ses)
    BY <1>2 DEF WriteCommand
  <2>2. GoodSession(ses) /\ Opens(ses)
    BY <1>0, <2>1, NewSessionType, NewSessionOpens DEF FreshSessions
  <2> QED
    BY <2>1, <2>2, CountedOpens
<1>3. CASE DrainLatestWrite
  <2>1. mailbox \in Request
    BY <1>3 DEF DrainLatestWrite, SlotInv, BoundSlots, Bound, GoodRequest
  <2> QED
    BY <1>0, <1>1, <1>3, <2>1, QueueWriteOpens DEF DrainLatestWrite
<1>4. CASE DispatchNeutral
  <2>1. NextRequest(session, FALSE) \in Request
    BY NextRequestType DEF SlotInv
  <2> QED
    BY <1>0, <1>1, <1>4, <2>1, CountedType, CountedOpens, QueueWriteOpens
    DEF DispatchNeutral
<1>5. CASE WriteDone
  <2>1. CASE active.shutdown \/ pending = NoRequest
    BY <1>1, <1>5, <2>1 DEF WriteDone
  <2>2. CASE ~(active.shutdown \/ pending = NoRequest)
    <3>1. pending \in Request
      BY <2>2 DEF SlotInv, BoundSlots, Bound, GoodRequest
    <3> QED
      BY <1>0, <1>5, <2>2, <3>1, StartWriteOpens DEF WriteDone
  <2> QED
    BY <2>1, <2>2
<1>6. CASE OpenSerial \/ (\E own \in BOOLEAN : IoFault(own))
  BY <1>6, RotationOpens DEF OpenSerial, IoFault
<1>7. CASE RejectBoardStatus
  BY <1>1, <1>7, RotationOpens DEF RejectBoardStatus, sessionVars
<1>8. CASE \E st \in StatusInputs : AcceptBoardStatus(st)
  <2>1. PICK st \in Status : AcceptBoardStatus(st)
    BY <1>8, StatusInputsType
  <2>2. \/ \E f \in BOOLEAN : RotateSession(f)
        \/ session' \in {session, Acknowledged(session, st)}
    BY <2>1 DEF AcceptBoardStatus
  <2> QED
    BY <1>0, <1>1, <2>2, RotationOpens, AcknowledgedOpens
<1>9. CASE BeginShutdown
  <2>1. NextRequest(session, TRUE) \in Request
    BY NextRequestType DEF SlotInv
  <2>2. \/ session' = session
        \/ session' = Counted(session)
        \/ StartWrite(Counted(session), NextRequest(session, TRUE))
    BY <1>9 DEF BeginShutdown
  <2> QED
    BY <1>0, <1>1, <2>1, <2>2, CountedType, CountedOpens, StartWriteOpens
<1>10. CASE \/ \E m \in Message, single \in PublisherCounts : OnCommand(m, single)
            \/ \E valid, single \in PublisherCounts :
                 RefreshAuthorityEndpoint(valid, single)
            \/ CalibrateImuGyro \/ DestroyNode \/ ShutdownDeadline \/ WriteAborted
            \/ StatusExpires \/ CommandExpires \/ UNCHANGED vars
  BY <1>1, <1>10
  DEF OnCommand, RefreshAuthorityEndpoint, CalibrateImuGyro, DestroyNode,
      ShutdownDeadline, WriteAborted, StatusExpires, CommandExpires, vars, sessionVars
<1> QED
  BY <1>2, <1>3, <1>4, <1>5, <1>6, <1>7, <1>8, <1>9, <1>10 DEF Next, RosNext, IoNext

-----------------------------------------------------------------------------
(* What still waits when the shutdown frame is queued: behind that frame    *)
(* itself, anything, for it is never sent; behind an older write, only the  *)
(* shutdown frame.                                                          *)

LastFrameIsNeutral ==
  shutdown = "waiting" =>
    active = NoRequest \/ active.shutdown \/ ~pending.enable

LEMMA NoRequestIsNeutral == ~NoRequest.enable /\ ~NoRequest.shutdown
  BY DEF NoRequest

LEMMA SentKeepsShutdown ==
  ASSUME NEW s, NEW r \in Request
  PROVE  Sent(s, r).shutdown = r.shutdown /\ (Sent(s, r).enable => r.enable)
<1> DEFINE e == /\ r.enable
                /\ HostEnableAllowed(s, command, command_publisher_gate, barrier,
                                     calibration)
                /\ ~r.calibrate
<1>1. Sent(s, r) = [r EXCEPT !.enable = e]
  BY DEF Sent
<1>2. e => r.enable
  OBVIOUS
<1> HIDE DEF e
<1> QED
  BY <1>1, <1>2 DEF Request

LEMMA StartedFrame ==
  ASSUME NEW s, NEW r \in Request, StartWrite(s, r)
  PROVE  \/ active' = NoRequest
         \/ /\ active'.shutdown = r.shutdown
            /\ active'.sequence = r.sequence
            /\ active'.enable => r.enable
            /\ Dispatchable(s, r)
  BY SentKeepsShutdown, SentType DEF StartWrite

LEMMA ShutdownStep ==
  ASSUME SlotInv, LastFrameIsNeutral, [Next]_vars
  PROVE  /\ LastFrameIsNeutral'
         /\ shutdown = "waiting" /\ active' # active => ~active'.enable
<1>1. ASSUME UNCHANGED <<shutdown, active, pending>>
      PROVE  /\ LastFrameIsNeutral'
             /\ shutdown = "waiting" /\ active' # active => ~active'.enable
  BY <1>1 DEF LastFrameIsNeutral
<1>2. CASE DrainLatestWrite
  <2>1. CASE shutdown = "no"
    BY <1>2, <2>1 DEF DrainLatestWrite, LastFrameIsNeutral, endVars
  <2>2. CASE shutdown # "no"
    BY <1>1, <1>2, <2>2 DEF DrainLatestWrite, endVars
  <2> QED
    BY <2>1, <2>2
<1>3. CASE DispatchNeutral
  <2>1. CASE shutdown = "no"
    BY <1>3, <2>1 DEF DispatchNeutral, LastFrameIsNeutral, endVars
  <2>2. CASE shutdown # "no"
    BY <1>1, <1>3, <2>2 DEF DispatchNeutral, endVars
  <2> QED
    BY <2>1, <2>2
<1>4. CASE WriteDone
  <2>1. shutdown' = shutdown
    BY <1>4 DEF WriteDone, endVars
  <2>2. CASE active.shutdown \/ pending = NoRequest
    <3>1. active' = NoRequest
      BY <1>4, <2>2 DEF WriteDone
    <3> QED
      BY <2>1, <3>1, NoRequestIsNeutral DEF LastFrameIsNeutral
  <2>3. CASE ~(active.shutdown \/ pending = NoRequest)
    <3>1. pending \in Request
      BY <2>3 DEF SlotInv, BoundSlots, Bound, GoodRequest
    <3>2. StartWrite(session, pending) /\ pending' = NoRequest /\ active # NoRequest
      BY <1>4, <2>3 DEF WriteDone
    <3>3. active' = NoRequest \/ (active'.enable => pending.enable)
      BY <3>1, <3>2, StartedFrame
    <3>4. shutdown = "waiting" => ~pending.enable
      BY <2>3, <3>2 DEF LastFrameIsNeutral
    <3> QED
      BY <2>1, <3>2, <3>3, <3>4, NoRequestIsNeutral DEF LastFrameIsNeutral
  <2> QED
    BY <2>2, <2>3
<1>5. CASE WriteAborted
  BY <1>5, NoRequestIsNeutral DEF WriteAborted, LastFrameIsNeutral, endVars
<1>6. CASE \E own \in BOOLEAN : IoFault(own)
  BY <1>6, NoRequestIsNeutral DEF IoFault, LastFrameIsNeutral
<1>7. CASE BeginShutdown
  <2> DEFINE r == NextRequest(session, TRUE)
  <2>1. /\ r \in Request /\ ~r.enable /\ r.shutdown
    BY NextRequestType DEF SlotInv, NextRequest
  <2>2. shutdown = "posted"
    BY <1>7 DEF BeginShutdown
  <2>3. \/ shutdown' = "finished"
        \/ StartWrite(Counted(session), r)
        \/ pending' = r
    BY <1>7 DEF BeginShutdown, PendingAtShutdown
  <2> HIDE DEF r
  <2> QED
    BY <2>1, <2>2, <2>3, StartedFrame DEF LastFrameIsNeutral
<1>8. CASE DestroyNode \/ ShutdownDeadline
  BY <1>8 DEF DestroyNode, ShutdownDeadline, LastFrameIsNeutral, writeVars
<1>9. CASE \E st \in StatusInputs : AcceptBoardStatus(st)
  <2>1. UNCHANGED <<active, pending>> /\ shutdown' \in {shutdown, "finished"}
    BY <1>9 DEF AcceptBoardStatus
  <2> QED
    BY <2>1 DEF LastFrameIsNeutral
<1>10. CASE \/ \E m \in Message, single \in PublisherCounts : OnCommand(m, single)
            \/ \E valid, single \in PublisherCounts :
                 RefreshAuthorityEndpoint(valid, single)
            \/ \E single \in PublisherCounts, expires \in BOOLEAN :
                 WriteCommand(single, expires)
            \/ CalibrateImuGyro \/ OpenSerial \/ RejectBoardStatus
            \/ StatusExpires \/ CommandExpires \/ UNCHANGED vars
  BY <1>1, <1>10
  DEF OnCommand, RefreshAuthorityEndpoint, WriteCommand, CalibrateImuGyro,
      OpenSerial, RejectBoardStatus, StatusExpires, CommandExpires, vars,
      writeVars, endVars
<1> QED
  BY <1>2, <1>3, <1>4, <1>5, <1>6, <1>7, <1>8, <1>9, <1>10 DEF Next, RosNext, IoNext

-----------------------------------------------------------------------------
(* The newest request.                                                      *)

LEMMA Division ==
  ASSUME NEW a \in Int, NEW n \in Nat, n > 0
  PROVE  a = n * (a \div n) + (a % n)
BY SMTT(60)

LEMMA Remainders ==
  ASSUME NEW n \in Nat, n > 0, NEW x \in 0..(n - 1)
  PROVE  x % n = x /\ (x - n) % n = x
<1>1. x % n = x
  OBVIOUS
<1>2. (x - n) % n = x
  <2> DEFINE a == x - n
  <2>1. a \in Int /\ a \div n = -1 /\ a % n \in Int
    OBVIOUS
  <2>2. x = a + n
    OBVIOUS
  <2> HIDE DEF a
  <2>3. a = n * (a \div n) + (a % n)
    BY <2>1, Division
  <2>4. a = n * (-1) + (a % n)
    BY <2>1, <2>3
  <2>5. n * (-1) = -n
    OBVIOUS
  <2>6. a % n = x
    BY <2>1, <2>2, <2>4, <2>5
  <2> QED BY <2>6 DEF a
<1> QED BY <1>1, <1>2

LEMMA OneTurn ==
  ASSUME NEW n \in Nat, n > 0, NEW x \in 0..(n - 1)
  PROVE  (x + n) % n = x
<1> DEFINE a == x + n
<1>1. a \in Int /\ a \div n = 1 /\ a % n \in Int
  OBVIOUS
<1>2. x = a - n
  OBVIOUS
<1> HIDE DEF a
<1>3. a = n * 1 + (a % n)
  BY <1>1, Division
<1>4. n * 1 = n
  OBVIOUS
<1>5. a % n = x
  BY <1>1, <1>2, <1>3, <1>4
<1> QED BY <1>5 DEF a

(* Distances on the circle of sequence numbers.                             *)
LEMMA DistanceIs ==
  ASSUME NEW a \in SequenceNumbers, NEW q \in SequenceNumbers
  PROVE  Distance(a, q) = IF q <= a THEN a - q ELSE (a - q) + SequenceModulus
<1>1. SequenceModulus \in Nat /\ SequenceModulus > 0
      /\ a \in 0..(SequenceModulus - 1) /\ q \in 0..(SequenceModulus - 1)
  BY BridgeAssumption DEF SequenceNumbers
<1>2. CASE q <= a
  <2>1. a - q \in 0..(SequenceModulus - 1)
    BY <1>1, <1>2
  <2> QED BY <1>1, <1>2, <2>1, Remainders DEF Distance
<1>3. CASE ~(q <= a)
  <2> DEFINE x == (a - q) + SequenceModulus
  <2>1. x \in 0..(SequenceModulus - 1) /\ x - SequenceModulus = a - q
    BY <1>1, <1>3
  <2> HIDE DEF x
  <2>2. (x - SequenceModulus) % SequenceModulus = x
    BY <1>1, <2>1, Remainders
  <2>3. Distance(a, q) = x
    BY <2>1, <2>2 DEF Distance
  <2> QED BY <1>3, <2>3 DEF x
<1> QED BY <1>2, <1>3

(* The number after a.                                                      *)
After(a) == (a + 1) % SequenceModulus

LEMMA AfterIs ==
  ASSUME NEW a \in SequenceNumbers
  PROVE  /\ After(a) = IF a + 1 = SequenceModulus THEN 0 ELSE a + 1
         /\ After(a) \in SequenceNumbers
<1>1. SequenceModulus \in Nat /\ SequenceModulus > 0 /\ a \in 0..(SequenceModulus - 1)
  BY BridgeAssumption DEF SequenceNumbers
<1>2. CASE a + 1 = SequenceModulus
  <2>1. 0 \in 0..(SequenceModulus - 1) /\ 0 + SequenceModulus = a + 1
    BY <1>1, <1>2
  <2>2. (0 + SequenceModulus) % SequenceModulus = 0
    BY <1>1, <2>1, OneTurn
  <2> QED BY <1>2, <2>1, <2>2 DEF After, SequenceNumbers
<1>3. CASE a + 1 # SequenceModulus
  <2>1. a + 1 \in 0..(SequenceModulus - 1)
    BY <1>1, <1>3
  <2> QED BY <1>1, <1>3, <2>1, Remainders DEF After, SequenceNumbers
<1> QED BY <1>2, <1>3

(* q is a, or lies behind a by so little that k more numbers still leave it *)
(* within half the range.                                                   *)
Trails(a, q, k) == 2 * (Distance(a, q) + k) < SequenceModulus

LEMMA DistanceType ==
  ASSUME NEW a \in SequenceNumbers, NEW q \in SequenceNumbers
  PROVE  Distance(a, q) \in SequenceNumbers /\ Distance(a, q) \in Nat
<1>1. SequenceModulus \in Nat /\ a \in 0..(SequenceModulus - 1)
      /\ q \in 0..(SequenceModulus - 1)
  BY BridgeAssumption DEF SequenceNumbers
<1>2. Distance(a, q) \in 0..(SequenceModulus - 1)
  BY <1>1, DistanceIs
<1> QED BY <1>1, <1>2 DEF SequenceNumbers

LEMMA TrailsItself ==
  ASSUME NEW a \in SequenceNumbers, NEW k \in {0, 1}
  PROVE  Trails(a, a, k) /\ Trails(After(a), a, k)
<1>1. SequenceModulus \in Nat /\ SequenceModulus >= 8 /\ a \in 0..(SequenceModulus - 1)
  BY BridgeAssumption DEF SequenceNumbers
<1>2. Distance(a, a) = 0
  BY <1>1, DistanceIs
<1>3. Distance(After(a), a) = 1
  <2>1. CASE a + 1 = SequenceModulus
    <3>1. After(a) = 0 /\ After(a) \in SequenceNumbers
      BY <2>1, AfterIs
    <3>2. Distance(0, a) = IF a <= 0 THEN 0 - a ELSE (0 - a) + SequenceModulus
      BY <3>1, DistanceIs
    <3> QED BY <1>1, <2>1, <3>1, <3>2
  <2>2. CASE a + 1 # SequenceModulus
    <3>1. After(a) = a + 1 /\ After(a) \in SequenceNumbers
      BY <2>2, AfterIs
    <3>2. Distance(a + 1, a) = IF a <= a + 1 THEN (a + 1) - a ELSE ((a + 1) - a) + SequenceModulus
      BY <3>1, DistanceIs
    <3> QED BY <1>1, <3>1, <3>2
  <2> QED BY <2>1, <2>2
<1> QED BY <1>1, <1>2, <1>3 DEF Trails

(* Counting uses up one number.                                             *)
LEMMA TrailsFurther ==
  ASSUME NEW a \in SequenceNumbers, NEW q \in SequenceNumbers, Trails(a, q, 1)
  PROVE  Trails(a, q, 0) /\ Trails(After(a), q, 0)
         /\ Distance(After(a), q) = Distance(a, q) + 1
<1>1. SequenceModulus \in Nat /\ SequenceModulus >= 8 /\ a \in 0..(SequenceModulus - 1)
      /\ q \in 0..(SequenceModulus - 1)
  BY BridgeAssumption DEF SequenceNumbers
<1>2. Distance(a, q) \in Nat /\ 2 * (Distance(a, q) + 1) < SequenceModulus
  BY DistanceType DEF Trails
<1>3. Distance(a, q) = IF q <= a THEN a - q ELSE (a - q) + SequenceModulus
  BY DistanceIs
<1>4. Distance(After(a), q) = Distance(a, q) + 1
  <2>1. CASE a + 1 = SequenceModulus
    <3>1. After(a) = 0 /\ After(a) \in SequenceNumbers
      BY <2>1, AfterIs
    <3>2. Distance(0, q) = IF q <= 0 THEN 0 - q ELSE (0 - q) + SequenceModulus
      BY <3>1, DistanceIs
    <3>3. q <= a /\ Distance(a, q) = a - q
      BY <1>1, <1>3, <2>1
    <3>4. q # 0
      BY <1>1, <1>2, <2>1, <3>3
    <3> QED BY <1>1, <2>1, <3>1, <3>2, <3>3, <3>4
  <2>2. CASE a + 1 # SequenceModulus
    <3>1. After(a) = a + 1 /\ After(a) \in SequenceNumbers
      BY <2>2, AfterIs
    <3>2. Distance(a + 1, q) = IF q <= a + 1 THEN (a + 1) - q ELSE ((a + 1) - q) + SequenceModulus
      BY <3>1, DistanceIs
    <3>3. q # a + 1
      BY <1>1, <1>2, <1>3
    <3> QED BY <1>1, <1>3, <3>1, <3>2, <3>3
  <2> QED BY <2>1, <2>2
<1> QED BY <1>1, <1>2, <1>4 DEF Trails

(* SequenceRoom leaves the room that it is meant to leave.                  *)
LEMMA TrailsWithRoom ==
  ASSUME NEW a \in SequenceNumbers, NEW q \in SequenceNumbers, Trails(a, q, 1),
         2 * Distance(a + 2, q) < SequenceModulus
  PROVE  Trails(After(a), q, 1)
<1>1. SequenceModulus \in Nat /\ SequenceModulus >= 8 /\ a \in 0..(SequenceModulus - 1)
      /\ q \in 0..(SequenceModulus - 1)
  BY BridgeAssumption DEF SequenceNumbers
<1>2. Distance(a, q) \in Nat /\ 2 * (Distance(a, q) + 1) < SequenceModulus
  BY DistanceType DEF Trails
<1>3. Distance(a, q) = IF q <= a THEN a - q ELSE (a - q) + SequenceModulus
  BY DistanceIs
<1> DEFINE x == Distance(a, q) + 2
<1>4. x \in 0..(SequenceModulus - 1)
  BY <1>1, <1>2
<1>5. (a + 2) - q = x \/ (a + 2) - q = x - SequenceModulus
  BY <1>1, <1>3
<1> HIDE DEF x
<1>6. Distance(a + 2, q) = x
  <2>1. x % SequenceModulus = x /\ (x - SequenceModulus) % SequenceModulus = x
    BY <1>1, <1>4, Remainders
  <2> QED BY <1>5, <2>1 DEF Distance
<1>7. Distance(After(a), q) = Distance(a, q) + 1
  BY TrailsFurther
<1> QED BY <1>2, <1>6, <1>7 DEF Trails, x

(* What trails is not newer, and all of it but the number itself is older.  *)
LEMMA TrailsIsOlder ==
  ASSUME NEW a \in SequenceNumbers, NEW q \in SequenceNumbers, Trails(a, q, 0)
  PROVE  ~Newer(q, a) /\ (q # a => Newer(a, q))
<1>1. SequenceModulus \in Nat /\ SequenceModulus >= 8 /\ a \in 0..(SequenceModulus - 1)
      /\ q \in 0..(SequenceModulus - 1)
  BY BridgeAssumption DEF SequenceNumbers
<1>2. /\ Distance(a, q) = IF q <= a THEN a - q ELSE (a - q) + SequenceModulus
      /\ Distance(q, a) = IF a <= q THEN q - a ELSE (q - a) + SequenceModulus
      /\ 2 * (Distance(a, q) + 0) < SequenceModulus
  BY DistanceIs DEF Trails
<1> DEFINE d == Distance(a, q)
           e == Distance(q, a)
<1>3. d \in Nat /\ e \in Nat
  BY DistanceType
<1>4. CASE a = q
  <2>1. e = 0
    BY <1>1, <1>2, <1>4
  <2> QED BY <1>4, <2>1 DEF Newer
<1>5. CASE a # q
  <2>1. d # 0 /\ d + e = SequenceModulus
    BY <1>1, <1>2, <1>5
  <2>2. 2 * d < SequenceModulus
    BY <1>2, <1>3
  <2> HIDE DEF d, e
  <2>3. ~(2 * e < SequenceModulus)
    BY <1>1, <1>3, <2>1, <2>2
  <2> QED BY <1>5, <2>1, <2>2, <2>3 DEF Newer, d, e
<1> QED BY <1>4, <1>5

(* The number dispatched last, and what waits for the session, trail its    *)
(* newest number.                                                           *)
Behind(s, k) == s.dispatched # NoSequence => Trails(s.command_sequence, s.dispatched, k)

Waiting(s, r, k) == r.session = s.id => Trails(s.command_sequence, r.sequence, k)

Newest(s, r) == r.session = s.id /\ r.sequence = s.command_sequence

Leaves(s, m, p) ==
  \/ s.dispatched = s.command_sequence \/ Newest(s, m) \/ Newest(s, p)
  \/ /\ s.dispatched = NoSequence /\ s.command_sequence = 0
     /\ m.session # s.id /\ p.session # s.id

(* Until the shutdown frame is built, there is room for one number more.    *)
Slack == IF shutdown \in {"no", "posted"} THEN 1 ELSE 0

ShutdownPhase == shutdown \in {"no", "posted", "waiting", "finished"}

NewestInv ==
  /\ Behind(session, Slack)
  /\ Waiting(session, pending, Slack)
  /\ Waiting(session, mailbox, Slack)
  /\ neutral_due => /\ session.dispatched = NoSequence
                    /\ pending.session # session.id
                    /\ mailbox.session = session.id => Newest(session, mailbox)
  /\ shutdown = "waiting" => mailbox = NoRequest
  /\ link_open /\ shutdown # "posted" => Leaves(session, mailbox, pending)

LEMMA SlackType == Slack \in {0, 1}
  BY DEF Slack

LEMMA TrailsLess ==
  ASSUME NEW a \in SequenceNumbers, NEW q \in SequenceNumbers, NEW k \in {0, 1},
         Trails(a, q, k)
  PROVE  Trails(a, q, 0)
<1>1. CASE k = 0
  BY <1>1
<1>2. CASE k = 1
  BY <1>2, TrailsFurther
<1> QED BY <1>1, <1>2

LEMMA NumbersOf ==
  ASSUME NEW s, GoodSession(s)
  PROVE  /\ s.command_sequence \in SequenceNumbers
         /\ s.dispatched = NoSequence \/ s.dispatched \in SequenceNumbers
         /\ NextSequence(s) = After(s.command_sequence)
  BY DEF GoodSession, SessionType, NextSequence, After

LEMMA StartWriteNewest ==
  ASSUME NEW s, GoodSession(s), NEW r \in Request, NEW k \in {0, 1},
         Behind(s, k), Waiting(s, r, k), StartWrite(s, r)
  PROVE  /\ session'.id = s.id /\ session'.command_sequence = s.command_sequence
         /\ Behind(session', k)
         /\ link_open /\ (s.dispatched = s.command_sequence \/ Newest(s, r))
              => session'.dispatched = s.command_sequence
         /\ r.session # s.id => session' = s
<1> DEFINE a == s.command_sequence
<1>0. /\ a \in SequenceNumbers /\ r.sequence \in SequenceNumbers
      /\ s.dispatched = NoSequence \/ s.dispatched \in SequenceNumbers
      /\ NoSequence \notin SequenceNumbers
  BY NumbersOf, NotASequence DEF Request
<1>1. CASE Dispatchable(s, r)
  <2>1. /\ session'.dispatched = r.sequence
        /\ session'.id = s.id /\ session'.command_sequence = a
    BY <1>1 DEF StartWrite, GoodSession, SessionType
  <2>2. r.session = s.id /\ Trails(a, r.sequence, k)
    BY <1>1 DEF Dispatchable, Waiting
  <2>3. Behind(session', k)
    BY <2>1, <2>2 DEF Behind
  <2>4. ~(s.dispatched = a) \/ r.sequence = a
    <3>1. Trails(a, r.sequence, 0)
      BY <1>0, <2>2, TrailsLess
    <3>2. ~Newer(r.sequence, a)
      BY <1>0, <3>1, TrailsIsOlder
    <3> QED BY <1>0, <1>1, <3>2 DEF Dispatchable
  <2> QED BY <2>1, <2>2, <2>3, <2>4 DEF Newest
<1>2. CASE ~Dispatchable(s, r)
  <2>1. session' = s
    BY <1>2 DEF StartWrite
  <2>2. ASSUME link_open, Newest(s, r)
        PROVE  s.dispatched = a
    <3>1. s.dispatched \in SequenceNumbers /\ ~Newer(a, s.dispatched)
      BY <1>0, <1>2, <2>2 DEF Dispatchable, Newest
    <3>2. Trails(a, s.dispatched, 0)
      BY <1>0, <3>1, TrailsLess DEF Behind
    <3> QED BY <1>0, <3>1, <3>2, TrailsIsOlder
  <2> QED BY <2>1, <2>2
<1> QED BY <1>1, <1>2

LEMMA QueueWriteNewest ==
  ASSUME NEW s, GoodSession(s), NEW r \in Request, NEW k \in {0, 1},
         GoodRequest(pending), Bound(r, s.id, link_boot),
         Behind(s, k), Waiting(s, r, k), Waiting(s, pending, k), QueueWrite(s, r)
  PROVE  /\ session'.id = s.id /\ session'.command_sequence = s.command_sequence
         /\ Behind(session', k) /\ Waiting(s, pending', k)
         /\ link_open /\ (\/ s.dispatched = s.command_sequence
                          \/ Newest(s, r) \/ Newest(s, pending))
              => session'.dispatched = s.command_sequence \/ Newest(s, pending')
         /\ r.session # s.id => session' = s /\ pending' = pending
<1> DEFINE a == s.command_sequence
<1>1. CASE r.session # s.id
  BY <1>1 DEF QueueWrite, Newest
<1>2. CASE r.session = s.id /\ active = NoRequest
  <2>1. StartWrite(s, r) /\ pending' = pending
    BY <1>2 DEF QueueWrite, Bound
  <2> QED BY <1>2, <2>1, StartWriteNewest
<1>3. CASE r.session = s.id /\ active # NoRequest
  <2>1. /\ session' = s
        /\ pending' = IF pending.session = r.session
                         /\ ~Newer(r.sequence, pending.sequence)
                        THEN pending ELSE r
    BY <1>3 DEF QueueWrite, Bound
  <2>2. CASE pending.session = r.session
    <3>1. pending \in Request
      BY <1>3, <2>2, BridgeAssumption
      DEF GoodRequest, NoRequest, GoodSession, SessionType
    <3>2. /\ a \in SequenceNumbers /\ r.sequence \in SequenceNumbers
          /\ pending.sequence \in SequenceNumbers
      BY <3>1, NumbersOf DEF Request
    <3>3. Trails(a, r.sequence, 0) /\ Trails(a, pending.sequence, 0)
      BY <1>3, <2>2, <3>2, TrailsLess DEF Waiting
    <3>4. /\ r.sequence = a => pending.sequence = a \/ Newer(a, pending.sequence)
          /\ pending.sequence = a => ~Newer(r.sequence, a)
      BY <3>2, <3>3, TrailsIsOlder
    <3> QED BY <1>3, <2>1, <2>2, <3>4 DEF Newest
  <2>3. CASE pending.session # r.session
    BY <1>3, <2>1, <2>3 DEF Newest
  <2> QED BY <2>2, <2>3
<1> QED BY <1>1, <1>2, <1>3

LEMMA FreshNewest ==
  ASSUME SlotInv, NEW id \in FreshSessions, NEW f, NEW k
  PROVE  /\ Behind(NewSession(id, f), k)
         /\ Waiting(NewSession(id, f), pending, k)
         /\ Waiting(NewSession(id, f), mailbox, k)
         /\ NewSession(id, f).dispatched = NoSequence
         /\ pending.session # NewSession(id, f).id
         /\ mailbox.session # NewSession(id, f).id
         /\ Leaves(NewSession(id, f), mailbox, pending)
  BY DEF FreshSessions, SessionsInUse, NewSession, Behind, Waiting, Leaves

LEMMA NoRequestWaits ==
  ASSUME NEW s, GoodSession(s), NEW k
  PROVE  Waiting(s, NoRequest, k) /\ NoRequest.session # s.id /\ ~Newest(s, NoRequest)
  BY BridgeAssumption DEF Waiting, Newest, NoRequest, GoodSession, SessionType

(* A rotation leaves nothing behind.                                        *)
LEMMA RotationIsNewest ==
  ASSUME SlotInv, NEW f \in BOOLEAN, RotateSession(f),
         pending' = pending \/ pending' = NoRequest, mailbox' = mailbox,
         shutdown' = "waiting" => mailbox = NoRequest
  PROVE  NewestInv'
<1>1. PICK id \in FreshSessions : session' = NewSession(id, f)
  BY DEF RotateSession
<1>2. id \in Sessions
  BY DEF FreshSessions
<1>3. GoodSession(session')
  BY <1>1, <1>2, NewSessionType
<1>4. /\ Behind(session', Slack') /\ Waiting(session', pending, Slack')
      /\ Waiting(session', mailbox, Slack')
      /\ session'.dispatched = NoSequence
      /\ pending.session # session'.id /\ mailbox.session # session'.id
      /\ session'.command_sequence = 0
  BY <1>1, FreshNewest DEF NewSession
<1>5. Waiting(session', pending', Slack') /\ pending'.session # session'.id
  BY <1>3, <1>4, NoRequestWaits
<1> QED BY <1>4, <1>5 DEF NewestInv, Leaves

LEMMA NewestUntouched ==
  ASSUME NewestInv, session'.id = session.id,
         session'.command_sequence = session.command_sequence,
         session'.dispatched = session.dispatched,
         UNCHANGED <<mailbox, pending>>, Slack' = Slack \/ (Slack = 1 /\ Slack' = 1),
         neutral_due' => neutral_due,
         shutdown' = "waiting" => shutdown = "waiting",
         link_open' /\ shutdown' # "posted" => link_open /\ shutdown # "posted"
  PROVE  NewestInv'
  BY DEF NewestInv, Behind, Waiting, Leaves, Newest

LEMMA WriteCommandNewest ==
  ASSUME SlotInv, NewestInv, NEW single \in BOOLEAN, NEW expires \in BOOLEAN,
         WriteCommand(single, expires)
  PROVE  NewestInv'
<1> DEFINE rotates == /\ link_open /\ status_age = "expired"
                      /\ ~heartbeat_timeout_latched
           Start == IF rotates THEN {NewSession(id, FALSE) : id \in FreshSessions}
                    ELSE {session}
<1>1. PICK ses \in Start :
        /\ SequenceRoom(ses)
        /\ session' = Counted(ses)
        /\ mailbox'.session = ses.id /\ mailbox'.sequence = NextSequence(ses)
  BY DEF WriteCommand, NextRequest
<1>2. /\ pending' = pending /\ shutdown = "no" /\ Slack = 1 /\ Slack' = 1
      /\ neutral_due' = neutral_due /\ shutdown' = shutdown
  BY DEF WriteCommand, Spinning, Slack, endVars
<1>3. /\ GoodSession(ses)
      /\ Behind(ses, 1) /\ Waiting(ses, pending, 1)
      /\ neutral_due => ses.dispatched = NoSequence /\ pending.session # ses.id
  <2>1. CASE ses = session
    BY <1>2, <2>1 DEF SlotInv, NewestInv
  <2>2. CASE ses \in {NewSession(id, FALSE) : id \in FreshSessions}
    <3>1. PICK id \in FreshSessions : ses = NewSession(id, FALSE)
      BY <2>2
    <3>2. id \in Sessions
      BY DEF FreshSessions
    <3> QED BY <3>1, <3>2, FreshNewest, NewSessionType
  <2> QED BY <1>1, <2>1, <2>2
<1> DEFINE a == ses.command_sequence
<1>4. /\ a \in SequenceNumbers /\ NextSequence(ses) = After(a)
      /\ After(a) \in SequenceNumbers
      /\ ses.dispatched = NoSequence \/ ses.dispatched \in SequenceNumbers
  BY <1>3, NumbersOf, AfterIs
<1>5. /\ session'.id = ses.id /\ session'.dispatched = ses.dispatched
      /\ session'.command_sequence = After(a)
  BY <1>1, <1>3, <1>4 DEF Counted, GoodSession, SessionType
<1>6. Behind(session', 1)
  <2> SUFFICES ASSUME ses.dispatched # NoSequence
               PROVE  Trails(After(a), ses.dispatched, 1)
    BY <1>5 DEF Behind
  <2>1. ses.dispatched \in SequenceNumbers /\ Trails(a, ses.dispatched, 1)
    BY <1>3, <1>4 DEF Behind
  <2>2. 2 * Distance(a + 2, ses.dispatched) < SequenceModulus
    BY <1>1 DEF SequenceRoom
  <2> QED BY <1>4, <2>1, <2>2, TrailsWithRoom
<1>7. Waiting(session', pending, 1)
  <2> SUFFICES ASSUME pending.session = ses.id
               PROVE  Trails(After(a), pending.sequence, 1)
    BY <1>5 DEF Waiting
  <2>1. pending \in Request
    BY <1>3, NoRequestWaits DEF SlotInv, BoundSlots, Bound, GoodRequest
  <2>2. pending.sequence \in SequenceNumbers /\ pending.sequence # NoSequence
    BY <2>1, NotASequence DEF Request
  <2>3. Trails(a, pending.sequence, 1)
    BY <1>3 DEF Waiting
  <2>4. 2 * Distance(a + 2, pending.sequence) < SequenceModulus
    BY <1>1, <2>2 DEF SequenceRoom
  <2> QED BY <1>4, <2>2, <2>3, <2>4, TrailsWithRoom
<1>8. Newest(session', mailbox')
  BY <1>1, <1>4, <1>5 DEF Newest
<1>9. Waiting(session', mailbox', 1)
  BY <1>4, <1>5, <1>8, TrailsItself DEF Waiting, Newest
<1> QED BY <1>2, <1>3, <1>5, <1>6, <1>7, <1>8, <1>9 DEF NewestInv, Leaves

LEMMA AcceptStatusNewest ==
  ASSUME SlotInv, NewestInv, NEW st \in Status, AcceptBoardStatus(st)
  PROVE  NewestInv'
<1> DEFINE reset    == st.boot # link_boot \/ st.rolled
           reported == st.session = session.id
           dropped  == ~reset /\ session.acknowledged /\ ~reported
           faulty   == ~reset /\ reported /\ ~AckValid(session, st)
           rotates  == reset \/ dropped \/ faulty
<1>1. /\ UNCHANGED <<mailbox, pending>> /\ link_open
      /\ shutdown' = shutdown \/ (shutdown = "waiting" /\ shutdown' = "finished"
                                  /\ ~link_open')
      /\ neutral_due' = rotates /\ ~neutral_due
  BY DEF AcceptBoardStatus, IoIdle, ShutdownNeutralApplied
<1>2. CASE rotates
  <2>1. faulty \in BOOLEAN
    OBVIOUS
  <2>2. RotateSession(faulty)
    BY <1>2 DEF AcceptBoardStatus
  <2> QED BY <1>1, <2>1, <2>2, RotationIsNewest DEF NewestInv
<1>3. CASE ~rotates
  <2>1. session' = session \/ session' = Acknowledged(session, st)
    BY <1>3 DEF AcceptBoardStatus
  <2>2. /\ session'.id = session.id
        /\ session'.command_sequence = session.command_sequence
        /\ session'.dispatched = session.dispatched
    BY <2>1 DEF Acknowledged, SlotInv, GoodSession, SessionType
  <2>3. Slack' = Slack
    BY <1>1 DEF Slack
  <2> QED BY <1>1, <1>3, <2>2, <2>3, NewestUntouched
<1> QED BY <1>2, <1>3

LEMMA DrainNewest ==
  ASSUME SlotInv, ShutdownPhase, NewestInv, DrainLatestWrite
  PROVE  NewestInv'
<1>1. /\ mailbox' = NoRequest /\ mailbox \in Request /\ ~neutral_due /\ ~neutral_due'
      /\ link_open' = link_open /\ shutdown' = shutdown /\ Slack' = Slack
  BY DEF DrainLatestWrite, IoIdle, SlotInv, BoundSlots, Bound, GoodRequest, Slack, endVars
<1>2. GoodSession(session)
  BY DEF SlotInv
<1>3. CASE shutdown # "no"
  <2>1. session' = session /\ pending' = pending
    BY <1>1, <1>3 DEF DrainLatestWrite
  <2>2. shutdown = "posted"
    BY <1>3 DEF DrainLatestWrite, IoIdle, NewestInv, ShutdownPhase
  <2>4. Waiting(session, NoRequest, Slack)
    BY <1>2, NoRequestWaits
  <2> QED BY <1>1, <2>1, <2>2, <2>4, <1>3 DEF NewestInv
<1>4. CASE shutdown = "no"
  <2>1. QueueWrite(session, mailbox)
    BY <1>4 DEF DrainLatestWrite
  <2>2. /\ Bound(mailbox, session.id, link_boot) /\ GoodRequest(pending)
        /\ Behind(session, Slack) /\ Waiting(session, mailbox, Slack)
        /\ Waiting(session, pending, Slack)
    BY DEF SlotInv, BoundSlots, Bound, NewestInv
  <2>3. /\ session'.id = session.id
        /\ session'.command_sequence = session.command_sequence
        /\ Behind(session', Slack) /\ Waiting(session, pending', Slack)
        /\ link_open /\ (\/ session.dispatched = session.command_sequence
                         \/ Newest(session, mailbox) \/ Newest(session, pending))
             => session'.dispatched = session.command_sequence
                  \/ Newest(session, pending')
        /\ mailbox.session # session.id => session' = session /\ pending' = pending
    BY <1>1, <1>2, <2>1, <2>2, SlackType, QueueWriteNewest
  <2>4. Waiting(session', pending', Slack) /\ Waiting(session', NoRequest, Slack)
    BY <1>2, <2>3, NoRequestWaits DEF Waiting
  <2>5. link_open => Leaves(session', NoRequest, pending')
    BY <1>2, <1>4, <2>3, NoRequestWaits DEF NewestInv, Leaves, Newest
  <2> QED BY <1>1, <1>4, <2>3, <2>4, <2>5 DEF NewestInv
<1> QED BY <1>3, <1>4

LEMMA NeutralNewest ==
  ASSUME SlotInv, NewestInv, DispatchNeutral
  PROVE  NewestInv'
<1>1. /\ mailbox' = mailbox /\ neutral_due /\ ~neutral_due'
      /\ link_open' = link_open /\ shutdown' = shutdown /\ Slack' = Slack
  BY DEF DispatchNeutral, Slack, endVars
<1>2. CASE ~(link_open /\ shutdown = "no")
  <2>1. session' = session /\ pending' = pending
    BY <1>2 DEF DispatchNeutral
  <2> QED BY <1>1, <2>1, NewestUntouched
<1>3. CASE link_open /\ shutdown = "no"
  <2> DEFINE s == Counted(session)
             r == NextRequest(session, FALSE)
             a == session.command_sequence
  <2>1. /\ QueueWrite(s, r) /\ Slack = 1
    BY <1>3 DEF DispatchNeutral, Slack
  <2>2. /\ GoodSession(session) /\ link_boot \in Boots \cup {NoBoot}
        /\ GoodSession(s) /\ s.id = session.id
        /\ r \in Request /\ r.session = s.id /\ r.boot = link_boot
        /\ GoodRequest(pending) /\ GoodRequest(mailbox)
    BY CountedType, NextRequestType DEF SlotInv, BoundSlots, Bound
  <2>3. /\ s.dispatched = session.dispatched /\ s.command_sequence = After(a)
        /\ r.sequence = After(a) /\ a \in SequenceNumbers /\ After(a) \in SequenceNumbers
    BY <2>2, NumbersOf, AfterIs DEF Counted, NextRequest, GoodSession, SessionType
  <2>4. /\ s.dispatched = NoSequence /\ pending.session # s.id
        /\ mailbox.session = s.id => mailbox.sequence = a
    BY <1>1, <2>2, <2>3 DEF NewestInv, Newest
  <2>5. /\ Behind(s, 1) /\ Waiting(s, pending, 1) /\ Waiting(s, r, 1) /\ Newest(s, r)
        /\ Waiting(s, mailbox, 1) /\ Bound(r, s.id, link_boot)
    BY <2>2, <2>3, <2>4, TrailsItself DEF Behind, Waiting, Newest, Bound, GoodRequest
  <2> HIDE DEF s, r
  <2>6. /\ session'.id = s.id /\ session'.command_sequence = s.command_sequence
        /\ Behind(session', 1) /\ Waiting(s, pending', 1)
        /\ session'.dispatched = s.command_sequence \/ Newest(s, pending')
    BY <1>3, <2>1, <2>2, <2>5, QueueWriteNewest
  <2>7. /\ Waiting(session', mailbox, 1) /\ Waiting(session', pending', 1)
        /\ Leaves(session', mailbox, pending')
    BY <2>5, <2>6 DEF Waiting, Leaves, Newest
  <2> QED BY <1>1, <1>3, <2>1, <2>6, <2>7 DEF NewestInv
<1> QED BY <1>2, <1>3

LEMMA WriteDoneNewest ==
  ASSUME SlotInv, NewestInv, WriteDone
  PROVE  NewestInv'
<1>1. /\ mailbox' = mailbox /\ ~neutral_due /\ ~neutral_due' /\ link_open
      /\ link_open' = link_open /\ shutdown' = shutdown /\ Slack' = Slack
  BY DEF WriteDone, IoIdle, Slack, endVars
<1>2. GoodSession(session)
  BY DEF SlotInv
<1>3. CASE active.shutdown \/ pending = NoRequest
  <2>1. session' = session /\ pending' = pending
    BY <1>3 DEF WriteDone
  <2> QED BY <1>1, <2>1, NewestUntouched
<1>4. CASE ~(active.shutdown \/ pending = NoRequest)
  <2>1. StartWrite(session, pending) /\ pending' = NoRequest /\ pending \in Request
    BY <1>4 DEF WriteDone, SlotInv, BoundSlots, Bound, GoodRequest
  <2>2. Behind(session, Slack) /\ Waiting(session, pending, Slack)
    BY DEF NewestInv
  <2>3. /\ session'.id = session.id
        /\ session'.command_sequence = session.command_sequence
        /\ Behind(session', Slack)
        /\ session.dispatched = session.command_sequence \/ Newest(session, pending)
             => session'.dispatched = session.command_sequence
        /\ pending.session # session.id => session' = session
    BY <1>1, <1>2, <2>1, <2>2, SlackType, StartWriteNewest
  <2>4. Waiting(session', NoRequest, Slack) /\ Waiting(session', mailbox, Slack)
    BY <1>2, <2>3, NoRequestWaits DEF NewestInv, Waiting
  <2>5. Leaves(session, mailbox, pending) => Leaves(session', mailbox, NoRequest)
    BY <1>2, <2>3, NoRequestWaits DEF Leaves, Newest
  <2> QED BY <1>1, <2>1, <2>3, <2>4, <2>5 DEF NewestInv
<1> QED BY <1>3, <1>4

LEMMA ShutdownNewest ==
  ASSUME SlotInv, NewestInv, BeginShutdown
  PROVE  NewestInv'
<1>1. /\ mailbox' = NoRequest /\ ~neutral_due /\ ~neutral_due' /\ link_open' = link_open
      /\ shutdown = "posted" /\ Slack = 1
      /\ GoodSession(session) /\ link_boot \in Boots \cup {NoBoot}
  BY DEF BeginShutdown, IoIdle, Slack, SlotInv
<1> DEFINE a == session.command_sequence
<1>2. /\ a \in SequenceNumbers /\ After(a) \in SequenceNumbers
      /\ NextSequence(session) = After(a)
      /\ session.dispatched = NoSequence \/ session.dispatched \in SequenceNumbers
  BY <1>1, NumbersOf, AfterIs
<1>3. CASE ~link_open
  <2>1. session' = session /\ pending' = pending /\ shutdown' = "finished" /\ Slack' = 0
    BY <1>3 DEF BeginShutdown, Slack
  <2>2. Behind(session, 0)
    BY <1>1, <1>2, TrailsLess DEF NewestInv, Behind
  <2>3. Waiting(session, pending, 0)
    <3> SUFFICES ASSUME pending.session = session.id
                 PROVE  Trails(a, pending.sequence, 0)
      BY DEF Waiting
    <3>1. pending.sequence \in SequenceNumbers
      BY <1>1, NoRequestWaits DEF SlotInv, BoundSlots, Bound, GoodRequest, Request
    <3> QED BY <1>1, <1>2, <3>1, TrailsLess DEF NewestInv, Waiting
  <2>4. Waiting(session, NoRequest, 0)
    BY <1>1, NoRequestWaits
  <2> QED BY <1>1, <1>3, <2>1, <2>2, <2>3, <2>4 DEF NewestInv
<1>4. CASE link_open
  <2> DEFINE s == Counted(session)
             r == NextRequest(session, TRUE)
  <2>1. /\ shutdown' = "waiting" /\ Slack' = 0
        /\ \/ StartWrite(s, r) /\ pending' = pending
           \/ pending' = r /\ session' = s
    BY <1>4 DEF BeginShutdown, PendingAtShutdown, Slack
  <2>2. /\ GoodSession(s) /\ s.id = session.id
        /\ r \in Request /\ r.session = s.id
    BY <1>1, CountedType, NextRequestType
  <2>3. /\ s.dispatched = session.dispatched /\ s.command_sequence = After(a)
        /\ r.sequence = After(a)
    BY <1>1, <1>2 DEF Counted, NextRequest, GoodSession, SessionType
  <2>4. Behind(s, 0)
    <3> SUFFICES ASSUME session.dispatched # NoSequence
                 PROVE  Trails(After(a), session.dispatched, 0)
      BY <2>3 DEF Behind
    <3>1. Trails(a, session.dispatched, 1)
      BY <1>1 DEF NewestInv, Behind
    <3> QED BY <1>2, <3>1, TrailsFurther
  <2>5. Waiting(s, pending, 0)
    <3> SUFFICES ASSUME pending.session = session.id
                 PROVE  Trails(After(a), pending.sequence, 0)
      BY <2>2, <2>3 DEF Waiting
    <3>1. pending.sequence \in SequenceNumbers
      BY <1>1, NoRequestWaits DEF SlotInv, BoundSlots, Bound, GoodRequest, Request
    <3>2. Trails(a, pending.sequence, 1)
      BY <1>1 DEF NewestInv, Waiting
    <3> QED BY <1>2, <3>1, <3>2, TrailsFurther
  <2>6. Waiting(s, r, 0) /\ Newest(s, r)
    BY <1>2, <2>2, <2>3, TrailsItself DEF Waiting, Newest
  <2> HIDE DEF s, r
  <2>7. /\ session'.id = s.id /\ session'.command_sequence = s.command_sequence
        /\ Behind(session', 0) /\ Waiting(s, pending', 0)
        /\ session'.dispatched = s.command_sequence \/ Newest(s, pending')
    BY <1>4, <2>1, <2>2, <2>4, <2>5, <2>6, StartWriteNewest
  <2>8. Waiting(session', NoRequest, 0) /\ Waiting(session', pending', 0)
    BY <2>2, <2>7, BridgeAssumption DEF Waiting, NoRequest, GoodSession, SessionType
  <2>9. Leaves(session', NoRequest, pending')
    BY <2>7 DEF Leaves, Newest
  <2> QED BY <1>1, <2>1, <2>7, <2>8, <2>9 DEF NewestInv
<1> QED BY <1>3, <1>4

LEMMA NewestStep ==
  ASSUME SlotInv, ShutdownPhase, NewestInv, [Next]_vars
  PROVE  NewestInv'
<1>1. CASE \/ \E m \in Message, single \in PublisherCounts : OnCommand(m, single)
           \/ \E valid, single \in PublisherCounts :
                RefreshAuthorityEndpoint(valid, single)
           \/ CalibrateImuGyro \/ StatusExpires \/ CommandExpires \/ UNCHANGED vars
  <2>1. UNCHANGED <<session, mailbox, pending, neutral_due, link_open, shutdown>>
    BY <1>1
    DEF OnCommand, RefreshAuthorityEndpoint, CalibrateImuGyro, StatusExpires,
        CommandExpires, vars, writeVars, sessionVars, endVars
  <2>2. Slack' = Slack
    BY <2>1 DEF Slack
  <2> QED BY <2>1, <2>2, NewestUntouched
<1>2. CASE DestroyNode
  <2>1. /\ UNCHANGED <<session, mailbox, pending, neutral_due, link_open>>
        /\ shutdown' = "posted" /\ Slack' = Slack
    BY <1>2 DEF DestroyNode, sessionVars, writeVars, Slack
  <2> QED BY <2>1, NewestUntouched
<1>3. CASE ShutdownDeadline
  <2>1. /\ UNCHANGED <<session, mailbox, pending, neutral_due>>
        /\ shutdown' = "finished" /\ ~link_open' /\ Slack' = Slack
    BY <1>3 DEF ShutdownDeadline, sessionVars, writeVars, Slack
  <2> QED BY <2>1, NewestUntouched
<1>4. CASE WriteAborted
  <2>1. /\ UNCHANGED <<session, mailbox, pending, neutral_due, link_open, shutdown>>
        /\ Slack' = Slack
    BY <1>4 DEF WriteAborted, endVars, Slack
  <2> QED BY <2>1, NewestUntouched
<1>5. CASE \E single \in PublisherCounts, expires \in BOOLEAN :
             WriteCommand(single, expires)
  BY <1>5, WriteCommandNewest DEF PublisherCounts
<1>6. CASE DrainLatestWrite \/ DispatchNeutral \/ BeginShutdown
  BY <1>6, DrainNewest, NeutralNewest, ShutdownNewest
<1>7. CASE WriteDone
  BY <1>7, WriteDoneNewest
<1>8. CASE OpenSerial \/ \E own \in BOOLEAN : IoFault(own)
  <2>1. /\ RotateSession(FALSE) /\ mailbox' = mailbox
        /\ pending' = pending \/ pending' = NoRequest
        /\ shutdown' # "waiting"
    BY <1>8 DEF OpenSerial, IoFault, endVars
  <2> QED BY <2>1, RotationIsNewest
<1>9. CASE RejectBoardStatus
  <2>1. /\ UNCHANGED <<mailbox, pending, link_open, shutdown>>
        /\ ~neutral_due /\ Slack' = Slack
    BY <1>9 DEF RejectBoardStatus, endVars, IoIdle, Slack
  <2>2. CASE session' = session /\ neutral_due' = neutral_due
    BY <2>1, <2>2, NewestUntouched
  <2>3. CASE RotateSession(TRUE)
    BY <2>1, <2>3, RotationIsNewest DEF NewestInv
  <2> QED BY <1>9, <2>2, <2>3 DEF RejectBoardStatus, sessionVars
<1>10. CASE \E st \in StatusInputs : AcceptBoardStatus(st)
  BY <1>10, StatusInputsType, AcceptStatusNewest
<1> QED
  BY <1>1, <1>2, <1>3, <1>4, <1>5, <1>6, <1>7, <1>8, <1>9, <1>10
  DEF Next, RosNext, IoNext

LEMMA PhaseStep ==
  ASSUME ShutdownPhase, [Next]_vars
  PROVE  ShutdownPhase'
<1>1. shutdown' \in {shutdown, "posted", "waiting", "finished", "no"}
  BY DEF Next, RosNext, IoNext, OnCommand, RefreshAuthorityEndpoint, CalibrateImuGyro,
         WriteCommand, DestroyNode, DrainLatestWrite, DispatchNeutral, WriteDone,
         WriteAborted, OpenSerial, IoFault, RejectBoardStatus, AcceptBoardStatus,
         BeginShutdown, ShutdownDeadline, StatusExpires, CommandExpires, endVars, vars
<1> QED
  BY <1>1 DEF ShutdownPhase

-----------------------------------------------------------------------------
(* The other types.                                                         *)

FlagTypes ==
  /\ link_open \in BOOLEAN
  /\ status_age \in {"none", "fresh", "expired"}
  /\ status_semantic_fault \in BOOLEAN
  /\ heartbeat_timeout_latched \in BOOLEAN
  /\ command_age \in {"none", "fresh", "expired"}
  /\ command_timeout_latched \in BOOLEAN
  /\ authority_publisher_identified \in BOOLEAN
  /\ command_publisher_gate \in BOOLEAN
  /\ authority_refresh_requested \in BOOLEAN
  /\ calibration \in {"idle", "requested", "active"}
  /\ neutral_due \in BOOLEAN
  /\ shutdown \in {"no", "posted", "waiting", "finished"}

RecordTypes ==
  /\ board \in [session : Sessions \cup {NoSession}, outputs : BOOLEAN,
                calibrating : BOOLEAN]
  /\ command \in [valid : BOOLEAN, enabled : BOOLEAN, armed : BOOLEAN,
                  generation : Generations]
  /\ barrier \in [arm_authorized : BOOLEAN, authorized_generation : Generations,
                  saw_disarmed : BOOLEAN, disarmed_generation : Generations]
  /\ shutdown_neutral \in [session : Sessions \cup {NoSession},
                           sequence : SequenceNumbers]
  /\ last_disarm \in 0..NoDisarm

LEMMA GenerationFacts ==
  /\ 0 \in Generations /\ NoDisarm \in 0..NoDisarm
  /\ Generations \subseteq 0..NoDisarm
  BY BridgeAssumption DEF Generations, NoDisarm

(* The I/O thread touches the flags of the link only.                       *)
LEMMA IoFlags ==
  ASSUME FlagTypes, UNCHANGED <<command_age, command_timeout_latched, graphVars, calibration>>,
         link_open' \in BOOLEAN, neutral_due' \in BOOLEAN,
         status_age' \in {"none", status_age}, status_semantic_fault' \in BOOLEAN,
         heartbeat_timeout_latched' \in BOOLEAN,
         shutdown' \in {"no", "posted", "waiting", "finished"}
  PROVE  FlagTypes'
<1>1. UNCHANGED <<authority_publisher_identified, command_publisher_gate,
                  authority_refresh_requested, command_age, command_timeout_latched,
                  calibration>>
  BY DEF graphVars
<1>2. status_age' \in {"none", "fresh", "expired"}
  BY DEF FlagTypes
<1> QED
  BY <1>1, <1>2, ZenonT(40) DEF FlagTypes

LEMMA FlagStep ==
  ASSUME FlagTypes, SlotInv, [Next]_vars
  PROVE  FlagTypes'
<1>1. CASE \E m \in Message, single \in PublisherCounts : OnCommand(m, single)
  <2>1. PICK m \in Message, single \in BOOLEAN : OnCommand(m, single)
    BY <1>1 DEF PublisherCounts
  <2>2. GateOpens(single) \in BOOLEAN /\ CommandTimesOut \in BOOLEAN
    BY DEF GateOpens, CommandTimesOut, FlagTypes
  <2>3. /\ UNCHANGED <<link_open, status_age, status_semantic_fault,
                       heartbeat_timeout_latched, calibration, neutral_due, shutdown>>
        /\ command_age' = "fresh" \/ command_age' = command_age
    BY <2>1 DEF OnCommand, statusVars, writeVars, endVars
  <2>4. /\ command_timeout_latched' \in BOOLEAN
        /\ authority_publisher_identified' \in BOOLEAN
        /\ command_publisher_gate' \in BOOLEAN
        /\ authority_refresh_requested' \in BOOLEAN
    BY <2>1, <2>2 DEF OnCommand, UpdatePublisherGate
  <2> QED
    BY <2>3, <2>4, ZenonT(40) DEF FlagTypes
<1>2. CASE \E valid, single \in PublisherCounts :
             RefreshAuthorityEndpoint(valid, single)
  <2>1. PICK valid \in BOOLEAN, single \in BOOLEAN : RefreshAuthorityEndpoint(valid, single)
    BY <1>2 DEF PublisherCounts
  <2>2. /\ UNCHANGED <<link_open, status_age, status_semantic_fault,
                       heartbeat_timeout_latched, command_age, command_timeout_latched,
                       calibration, neutral_due, shutdown>>
        /\ authority_publisher_identified' \in BOOLEAN
        /\ command_publisher_gate' \in BOOLEAN
        /\ authority_refresh_requested' \in BOOLEAN
    BY <2>1 DEF RefreshAuthorityEndpoint, statusVars, writeVars, endVars
  <2> QED
    BY <2>2, ZenonT(40) DEF FlagTypes
<1>3. CASE CalibrateImuGyro
  BY <1>3 DEF CalibrateImuGyro, FlagTypes, statusVars, commandVars, graphVars,
              writeVars, endVars
<1>4. CASE \E single \in PublisherCounts, expires \in BOOLEAN :
             WriteCommand(single, expires)
  <2>1. PICK single \in BOOLEAN, expires \in BOOLEAN : WriteCommand(single, expires)
    BY <1>4 DEF PublisherCounts
  <2>2. /\ GateOpens(single) \in BOOLEAN /\ CommandTimesOut \in BOOLEAN
        /\ calibration' \in {"idle", calibration}
        /\ heartbeat_timeout_latched' \in BOOLEAN
    BY <2>1 DEF GateOpens, CommandTimesOut, FlagTypes, WriteCommand
  <2> QED
    BY <2>1, <2>2 DEF WriteCommand, UpdatePublisherGate, FlagTypes, endVars
<1>t. /\ link_open \in BOOLEAN /\ neutral_due \in BOOLEAN
      /\ status_semantic_fault \in BOOLEAN /\ heartbeat_timeout_latched \in BOOLEAN
      /\ shutdown \in {"no", "posted", "waiting", "finished"}
  BY DEF FlagTypes
<1>5. CASE DrainLatestWrite \/ DispatchNeutral \/ WriteDone \/ WriteAborted
  <2>1. /\ UNCHANGED <<link_open, status_age, status_semantic_fault,
                       heartbeat_timeout_latched, shutdown>>
        /\ UNCHANGED <<command_age, command_timeout_latched, graphVars, calibration>>
        /\ neutral_due' = neutral_due \/ neutral_due' = FALSE
    BY <1>5 DEF DrainLatestWrite, DispatchNeutral, WriteDone, WriteAborted,
                statusVars, commandVars, endVars
  <2> QED
    BY <1>t, <2>1, IoFlags, Zenon
<1>6. CASE OpenSerial \/ \E own \in BOOLEAN : IoFault(own)
  <2>1. /\ link_open' \in BOOLEAN /\ status_age' = "none"
        /\ status_semantic_fault' = FALSE
        /\ heartbeat_timeout_latched' = FALSE \/ UNCHANGED heartbeat_timeout_latched
        /\ UNCHANGED <<command_age, command_timeout_latched, graphVars, calibration>>
        /\ neutral_due' = neutral_due \/ neutral_due' = TRUE
        /\ shutdown' = shutdown \/ shutdown' = "no" \/ shutdown' = "finished"
    BY <1>6 DEF OpenSerial, IoFault, commandVars, endVars
  <2> QED
    BY <1>t, <2>1, IoFlags, Zenon
<1>7. CASE RejectBoardStatus
  <2>1. /\ UNCHANGED <<link_open, status_age, heartbeat_timeout_latched, shutdown>>
        /\ status_semantic_fault' = TRUE
        /\ UNCHANGED <<command_age, command_timeout_latched, graphVars, calibration>>
        /\ neutral_due' = neutral_due \/ neutral_due' = TRUE
    BY <1>7 DEF RejectBoardStatus, commandVars, endVars
  <2> QED
    BY <1>t, <2>1, IoFlags, Zenon
<1>8. CASE \E st \in StatusInputs : AcceptBoardStatus(st)
  <2>1. PICK st \in StatusInputs : AcceptBoardStatus(st)
    BY <1>8
  <2>2. CalibrationAfter(st) \in {"idle", "active", calibration}
    BY DEF CalibrationAfter
  <2>3. /\ shutdown' \in {shutdown, "finished"} /\ link_open' \in BOOLEAN
        /\ neutral_due' \in BOOLEAN
    BY <2>1 DEF AcceptBoardStatus
  <2> QED
    BY <2>1, <2>2, <2>3 DEF AcceptBoardStatus, FlagTypes, commandVars, graphVars
<1>9. CASE DestroyNode \/ BeginShutdown \/ ShutdownDeadline
  <2>1. /\ UNCHANGED <<status_age, status_semantic_fault, heartbeat_timeout_latched,
                       neutral_due>>
        /\ link_open' = link_open \/ link_open' = FALSE
        /\ UNCHANGED <<command_age, command_timeout_latched, graphVars, calibration>>
        /\ shutdown' = "posted" \/ shutdown' = "waiting" \/ shutdown' = "finished"
    BY <1>9 DEF DestroyNode, BeginShutdown, ShutdownDeadline, statusVars,
                commandVars, writeVars
  <2> QED
    BY <1>t, <2>1, IoFlags, Zenon
<1>10. CASE StatusExpires \/ CommandExpires \/ UNCHANGED vars
  BY <1>10 DEF StatusExpires, CommandExpires, FlagTypes, statusVars, commandVars,
               graphVars, writeVars, endVars, vars
<1> QED
  BY <1>1, <1>2, <1>3, <1>4, <1>5, <1>6, <1>7, <1>8, <1>9, <1>10
  DEF Next, RosNext, IoNext

LEMMA RecordsUntouched ==
  ASSUME RecordTypes, UNCHANGED <<board, command, shutdown_neutral>>,
         (UNCHANGED <<barrier, last_disarm>>) \/ LoseAuthority
  PROVE  RecordTypes'
<1>1. CASE UNCHANGED <<barrier, last_disarm>>
  BY <1>1 DEF RecordTypes
<1>2. CASE LoseAuthority
  BY <1>2, GenerationFacts DEF RecordTypes, LoseAuthority, BarrierReset
<1> QED
  BY <1>1, <1>2

LEMMA CommandDropped ==
  ASSUME RecordTypes
  PROVE  [command EXCEPT !.valid = FALSE, !.enabled = FALSE]
           \in [valid : BOOLEAN, enabled : BOOLEAN, armed : BOOLEAN,
                generation : Generations]
  BY DEF RecordTypes

LEMMA RecordStep ==
  ASSUME RecordTypes, SlotInv, [Next]_vars
  PROVE  RecordTypes'
<1> DEFINE Barriers == [arm_authorized : BOOLEAN, authorized_generation : Generations,
                        saw_disarmed : BOOLEAN, disarmed_generation : Generations]
           Commands == [valid : BOOLEAN, enabled : BOOLEAN, armed : BOOLEAN,
                        generation : Generations]
<1>0. /\ barrier \in Barriers /\ BarrierReset(barrier) \in Barriers
      /\ last_disarm \in 0..NoDisarm
      /\ command \in Commands
  BY GenerationFacts DEF RecordTypes, BarrierReset
<1>1. ASSUME UNCHANGED <<board, shutdown_neutral>>, command' \in Commands,
             barrier' \in Barriers, last_disarm' \in 0..NoDisarm
      PROVE  RecordTypes'
  BY <1>1 DEF RecordTypes
<1>2. CASE \E m \in Message, single \in PublisherCounts : OnCommand(m, single)
  <2>1. PICK m \in Message, single \in PublisherCounts : OnCommand(m, single)
    BY <1>2
  <2>2. m.armed \in BOOLEAN /\ m.enable \in BOOLEAN /\ m.generation \in Generations
    BY DEF Message
  <2> DEFINE bar == IF AuthorityRevoked(single) THEN BarrierReset(barrier) ELSE barrier
             seen == IF AuthorityRevoked(single) THEN NoDisarm ELSE last_disarm
  <2>3. bar \in Barriers /\ seen \in 0..NoDisarm
    BY <1>0, GenerationFacts
  <2>4. UNCHANGED <<board, shutdown_neutral>>
    BY <2>1 DEF OnCommand, statusVars, endVars
  <2>5. CASE m.well_formed /\ GateOpens(single)
    <3>1. /\ command' = [valid |-> TRUE, enabled |-> m.enable,
                         armed |-> m.armed, generation |-> m.generation]
          /\ barrier' = BarrierAfter(bar, m)
          /\ last_disarm' = IF m.armed THEN seen ELSE m.generation
      BY <2>1, <2>5 DEF OnCommand
    <3> HIDE DEF bar, seen
    <3>2. BarrierAfter(bar, m) \in Barriers
      BY <2>2, <2>3 DEF BarrierAfter
    <3>3. last_disarm' \in 0..NoDisarm
      BY <2>2, <2>3, <3>1, GenerationFacts
    <3>4. command' \in Commands
      BY <2>2, <3>1
    <3> QED
      BY <1>1, <2>4, <3>1, <3>2, <3>3, <3>4
  <2>6. CASE ~(m.well_formed /\ GateOpens(single))
    <3>1. /\ command' = [command EXCEPT !.valid = FALSE, !.enabled = FALSE]
          /\ LoseAuthority
      BY <2>1, <2>6 DEF OnCommand
    <3> QED
      BY <1>0, <1>1, <2>4, <3>1, CommandDropped, GenerationFacts DEF LoseAuthority
  <2> QED
    BY <2>5, <2>6
<1>3. CASE \E valid, single \in PublisherCounts :
             RefreshAuthorityEndpoint(valid, single)
  <2>1. /\ UNCHANGED <<board, shutdown_neutral>>
        /\ command' \in {command, [command EXCEPT !.valid = FALSE, !.enabled = FALSE]}
        /\ LoseAuthority \/ UNCHANGED <<barrier, last_disarm>>
    BY <1>3 DEF RefreshAuthorityEndpoint, statusVars, endVars
  <2> QED
    BY <1>0, <1>1, <2>1, CommandDropped, GenerationFacts DEF LoseAuthority
<1>4. CASE \E single \in PublisherCounts, expires \in BOOLEAN :
             WriteCommand(single, expires)
  <2>1. /\ UNCHANGED <<board, shutdown_neutral>>
        /\ command' \in {command, [command EXCEPT !.valid = FALSE, !.enabled = FALSE]}
        /\ barrier' \in {barrier, BarrierReset(barrier)}
        /\ last_disarm' \in {last_disarm, NoDisarm}
    BY <1>4 DEF WriteCommand, CommandAfterChecks, endVars
  <2> QED
    BY <1>0, <1>1, <2>1, CommandDropped, GenerationFacts
<1>5. CASE CalibrateImuGyro
  BY <1>5, RecordsUntouched DEF CalibrateImuGyro, statusVars, commandVars, endVars
<1>6. CASE \/ DestroyNode \/ DrainLatestWrite \/ DispatchNeutral \/ WriteDone
           \/ WriteAborted \/ ShutdownDeadline
  BY <1>6, RecordsUntouched
  DEF DestroyNode, DrainLatestWrite, DispatchNeutral, WriteDone, WriteAborted,
      ShutdownDeadline, sessionVars, statusVars, commandVars, endVars
<1>7. CASE OpenSerial \/ RejectBoardStatus \/ \E own \in BOOLEAN : IoFault(own)
  BY <1>7, RecordsUntouched
  DEF OpenSerial, RejectBoardStatus, IoFault, RotateSession, sessionVars,
      commandVars, endVars
<1>8. CASE \E st \in StatusInputs : AcceptBoardStatus(st)
  <2>1. PICK st \in Status : AcceptBoardStatus(st)
    BY <1>8, StatusInputsType
  <2>2. /\ board' \in [session : Sessions \cup {NoSession}, outputs : BOOLEAN,
                       calibrating : BOOLEAN]
        /\ UNCHANGED <<command, shutdown_neutral>>
    BY <2>1 DEF AcceptBoardStatus, Status, commandVars
  <2>3. LoseAuthority \/ UNCHANGED <<barrier, last_disarm>>
    BY <2>1 DEF AcceptBoardStatus, RotateSession
  <2>4. barrier' \in Barriers /\ last_disarm' \in 0..NoDisarm
    BY <1>0, <2>3, GenerationFacts DEF LoseAuthority
  <2> QED
    BY <2>2, <2>4 DEF RecordTypes
<1>9. CASE BeginShutdown
  <2>1. /\ UNCHANGED <<board, command, barrier, last_disarm>>
        /\ shutdown_neutral' \in {shutdown_neutral,
             [session |-> session.id, sequence |-> NextSequence(session)]}
    BY <1>9 DEF BeginShutdown, statusVars, commandVars
  <2>2. session.id \in Sessions /\ NextSequence(session) \in SequenceNumbers
    BY NextSequenceType DEF SlotInv, GoodSession, SessionType
  <2> QED
    BY <2>1, <2>2 DEF RecordTypes
<1>10. CASE StatusExpires \/ CommandExpires \/ UNCHANGED vars
  BY <1>10, RecordsUntouched
  DEF StatusExpires, CommandExpires, sessionVars, statusVars, commandVars, endVars, vars
<1> QED
  BY <1>2, <1>3, <1>4, <1>5, <1>6, <1>7, <1>8, <1>9, <1>10 DEF Next, RosNext, IoNext

-----------------------------------------------------------------------------
(* Theorems.                                                                *)

LEMMA BridgeInit ==
  ASSUME Init
  PROVE  BarrierInv /\ SlotInv
<1>1. BarrierInv
  BY NoDisarmIsNat
  DEF Init, BarrierInv, BarrierTypes, BarrierType, BarrierWaits,
      AuthorizedAfterDisarm
<1>2. PICK id \in Sessions : session = NewSession(id, FALSE)
  BY DEF Init
<1>3. GoodSession(session) /\ session.id = id
  BY <1>2, NewSessionType
<1> QED
  BY <1>1, <1>3, EmptyIsBound DEF Init, SlotInv, BoundSlots

LEMMA BridgeInductive == Spec => [](BarrierInv /\ SlotInv)
  BY BridgeInit, BarrierStep, SlotStep, PTL DEF Spec

(* rotate_session_locked, on_command and every handler that resets the      *)
(* barrier: no armed command is believed without an older disarmed one      *)
(* since authority was last lost.                                           *)
THEOREM BridgeAuthorizedAfterDisarm == Spec => []AuthorizedAfterDisarm
<1>1. BarrierInv /\ SlotInv => AuthorizedAfterDisarm
  BY DEF BarrierInv
<1> QED
  BY <1>1, BridgeInductive, PTL

(* start_write_io may leave out the boot ID check: the session implies it.  *)
THEOREM BridgeSessionBindsBoot == Spec => []SessionBindsBoot
<1>1. BarrierInv /\ SlotInv => SessionBindsBoot
  BY DEF SlotInv, BoundSlots, Bound, SessionBindsBoot, Slots
<1> QED
  BY <1>1, BridgeInductive, PTL

(* start_write_io: every enabled frame is authorised when it leaves.        *)
THEOREM BridgeEnabledFrameIsAuthorized == Spec => EnabledFrameIsAuthorized
<1> DEFINE A == active' # active /\ active'.enable => FrameIsAuthorized
<1>1. (BarrierInv /\ SlotInv) /\ [Next]_vars => [A]_vars
  BY EnabledStep
<1>2. Spec => [][A]_vars
  BY <1>1, BridgeInductive, PTL DEF Spec
<1> QED
  BY <1>2 DEF EnabledFrameIsAuthorized, FrameIsAuthorized

LEMMA BridgeOpening == Spec => [](SlotInv /\ Opens(session) /\ LastFrameIsNeutral)
<1>1. Init => SlotInv /\ Opens(session) /\ LastFrameIsNeutral
  <2> SUFFICES ASSUME Init PROVE SlotInv /\ Opens(session) /\ LastFrameIsNeutral
    OBVIOUS
  <2>1. SlotInv
    BY BridgeInit
  <2>2. PICK id \in Sessions : session = NewSession(id, FALSE)
    BY DEF Init
  <2>3. Opens(session)
    BY <2>2, NewSessionOpens
  <2>4. LastFrameIsNeutral
    BY DEF Init, LastFrameIsNeutral
  <2> QED
    BY <2>1, <2>3, <2>4
<1>2. SlotInv /\ Opens(session) /\ LastFrameIsNeutral /\ [Next]_vars
        => SlotInv' /\ Opens(session') /\ LastFrameIsNeutral'
  BY SlotStep, OpensStep, ShutdownStep
<1>3. Opens(session)' <=> Opens(session')
  BY DEF Opens
<1> QED
  BY <1>1, <1>2, <1>3, PTL DEF Spec

(* start_write_io and accept_board_status_io, whatever the board claims: a  *)
(* session is never acknowledged, nor anything enabled in it, before its    *)
(* disabled opening frame went out and a frame of it was reported applied.  *)
THEOREM BridgeSessionOpensDisabled == Spec => []SessionOpensDisabled
<1>1. Opens(session) => SessionOpensDisabled
  BY DEF Opens, SessionOpensDisabled
<1> QED
  BY <1>1, BridgeOpening, PTL

(* begin_shutdown_io and the completion of the write it waits behind.       *)
THEOREM BridgeNothingEnabledAfterShutdown == Spec => NothingEnabledAfterShutdown
<1> DEFINE A == shutdown = "waiting" /\ active' # active => ~active'.enable
<1>1. (SlotInv /\ Opens(session) /\ LastFrameIsNeutral) /\ [Next]_vars => [A]_vars
  BY ShutdownStep
<1>2. Spec => [][A]_vars
  BY <1>1, BridgeOpening, PTL DEF Spec
<1> QED
  BY <1>2 DEF NothingEnabledAfterShutdown

LEMMA InitIsNewest ==
  ASSUME Init
  PROVE  NewestInv
<1>1. SlotInv
  BY BridgeInit
<1>2. PICK id \in Sessions : session = NewSession(id, FALSE)
  BY DEF Init
<1>3. session.dispatched = NoSequence /\ GoodSession(session)
  BY <1>1, <1>2 DEF NewSession, SlotInv
<1>4. Behind(session, Slack) /\ Waiting(session, NoRequest, Slack)
  BY <1>3, NoRequestWaits DEF Behind
<1> QED
  BY <1>4 DEF Init, NewestInv

LEMMA BridgeNewest == Spec => [](SlotInv /\ ShutdownPhase /\ NewestInv)
<1>1. Init => SlotInv /\ ShutdownPhase /\ NewestInv
  BY BridgeInit, InitIsNewest DEF Init, ShutdownPhase
<1>2. (SlotInv /\ ShutdownPhase /\ NewestInv) /\ [Next]_vars
        => (SlotInv /\ ShutdownPhase /\ NewestInv)'
  BY SlotStep, PhaseStep, NewestStep
<1> QED
  BY <1>1, <1>2, PTL DEF Spec

LEMMA NewestLeaves ==
  ASSUME NewestInv
  PROVE  NewestRequestLeaves
  BY DEF NewestInv, Leaves, Newest, NewestRequestLeaves

(* write_command, queue_write_io, dispatch_neutral_current_session_io and   *)
(* begin_shutdown_io: the newest request of the session, whichever of the   *)
(* two threads built it, leaves or waits on an open link; an older one that *)
(* overtook it never pushes it out.                                         *)
THEOREM BridgeNewestRequestLeaves == Spec => []NewestRequestLeaves
<1>1. NewestInv => NewestRequestLeaves
  BY NewestLeaves
<1> QED
  BY <1>1, BridgeNewest, PTL

(* The types of the bridge's state, for all its constants.                  *)
THEOREM BridgeTypes == Spec => []TypeOK
<1>1. Init => FlagTypes /\ RecordTypes
  <2> SUFFICES ASSUME Init PROVE FlagTypes /\ RecordTypes
    OBVIOUS
  <2>1. 0 \in SequenceNumbers
    BY BridgeAssumption DEF SequenceNumbers
  <2>2. FlagTypes
    BY DEF Init, FlagTypes
  <2>3. RecordTypes
    BY <2>1, GenerationFacts DEF Init, RecordTypes
  <2> QED
    BY <2>2, <2>3
<1>2. (FlagTypes /\ RecordTypes) /\ SlotInv /\ [Next]_vars => (FlagTypes /\ RecordTypes)'
  BY FlagStep, RecordStep
<1>3. FlagTypes /\ RecordTypes /\ SlotInv => TypeOK
  BY DEF FlagTypes, RecordTypes, SlotInv, GoodSession, BoundSlots, Bound,
         GoodRequest, Slots, TypeOK
<1> QED
  BY <1>1, <1>2, <1>3, BridgeInductive, PTL DEF Spec
=============================================================================
