------------------------ MODULE GenMotorSystemProofs ------------------------
(***************************************************************************)
(* The driver and the motors together stay in agreement about node IDs,    *)
(* for any number of motors and threads, any lengths of the queues and any *)
(* losses.                                                                 *)
(*                                                                         *)
(* A change of a node ID is in one place at a time: in a call that has not *)
(* been sent, on the wire, in the answer of the motor, or nowhere any more *)
(* because something has been lost.  The invariant says of each place what *)
(* the object claims, what ID the motor has, and which ID its answers on   *)
(* their way carry.                                                        *)
(*                                                                         *)
(* At the end, and without a hypothesis: the driver in the system is that  *)
(* of GenMotor.                                                            *)
(***************************************************************************)
EXTENDS GenMotorSystem, GenMotorUniqueProofs, SequenceTheorems

\* The hypothesis of the first three theorems: one thread changes node IDs, and
\* none by UID or by a reset, which the motors of GenMotorSystem do not take.
NodeIdsChangeOneWay ==
    /\ OneThreadChangesNodeIds
    /\ \A c \in Caller : "reset_can_config" \notin Ops[c]

\* The hypothesis of the last one: if a thread changes node IDs, no other
\* thread uses the motors.
OneThreadUsesTheMotors ==
    \A c, d \in Caller : "set_node_id" \in Ops[c] /\ Ops[d] # {} => c = d

-----------------------------------------------------------------------------
(* The invariant. *)

\* The node ID an acknowledgement carries.
From(f) == f.id - ACK_BASE

CommandFrame == [motor : Motor, node_id : Byte, cmd : PendingCmd, new_node_id : Byte]
AnswerFrame == {f \in Frame : /\ NodeIdIsValid(From(f))
                              /\ f.dlc = 8
                              /\ f.cmd \in PendingCmd}

LinkTypeOK ==
    /\ motorId \in [Motor -> Byte]
    /\ wire \in Seq(CommandFrame)
    /\ back \in [Motor -> Seq(AnswerFrame)]

\* Threads are in calls on motor objects, and in no reset and no OTA.
CallsOnMotors ==
    \A c \in Caller :
      /\ call[c].op \in (MotorOp \ {"reset_can_config"}) \cup {"none"}
      /\ pc[c] \notin {"prepare", "apply_reset", "undo_ota"}

\* Where a change of the node ID of motor m may be.
AtStore(c, m) ==
    /\ pc[c] = "store"
    /\ call[c].op = "set_node_id"
    /\ call[c].motor = m

Unsent(c, m) ==
    /\ call[c].op = "set_node_id"
    /\ call[c].motor = m
    /\ \/ pc[c] \in {"send", "rollback"}
       \/ pc[c] = "record" /\ ~call[c].accepted

Changes(m) == {n \in 1..Len(wire) : wire[n].motor = m /\ wire[n].cmd = SET_NODE_ID}
Confirmations(m) == {n \in 1..Len(back[m]) : back[m][n].cmd = SET_NODE_ID}

\* The address says that a change to its requested ID is on its way.
IsChanging(a) ==
    a.pending_node_id_change = (a.requested_node_id # a.node_id)

\* The object is on a business ID, and claims the ID of the motor and those its
\* answers on their way carry.
IdsClaimed(m) ==
    /\ addr[m].configured
    /\ addr[m].pending_node_id_change => addr[m].requested_node_id # addr[m].node_id
    /\ motorId[m] \in Claims(m)
    /\ \A n \in 1..Len(back[m]) : From(back[m][n]) \in Claims(m)

\* The answer to a change: the motor has the ID the answer makes the object
\* take, the later answers carry it, and there is no other change.
ConfirmationsAgree(m) ==
    \A n \in Confirmations(m) :
      /\ Changes(m) = {}
      /\ \A i \in (n + 1)..Len(back[m]) :
           From(back[m][i]) = motorId[m] /\ i \notin Confirmations(m)
      /\ IF back[m][n].status = STATUS_OK
         THEN addr[m].pending_node_id_change => motorId[m] = addr[m].requested_node_id
         ELSE motorId[m] = addr[m].node_id

\* A change on the wire is the one the object asks for.
ChangesAgree(m) ==
    \A n \in Changes(m) :
      /\ IsChanging(addr[m])
      /\ wire[n].node_id = addr[m].node_id
      /\ wire[n].new_node_id = addr[m].requested_node_id
      /\ \A i \in Changes(m) : i = n

\* As long as nothing of the motor has been lost, a pending change is somewhere.
PendingIsSomewhere(m) ==
    (m \notin disturbed /\ addr[m].pending_node_id_change) =>
      NodeIdInTransit(m) \/ \E c \in Caller : Unsent(c, m)

MotorInv(m) ==
    /\ IdsClaimed(m)
    /\ ConfirmationsAgree(m)
    /\ ChangesAgree(m)
    /\ PendingIsSomewhere(m)

\* A change that is about to be stored: it repeats the pending one, if there is
\* one.
StoreReady(c, m) ==
    /\ ~NodeIdInTransit(m)
    /\ call[c].node_id = addr[m].node_id
    /\ addr[m].pending_node_id_change => addr[m].requested_node_id = call[c].new_node_id

\* A change that has been stored and not sent: what the roll-back would put
\* back is the same claim, or none, and in that case the motor still has the
\* old ID and nothing on its way says anything else.
RollbackReady(c, m) ==
    /\ ~NodeIdInTransit(m)
    /\ call[c].node_id = addr[m].node_id
    /\ addr[m].requested_node_id = call[c].new_node_id
    /\ IsChanging(addr[m])
    /\ saved[c].pending_node_id_change =>
         /\ addr[m].pending_node_id_change
         /\ saved[c].requested_node_id = addr[m].requested_node_id
         /\ m \in disturbed
    /\ ~saved[c].pending_node_id_change =>
         /\ motorId[m] = addr[m].node_id
         /\ \A n \in 1..Len(back[m]) : From(back[m][n]) = addr[m].node_id

CallInv(c, m) ==
    /\ AtStore(c, m) => StoreReady(c, m)
    /\ Unsent(c, m) => RollbackReady(c, m)

DriverInv ==
    /\ UniqueInv
    /\ AddressInv
    /\ CallsOnMotors

SystemInv ==
    /\ DriverInv
    /\ LinkTypeOK
    /\ \A m \in Motor : MotorInv(m)
    /\ \A c \in Caller, m \in Motor : CallInv(c, m)

-----------------------------------------------------------------------------
(* Lemmas about node IDs, frames and queues. *)

\* An acknowledgement is decoded as one from the node it names.
LEMMA DecodeAnswer ==
    ASSUME NEW f \in AnswerFrame
    PROVE  /\ f \in Frame
           /\ DecodeFrameId(f.id).kind = "ack"
           /\ DecodeFrameId(f.id).node_id = From(f)
<1>1. f.id \in Int /\ f.id - ACK_BASE \in 1..127 /\ f.id - ACK_BASE # 126
  BY DEF AnswerFrame, Frame, StandardId, From, NodeIdIsValid, MIN_BUSINESS_NODE_ID,
         MAX_NODE_ID, MANAGEMENT_NODE_ID, ACK_BASE
<1>2. f.id \in 385..511 /\ f.id # 510
  BY <1>1 DEF ACK_BASE
<1>3. DecodeFrameId(f.id) = [kind |-> "ack", node_id |-> f.id - ACK_BASE]
  BY <1>2 DEF DecodeFrameId, MANAGEMENT_ACK_ID, MANAGEMENT_REPORT_ID, ACK_BASE,
              REPORT_BASE, MAX_NODE_ID
<1>4. QED BY <1>3 DEF AnswerFrame, From

\* The answer of a motor on a business node ID.
LEMMA AnswerIs ==
    ASSUME NEW n \in Byte, NodeIdIsValid(n), NEW cmd \in PendingCmd,
           NEW status \in {STATUS_OK, NACK}
    PROVE  /\ Answer(n, cmd, status) \in AnswerFrame
           /\ From(Answer(n, cmd, status)) = n
           /\ Answer(n, cmd, status).cmd = cmd
           /\ Answer(n, cmd, status).status = status
BY DEF Answer, AnswerFrame, From, Frame, StandardId, Byte, Word, PendingCmd, ACK_BASE,
       NodeIdIsValid, MAX_NODE_ID, MIN_BUSINESS_NODE_ID, STATUS_OK, NACK

\* Every claim is to a business node ID.
LEMMA ClaimsAreBusiness ==
    ASSUME DriverInv, NEW m \in Motor, addr[m].configured, NEW n \in Claims(m)
    PROVE  n \in Byte /\ NodeIdIsValid(n) /\ n # MANAGEMENT_NODE_ID
<1>1. WellAddressed(addr[m]) /\ addr[m] \in Address
  BY DEF DriverInv, AddressInv, ConfiguredIffBusiness, TypeOK
<1>2. QED BY <1>1, ManagementIdInvalid DEF WellAddressed, Claims, Address

\* A node ID has one claimant at most, and is attributed to it.
LEMMA OneClaimant ==
    ASSUME DriverInv, \A m \in Motor : addr[m].configured,
           NEW m \in Motor, NEW n \in Claims(m)
    PROVE  /\ \A k \in Motor : n \in Claims(k) => k = m
           /\ Claimants(n) = {m}
           /\ FindByAnyNode(n) = m
<1>1. n # MANAGEMENT_NODE_ID
  BY ClaimsAreBusiness
<1>2. \A k \in Motor : n \in Claims(k) => k = m
  BY <1>1 DEF DriverInv, UniqueInv, NodeIdsUnique
<1>3. Claimants(n) = {m}
  BY <1>2 DEF Claimants
<1>4. QED BY <1>2, <1>3, FindByAnyNodeType

\* Only set_node_id sends SET_NODE_ID.
LEMMA CommandsOfCalls ==
    \A op \in MotorOp \cup {"none"} :
      /\ Command(op) \in PendingCmd
      /\ Command(op) = SET_NODE_ID <=> op = "set_node_id"
<1>1. \A op \in MotorOp \cup {"none"} : Command(op) \in PendingCmd
  BY CommandType DEF MotorOp, ManagementOp
<1>2. \A op \in MotorOp \cup {"none"} : Command(op) = SET_NODE_ID <=> op = "set_node_id"
  BY DEF MotorOp, Op, TargetOp, SimpleOp, ManagementOp, Command,
       SET_RUN_MODE, SET_CURRENT_TARGET, SET_SPEED_TARGET, SET_POSITION_TARGET,
       SET_SPEED_PID, READ_SPEED_PID, SET_POSITION_PID, READ_POSITION_PID,
       SET_NODE_ID, READ_NODE_ID, READ_APP_VERSION, SET_REPORT_CONFIG,
       READ_REPORT_CONFIG, RESET_CAN_CONFIG, SET_FOC_CONFIG, READ_FOC_CONFIG,
       ZERO_CALIBRATION, READ_ZERO
<1>3. QED BY <1>1, <1>2

\* At most one thread is in a set_node_id.
LEMMA OneChangeAtATime ==
    ASSUME DriverInv, NodeIdsChangeOneWay, NEW c \in Caller, NEW d \in Caller,
           call[c].op = "set_node_id", call[d].op = "set_node_id"
    PROVE  c = d
BY DEF DriverInv, UniqueInv, CallsPermitted, NodeIdsChangeOneWay, OneThreadChangesNodeIds

\* The first element of a queue leaves it.
LEMMA FirstLeaves ==
    ASSUME NEW S, NEW s \in Seq(S), s # <<>>
    PROVE  /\ Len(s) \in Nat /\ Len(s) >= 1
           /\ Head(s) = s[1] /\ s[1] \in S
           /\ Tail(s) \in Seq(S)
           /\ Len(Tail(s)) = Len(s) - 1
           /\ \A n \in 1..Len(Tail(s)) : Tail(s)[n] = s[n + 1]
<1>1. /\ Head(s) \in S /\ Tail(s) \in Seq(S) /\ Len(Tail(s)) = Len(s) - 1
      /\ \A n \in 1..Len(Tail(s)) : Tail(s)[n] = s[n + 1]
  BY HeadTailProperties
<1>2. Head(s) = s[1]
  OBVIOUS
<1>3. Len(s) \in Nat /\ Len(s) >= 1
  BY <1>1, LenProperties
<1>4. QED BY <1>1, <1>2, <1>3

\* In transit: on the wire or in an answer.
LEMMA InTransitIs ==
    ASSUME NEW m
    PROVE  NodeIdInTransit(m) <=> (Changes(m) # {} \/ Confirmations(m) # {})
BY DEF NodeIdInTransit, Changes, Confirmations

-----------------------------------------------------------------------------
(* What a step leaves alone. *)

\* The claims of a motor object depend on its address alone.
LEMMA SameClaims ==
    ASSUME NEW m \in Motor, addr'[m] = addr[m]
    PROVE  Claims(m)' = Claims(m)
BY ClaimsAre

\* A motor whose address, node ID and answers stay as they are, and whose change
\* on the wire, if it has one, is still there unless it has been lost.
LEMMA MotorKept ==
    ASSUME NEW m \in Motor, MotorInv(m), LinkTypeOK, LinkTypeOK',
           addr'[m] = addr[m], motorId'[m] = motorId[m], back'[m] = back[m],
           \A n \in Changes(m)' : \E i \in Changes(m) : wire'[n] = wire[i],
           \A n, i \in Changes(m)' : n = i,
           Changes(m) # {} => Changes(m)' # {} \/ m \in disturbed',
           \A c \in Caller : Unsent(c, m) => Unsent(c, m)',
           m \notin disturbed' => m \notin disturbed
    PROVE  MotorInv(m)'
<1>1. Claims(m)' = Claims(m) /\ Confirmations(m)' = Confirmations(m)
  BY SameClaims DEF Confirmations
<1>2. IdsClaimed(m)'
  BY <1>1 DEF MotorInv, IdsClaimed
<1>3. ConfirmationsAgree(m)'
  <2>1. Changes(m) = {} => Changes(m)' = {}
    OBVIOUS
  <2>2. QED BY <1>1, <2>1 DEF MotorInv, ConfirmationsAgree
<1>4. ChangesAgree(m)'
  BY DEF MotorInv, ChangesAgree, IsChanging
<1>5. PendingIsSomewhere(m)'
  <2>1. NodeIdInTransit(m) => NodeIdInTransit(m)' \/ m \in disturbed'
    <3>1. NodeIdInTransit(m)' <=> (Changes(m)' # {} \/ Confirmations(m)' # {})
      BY DEF NodeIdInTransit, Changes, Confirmations
    <3>2. QED BY <1>1, <3>1, InTransitIs
  <2>2. QED BY <2>1 DEF MotorInv, PendingIsSomewhere
<1>6. QED BY <1>2, <1>3, <1>4, <1>5 DEF MotorInv

\* A call about a motor whose address, node ID and answers stay as they are, and
\* of which nothing more is on its way.
LEMMA CallKept ==
    ASSUME NEW c \in Caller, NEW m \in Motor, CallInv(c, m),
           addr'[m] = addr[m], motorId'[m] = motorId[m], back'[m] = back[m],
           NodeIdInTransit(m)' => NodeIdInTransit(m),
           m \in disturbed => m \in disturbed',
           AtStore(c, m)' =>
             /\ AtStore(c, m)
             /\ call'[c].node_id = call[c].node_id
             /\ call'[c].new_node_id = call[c].new_node_id,
           Unsent(c, m)' =>
             /\ Unsent(c, m)
             /\ call'[c].node_id = call[c].node_id
             /\ call'[c].new_node_id = call[c].new_node_id
             /\ saved'[c].pending_node_id_change = saved[c].pending_node_id_change
             /\ saved'[c].requested_node_id = saved[c].requested_node_id
    PROVE  CallInv(c, m)'
<1>1. AtStore(c, m)' => StoreReady(c, m)'
  BY DEF CallInv, StoreReady
<1>2. Unsent(c, m)' => RollbackReady(c, m)'
  BY DEF CallInv, RollbackReady, IsChanging
<1>3. QED BY <1>1, <1>2 DEF CallInv

\* A step that touches neither the link nor any address, in which no change of
\* a node ID is stored, sent or given up.
LEMMA NothingMoves ==
    ASSUME SystemInv, LinkTypeOK', UNCHANGED <<addr, motorId, wire, back, disturbed>>,
           \A c \in Caller, m \in Motor :
             /\ AtStore(c, m)' =>
                  /\ AtStore(c, m)
                  /\ call'[c].node_id = call[c].node_id
                  /\ call'[c].new_node_id = call[c].new_node_id
             /\ Unsent(c, m) => Unsent(c, m)'
             /\ Unsent(c, m)' =>
                  /\ Unsent(c, m)
                  /\ call'[c].node_id = call[c].node_id
                  /\ call'[c].new_node_id = call[c].new_node_id
                  /\ saved'[c].pending_node_id_change = saved[c].pending_node_id_change
                  /\ saved'[c].requested_node_id = saved[c].requested_node_id
    PROVE  /\ \A m \in Motor : MotorInv(m)'
           /\ \A c \in Caller, m \in Motor : CallInv(c, m)'
<1>1. \A m \in Motor : MotorInv(m)'
  <2>1. TAKE m \in Motor
  <2>2. Changes(m)' = Changes(m)
    BY DEF Changes
  <2>3. \A n, i \in Changes(m) : n = i
    BY DEF SystemInv, MotorInv, ChangesAgree
  <2>4. QED BY <2>2, <2>3, MotorKept DEF SystemInv
<1>2. ASSUME NEW c \in Caller, NEW m \in Motor
      PROVE  CallInv(c, m)'
  <2>1. NodeIdInTransit(m)' => NodeIdInTransit(m)
    BY DEF NodeIdInTransit
  <2>2. QED BY <2>1, CallKept DEF SystemInv
<1>3. QED BY <1>1, <1>2

-----------------------------------------------------------------------------
(* The driver's own steps. *)

\* What of the driver does not depend on the link stays as it is when the
\* driver does nothing.
LEMMA DriverRests ==
    ASSUME DriverInv, UNCHANGED vars
    PROVE  /\ DriverInv'
           /\ addr' = addr
           /\ \A c \in Caller, m \in Motor : /\ (AtStore(c, m)' <=> AtStore(c, m))
                                             /\ (Unsent(c, m)' <=> Unsent(c, m))
<1>1. UniqueInv' /\ AddressInv'
  BY StutterUniqueInv, StutterAddressInv DEF DriverInv
<1>2. addr' = addr /\ pc' = pc /\ call' = call
  BY DEF vars, motorVars, callVars
<1>3. CallsOnMotors'
  BY <1>2 DEF DriverInv, CallsOnMotors
<1>4. QED BY <1>1, <1>2, <1>3 DEF DriverInv, AtStore, Unsent

\* A set_node_id begins when no other change of the motor is on its way.
LEMMA BeginCallInv ==
    ASSUME SystemInv, NodeIdsChangeOneWay, NEW c \in Caller, BeginCall(c)
    PROVE  SystemInv'
<1>1. PICK k \in MotorCalls : /\ Prepare(c, k)
                              /\ k.op = "set_node_id" => MayChange(k.motor, k.new_node_id)
  BY DEF BeginCall
<1> DEFINE kk == [k EXCEPT !.node_id = addr[k.motor].node_id]
<1>2. k \in Call /\ k.op \in MotorOp \ {"reset_can_config"} /\ k.motor \in Motor
  BY <1>1, CallsType, CallOps DEF Prepare, MayCall, NodeIdsChangeOneWay, Call
<1>3. /\ kk.op = k.op /\ kk.motor = k.motor /\ kk.new_node_id = k.new_node_id
      /\ kk.node_id = addr[k.motor].node_id
  BY <1>2 DEF Call
<1>4. call' = [call EXCEPT ![c] = kk]
  BY <1>1 DEF Prepare
<1> HIDE DEF kk
<1>5. call'[c] = kk /\ \A d \in Caller \ {c} : call'[d] = call[d]
  BY <1>4 DEF SystemInv, DriverInv, UniqueInv, TypeOK
<1>6. /\ pc[c] = "idle"
      /\ pc'[c] = (IF IsStoring(k.op) THEN "store" ELSE "send")
      /\ \A d \in Caller \ {c} : pc'[d] = pc[d]
  BY <1>1 DEF Prepare, MayCall, Goto, SystemInv, DriverInv, UniqueInv, TypeOK
<1>7. UNCHANGED <<addr, saved, motorId, wire, back, disturbed>>
  BY <1>1 DEF Prepare, motorVars, BeginCall, linkVars
<1>8. LinkTypeOK'
  BY <1>7 DEF SystemInv, LinkTypeOK
<1>9. DriverInv'
  <2>1. Begin(c)
    BY <1>1 DEF Begin
  <2>2. UniqueInv' /\ AddressInv'
    BY <2>1, BeginUniqueInv, BeginAddressInv
       DEF SystemInv, DriverInv, NodeIdsChangeOneWay
  <2>3. CallsOnMotors'
    BY <1>2, <1>3, <1>5, <1>6 DEF CallsOnMotors, SystemInv, DriverInv
  <2>4. QED BY <2>2, <2>3 DEF DriverInv
<1>10. ASSUME NEW d \in Caller, NEW m \in Motor
       PROVE  /\ (Unsent(d, m)' <=> Unsent(d, m))
              /\ Unsent(d, m) => call'[d] = call[d]
              /\ AtStore(d, m)' =>
                   \/ AtStore(d, m) /\ call'[d] = call[d]
                   \/ d = c /\ m = k.motor /\ k.op = "set_node_id"
  <2>1. CASE d = c
    <3>1. ~Unsent(c, m) /\ ~AtStore(c, m)
      BY <1>6 DEF Unsent, AtStore
    <3>2. ~Unsent(c, m)'
      BY <1>3, <1>5, <1>6 DEF Unsent, IsStoring
    <3>3. AtStore(c, m)' => m = k.motor /\ k.op = "set_node_id"
      BY <1>3, <1>5 DEF AtStore
    <3>4. QED BY <2>1, <3>1, <3>2, <3>3
  <2>2. CASE d # c
    BY <1>5, <1>6, <2>2 DEF Unsent, AtStore
  <2>3. QED BY <2>1, <2>2
<1>11. \A m \in Motor : NodeIdInTransit(m)' <=> NodeIdInTransit(m)
  BY <1>7 DEF NodeIdInTransit
<1>12. \A m \in Motor : MotorInv(m)'
  <2>1. TAKE m \in Motor
  <2>2. Changes(m)' = Changes(m)
    BY <1>7 DEF Changes
  <2>3. \A n, i \in Changes(m) : n = i
    BY DEF SystemInv, MotorInv, ChangesAgree
  <2>4. QED BY <1>7, <1>8, <1>10, <2>2, <2>3, MotorKept DEF SystemInv
<1>13. ASSUME NEW d \in Caller, NEW m \in Motor
       PROVE  CallInv(d, m)'
  <2>1. CASE AtStore(d, m)' => AtStore(d, m) /\ call'[d] = call[d]
    BY <1>7, <1>10, <1>11, <2>1, CallKept DEF SystemInv
  <2>2. CASE d = c /\ m = k.motor /\ k.op = "set_node_id"
    <3>1. MayChange(m, k.new_node_id)
      BY <1>1, <2>2
    <3>2. StoreReady(c, m)'
      BY <1>3, <1>5, <1>7, <1>11, <2>2, <3>1 DEF StoreReady, MayChange
    <3>3. ~Unsent(c, m)'
      BY <1>6, <1>10 DEF Unsent
    <3>4. QED BY <2>2, <3>2, <3>3 DEF CallInv
  <2>3. QED BY <1>10, <2>1, <2>2
<1>14. QED BY <1>8, <1>9, <1>12, <1>13 DEF SystemInv

\* The driver's invariants are kept by every step of a call.
LEMMA ContinueDriverInv ==
    ASSUME DriverInv, NodeIdsChangeOneWay, NEW c \in Caller, Continue(c)
    PROVE  DriverInv' /\ ~ApplyReset(c) /\ ~PrepareOta(c) /\ ~UndoOta(c)
<1>1. UniqueInv' /\ AddressInv'
  BY ContinueUniqueInv, ContinueAddressInv DEF DriverInv, NodeIdsChangeOneWay
<1>2. ~ApplyReset(c) /\ ~PrepareOta(c) /\ ~UndoOta(c)
  BY DEF ApplyReset, PrepareOta, UndoOta, DriverInv, CallsOnMotors
<1>3. /\ call[c].op \notin {"reset_can_config", "set_ota_state"}
      /\ TypeOK
  BY DEF DriverInv, UniqueInv, CallsOnMotors, MotorOp
<1>4. call'[c] \in {call[c], NoCall} /\ \A d \in Caller \ {c} : call'[d] = call[d]
  BY <1>2, <1>3 DEF Continue, StoreTarget, StoreReportConfig, StoreNodeId, RefuseNodeId,
     RecordSent, RecordRefused, RecordManagementSent, RecordManagementRefused,
     RollbackTarget, RollbackReportConfig, RollbackNodeId, Return, TypeOK
<1>5. /\ pc'[c] \in {"idle", "send", "rollback"}
      /\ \A d \in Caller \ {c} : pc'[d] = pc[d]
  BY <1>2, <1>3 DEF Continue, StoreTarget, StoreReportConfig, StoreNodeId, RefuseNodeId,
     RecordSent, RecordRefused, RecordManagementSent, RecordManagementRefused,
     RollbackTarget, RollbackReportConfig, RollbackNodeId, Return, Goto, TypeOK
<1>6. CallsOnMotors'
  BY <1>4, <1>5 DEF DriverInv, CallsOnMotors, NoCall
<1>7. QED BY <1>1, <1>2, <1>6 DEF DriverInv

\* The store: a pending change is only repeated; a new one extends the claims of
\* an object that agrees with its motor.
LEMMA StoreNodeIdInv ==
    ASSUME SystemInv, NodeIdsChangeOneWay, NEW c \in Caller, StoreNodeId(c),
           UNCHANGED linkVars
    PROVE  SystemInv'
<1>1. LinkTypeOK' /\ UNCHANGED <<motorId, wire, back, disturbed, call>>
  BY DEF SystemInv, LinkTypeOK, linkVars, StoreNodeId
<1>2. DriverInv' /\ TypeOK
  <2>1. Continue(c)
    BY DEF Continue
  <2>2. QED BY <2>1, ContinueDriverInv DEF SystemInv, DriverInv, UniqueInv
<1>3. PICK m0 \in Motor, n \in Byte : m0 = call[c].motor /\ n = call[c].new_node_id
  BY <1>2 DEF TypeOK, Call
<1>4. AtStore(c, m0) /\ StoreReady(c, m0) /\ MotorInv(m0)
  BY <1>3 DEF StoreNodeId, AtStore, SystemInv, CallInv
<1>5. /\ addr'[m0] = AfterNodeIdRequest(addr[m0], n)
      /\ \A m \in Motor \ {m0} : addr'[m] = addr[m]
      /\ addr[m0] \in Address
  BY <1>2, <1>3 DEF StoreNodeId, TypeOK
<1>6. /\ addr'[m0].node_id = addr[m0].node_id
      /\ addr'[m0].configured = addr[m0].configured
      /\ addr'[m0].requested_node_id = n
      /\ addr'[m0].pending_node_id_change = (n # addr[m0].node_id)
      /\ addr[m0].pending_node_id_change \in BOOLEAN
  BY <1>5 DEF AfterNodeIdRequest, Address
<1>7. addr[m0].pending_node_id_change =>
        n = addr[m0].requested_node_id /\ n # addr[m0].node_id
  BY <1>4, <1>3 DEF StoreReady, MotorInv, IdsClaimed
<1>8. Changes(m0) = {} /\ Confirmations(m0) = {}
  BY <1>4, InTransitIs DEF StoreReady
<1>9. \A m \in Motor : Changes(m)' = Changes(m) /\ Confirmations(m)' = Confirmations(m)
  BY <1>1 DEF Changes, Confirmations
<1>10. \A m \in Motor : NodeIdInTransit(m)' <=> NodeIdInTransit(m)
  BY <1>1 DEF NodeIdInTransit
<1>11. pc'[c] = "send" /\ \A d \in Caller \ {c} : pc'[d] = pc[d] /\ saved'[d] = saved[d]
  BY <1>2 DEF StoreNodeId, Goto, TypeOK
<1>12. /\ saved'[c].requested_node_id = addr[m0].requested_node_id
       /\ saved'[c].pending_node_id_change = addr[m0].pending_node_id_change
  BY <1>2, <1>3 DEF StoreNodeId, TypeOK, Saved
<1>13. \A d \in Caller : call[d].op = "set_node_id" => d = c
  BY OneChangeAtATime DEF StoreNodeId, SystemInv
<1>14. Unsent(c, m0)' /\ \A d \in Caller, m \in Motor : ~Unsent(d, m) /\ ~AtStore(d, m)'
  BY <1>1, <1>4, <1>11, <1>13 DEF Unsent, AtStore
<1>15. m0 \notin disturbed => ~addr[m0].pending_node_id_change
  BY <1>4, <1>8, <1>14, InTransitIs DEF MotorInv, PendingIsSomewhere
<1>16. Claims(m0) \subseteq Claims(m0)'
       /\ (~addr[m0].pending_node_id_change => Claims(m0) = {addr[m0].node_id})
  BY <1>6, <1>7 DEF Claims
<1>17. ASSUME NEW m \in Motor
       PROVE  MotorInv(m)'
  <2>1. CASE m = m0
    <3>1. IdsClaimed(m0)'
      BY <1>1, <1>4, <1>6, <1>16 DEF MotorInv, IdsClaimed
    <3>2. ConfirmationsAgree(m0)' /\ ChangesAgree(m0)'
      BY <1>2, <1>8, <1>9 DEF ConfirmationsAgree, ChangesAgree
    <3>3. PendingIsSomewhere(m0)'
      BY <1>14 DEF PendingIsSomewhere
    <3>4. QED BY <2>1, <3>1, <3>2, <3>3 DEF MotorInv
  <2>2. CASE m # m0
    <3>1. \A i, j \in Changes(m) : i = j
      BY DEF SystemInv, MotorInv, ChangesAgree
    <3>2. QED BY <1>1, <1>5, <1>9, <1>14, <2>2, <3>1, MotorKept DEF SystemInv
  <2>3. QED BY <2>1, <2>2
<1>18. ASSUME NEW d \in Caller, NEW m \in Motor
       PROVE  CallInv(d, m)'
  <2>1. CASE Unsent(d, m)'
    <3>1. d = c /\ m = m0
      BY <1>1, <1>13, <1>3, <2>1 DEF Unsent
    <3>2. IsChanging(addr[m0])'
      BY <1>6 DEF IsChanging
    <3>3. ~addr[m0].pending_node_id_change =>
            /\ motorId[m0] = addr[m0].node_id
            /\ \A i \in 1..Len(back[m0]) : From(back[m0][i]) = addr[m0].node_id
      BY <1>4, <1>16 DEF MotorInv, IdsClaimed
    <3>4. RollbackReady(c, m0)'
      BY <1>1, <1>2, <1>4, <1>3, <1>6, <1>7, <1>10, <1>12, <1>15, <3>2, <3>3
         DEF RollbackReady, StoreReady
    <3>5. QED BY <1>14, <3>1, <3>4 DEF CallInv
  <2>2. CASE ~Unsent(d, m)'
    BY <1>14, <2>2 DEF CallInv
  <2>3. QED BY <2>1, <2>2
<1>19. QED BY <1>1, <1>2, <1>17, <1>18 DEF SystemInv

\* The roll-back: either the claim it puts back is the pending one, or it gives
\* up a claim that nothing of the motor has taken up.
LEMMA RollbackNodeIdInv ==
    ASSUME SystemInv, NodeIdsChangeOneWay, NEW c \in Caller, RollbackNodeId(c),
           UNCHANGED linkVars
    PROVE  SystemInv'
<1>1. LinkTypeOK' /\ UNCHANGED <<motorId, wire, back, disturbed>>
  BY DEF SystemInv, LinkTypeOK, linkVars
<1>2. DriverInv' /\ TypeOK
  <2>1. Continue(c)
    BY DEF Continue
  <2>2. QED BY <2>1, ContinueDriverInv DEF SystemInv, DriverInv, UniqueInv
<1>3. PICK m0 \in Motor : m0 = call[c].motor
  BY <1>2 DEF TypeOK, Call
<1>4. Unsent(c, m0) /\ RollbackReady(c, m0) /\ MotorInv(m0)
  BY <1>3 DEF RollbackNodeId, Unsent, SystemInv, CallInv
<1>5. /\ addr'[m0] = AfterNodeIdRollback(addr[m0], saved[c])
      /\ \A m \in Motor \ {m0} : addr'[m] = addr[m]
      /\ addr[m0] \in Address /\ saved[c] \in Saved
  BY <1>2, <1>3 DEF RollbackNodeId, TypeOK
<1>6. /\ addr'[m0].node_id = addr[m0].node_id
      /\ addr'[m0].configured = addr[m0].configured
      /\ addr'[m0].requested_node_id = saved[c].requested_node_id
      /\ addr'[m0].pending_node_id_change = saved[c].pending_node_id_change
      /\ addr[m0].pending_node_id_change \in BOOLEAN
      /\ saved[c].pending_node_id_change \in BOOLEAN
  BY <1>5 DEF AfterNodeIdRollback, Address, Saved
<1>7. Changes(m0) = {} /\ Confirmations(m0) = {}
  BY <1>4, InTransitIs DEF RollbackReady
<1>8. \A m \in Motor : Changes(m)' = Changes(m) /\ Confirmations(m)' = Confirmations(m)
  BY <1>1 DEF Changes, Confirmations
<1>9. /\ pc'[c] = "idle"
      /\ \A d \in Caller \ {c} : pc'[d] = pc[d] /\ call'[d] = call[d]
  BY <1>2 DEF RollbackNodeId, Return, Goto, TypeOK
<1>10. \A d \in Caller : call[d].op = "set_node_id" => d = c
  BY OneChangeAtATime DEF RollbackNodeId, SystemInv
<1>11. \A d \in Caller, m \in Motor :
         /\ ~Unsent(d, m)' /\ ~AtStore(d, m)'
         /\ m # m0 => ~Unsent(d, m)
  BY <1>3, <1>9, <1>10 DEF Unsent, AtStore
<1>12. ASSUME NEW m \in Motor
       PROVE  MotorInv(m)'
  <2>1. CASE m = m0
    <3>1. Claims(m0) = {addr[m0].node_id} \cup
            (IF addr[m0].pending_node_id_change THEN {addr[m0].requested_node_id} ELSE {})
      BY DEF Claims
    <3>2. Claims(m0)' = {addr[m0].node_id} \cup
            (IF saved[c].pending_node_id_change THEN {saved[c].requested_node_id} ELSE {})
      BY <1>6 DEF Claims
    <3>3. IdsClaimed(m0)'
      <4>1. CASE saved[c].pending_node_id_change
        BY <1>1, <1>4, <1>6, <3>1, <3>2, <4>1 DEF RollbackReady, MotorInv, IdsClaimed
      <4>2. CASE ~saved[c].pending_node_id_change
        BY <1>1, <1>4, <1>6, <3>2, <4>2 DEF RollbackReady, MotorInv, IdsClaimed
      <4>3. QED BY <4>1, <4>2
    <3>4. ConfirmationsAgree(m0)' /\ ChangesAgree(m0)'
      BY <1>7, <1>8 DEF ConfirmationsAgree, ChangesAgree
    <3>5. PendingIsSomewhere(m0)'
      BY <1>1, <1>4, <1>6 DEF PendingIsSomewhere, RollbackReady
    <3>6. QED BY <2>1, <3>3, <3>4, <3>5 DEF MotorInv
  <2>2. CASE m # m0
    <3>1. \A i, j \in Changes(m) : i = j
      BY DEF SystemInv, MotorInv, ChangesAgree
    <3>2. QED BY <1>1, <1>5, <1>8, <1>11, <2>2, <3>1, MotorKept DEF SystemInv
  <2>3. QED BY <2>1, <2>2
<1>13. \A d \in Caller, m \in Motor : CallInv(d, m)'
  BY <1>11 DEF CallInv
<1>14. QED BY <1>1, <1>2, <1>12, <1>13 DEF SystemInv

\* The other steps of a call store, send and give up no change of a node ID.
LEMMA ProceedInv ==
    ASSUME SystemInv, NodeIdsChangeOneWay, NEW c \in Caller, Proceed(c)
    PROVE  SystemInv'
<1>1. Continue(c) /\ UNCHANGED linkVars
  BY DEF Proceed
<1>2. CASE StoreNodeId(c)
  BY <1>1, <1>2, StoreNodeIdInv
<1>3. CASE RollbackNodeId(c)
  BY <1>1, <1>3, RollbackNodeIdInv
<1>4. CASE ~StoreNodeId(c) /\ ~RollbackNodeId(c)
  <2>1. DriverInv' /\ ~ApplyReset(c) /\ ~PrepareOta(c) /\ ~UndoOta(c) /\ TypeOK
    BY <1>1, ContinueDriverInv DEF SystemInv, DriverInv, UniqueInv
  <2>2. UNCHANGED <<motorId, wire, back, disturbed>> /\ LinkTypeOK'
    BY <1>1 DEF linkVars, SystemInv, LinkTypeOK
  <2>3. addr' = addr
    BY <1>1, <1>4, <2>1 DEF Continue, StoreTarget, StoreReportConfig, RefuseNodeId,
       RecordSent, RecordRefused, RecordManagementSent, RecordManagementRefused,
       RollbackTarget, RollbackReportConfig, motorVars
  <2>4. \A d \in Caller \ {c} : pc'[d] = pc[d] /\ call'[d] = call[d] /\ saved'[d] = saved[d]
    BY <1>1, <1>4, <2>1 DEF Continue, StoreTarget, StoreReportConfig, RefuseNodeId,
       RecordSent, RecordRefused, RecordManagementSent, RecordManagementRefused,
       RollbackTarget, RollbackReportConfig, Return, Goto, TypeOK
  <2>5. \/ /\ call[c].op = "set_node_id" /\ pc[c] = "record" /\ ~call[c].accepted
           /\ pc'[c] = "rollback" /\ call' = call /\ saved' = saved
        \/ \A m \in Motor : ~Unsent(c, m) /\ ~Unsent(c, m)' /\ ~AtStore(c, m)'
    <3>1. CASE StoreTarget(c) \/ StoreReportConfig(c)
      <4>1. call' = call /\ call[c].op # "set_node_id"
        BY <3>1 DEF StoreTarget, StoreReportConfig, TargetOp
      <4>2. QED BY <4>1 DEF Unsent, AtStore
    <3>2. CASE RefuseNodeId(c)
      <4>1. pc[c] = "store" /\ pc'[c] = "idle"
        BY <2>1, <3>2 DEF RefuseNodeId, Return, Goto, TypeOK
      <4>2. QED BY <4>1 DEF Unsent, AtStore
    <3>3. CASE RecordSent(c)
      <4>1. pc[c] = "record" /\ call[c].accepted /\ pc'[c] \in {"idle", "apply_reset"}
        BY <2>1, <3>3 DEF RecordSent, Return, Goto, TypeOK
      <4>2. QED BY <4>1 DEF Unsent, AtStore
    <3>4. CASE RecordRefused(c)
      <4>1. CASE call[c].op = "set_node_id"
        BY <2>1, <3>4, <4>1 DEF RecordRefused, IsStoring, Goto, TypeOK
      <4>2. CASE call[c].op # "set_node_id"
        <5>1. call'[c].op # "set_node_id"
          BY <2>1, <3>4, <4>2 DEF RecordRefused, Return, NoCall, TypeOK
        <5>2. QED BY <4>2, <5>1 DEF Unsent, AtStore
      <4>3. QED BY <4>1, <4>2
    <3>5. CASE \/ RecordManagementSent(c) \/ RecordManagementRefused(c)
               \/ RollbackTarget(c) \/ RollbackReportConfig(c)
      <4>1. call[c].op # "set_node_id"
        BY <3>5 DEF RecordManagementSent, RecordManagementRefused, RollbackTarget,
                    RollbackReportConfig, ManagementOp, TargetOp
      <4>2. call'[c].op # "set_node_id"
        BY <2>1, <3>5, <4>1 DEF RecordManagementSent, RecordManagementRefused,
           RollbackTarget, RollbackReportConfig, Return, NoCall, TypeOK
      <4>3. QED BY <4>1, <4>2 DEF Unsent, AtStore
    <3>6. QED BY <1>1, <1>4, <2>1, <3>1, <3>2, <3>3, <3>4, <3>5 DEF Continue
  <2>6. \A d \in Caller, m \in Motor :
          /\ AtStore(d, m)' =>
               /\ AtStore(d, m)
               /\ call'[d].node_id = call[d].node_id
               /\ call'[d].new_node_id = call[d].new_node_id
          /\ Unsent(d, m) => Unsent(d, m)'
          /\ Unsent(d, m)' =>
               /\ Unsent(d, m)
               /\ call'[d].node_id = call[d].node_id
               /\ call'[d].new_node_id = call[d].new_node_id
               /\ saved'[d].pending_node_id_change = saved[d].pending_node_id_change
               /\ saved'[d].requested_node_id = saved[d].requested_node_id
    <3>1. TAKE d \in Caller, m \in Motor
    <3>2. CASE d # c
      BY <2>4, <3>2 DEF AtStore, Unsent
    <3>3. CASE d = c
      <4>1. CASE \A k \in Motor : ~Unsent(c, k) /\ ~Unsent(c, k)' /\ ~AtStore(c, k)'
        BY <3>3, <4>1
      <4>2. CASE /\ call[c].op = "set_node_id" /\ pc[c] = "record" /\ ~call[c].accepted
                 /\ pc'[c] = "rollback" /\ call' = call /\ saved' = saved
        BY <3>3, <4>2 DEF AtStore, Unsent
      <4>3. QED BY <2>5, <4>1, <4>2
    <3>4. QED BY <3>2, <3>3
  <2>7. QED BY <2>1, <2>2, <2>3, <2>6, NothingMoves DEF SystemInv
<1>5. QED BY <1>2, <1>3, <1>4

\* The answer of the transport keeps the driver's invariants.
LEMMA SendDriverInv ==
    ASSUME DriverInv, NEW c \in Caller, NEW accepted \in BOOLEAN, Send(c, accepted)
    PROVE  /\ DriverInv' /\ addr' = addr /\ saved' = saved
           /\ pc[c] = "send" /\ pc'[c] = "record"
           /\ call'[c] = [call[c] EXCEPT !.accepted = accepted]
           /\ call[c] \in Call
           /\ \A d \in Caller \ {c} : pc'[d] = pc[d] /\ call'[d] = call[d]
<1>1. UniqueInv' /\ AddressInv' /\ TypeOK
  BY SendUniqueInv, SendAddressInv DEF DriverInv, UniqueInv
<1>2. addr' = addr /\ saved' = saved
  BY DEF Send, motorVars
<1>3. pc[c] = "send" /\ pc'[c] = "record" /\ \A d \in Caller \ {c} : pc'[d] = pc[d]
  BY <1>1 DEF Send, Goto, TypeOK
<1>4. /\ call[c] \in Call
      /\ call'[c] = [call[c] EXCEPT !.accepted = accepted]
      /\ \A d \in Caller \ {c} : call'[d] = call[d]
  BY <1>1 DEF Send, TypeOK
<1>5. call'[c].op = call[c].op
  BY <1>4 DEF Call
<1>6. CallsOnMotors'
  BY <1>3, <1>4, <1>5 DEF DriverInv, CallsOnMotors
<1>7. QED BY <1>1, <1>2, <1>3, <1>4, <1>6 DEF DriverInv

\* A refused command leaves the change where it was, for the roll-back.
LEMMA SendIsRefusedInv ==
    ASSUME SystemInv, NEW c \in Caller, SendIsRefused(c)
    PROVE  SystemInv'
<1>1. Send(c, FALSE) /\ LinkTypeOK' /\ UNCHANGED <<motorId, wire, back, disturbed>>
  BY DEF SendIsRefused, linkVars, SystemInv, LinkTypeOK
<1>2. /\ DriverInv' /\ addr' = addr /\ saved' = saved
      /\ pc[c] = "send" /\ pc'[c] = "record"
      /\ call'[c] = [call[c] EXCEPT !.accepted = FALSE]
      /\ call[c] \in Call
      /\ \A d \in Caller \ {c} : pc'[d] = pc[d] /\ call'[d] = call[d]
  BY <1>1, SendDriverInv DEF SystemInv
<1>3. /\ call'[c].op = call[c].op /\ call'[c].motor = call[c].motor
      /\ call'[c].node_id = call[c].node_id /\ call'[c].new_node_id = call[c].new_node_id
      /\ ~call'[c].accepted
  BY <1>2 DEF Call
<1>4. \A d \in Caller, m \in Motor :
        /\ AtStore(d, m)' => AtStore(d, m)
        /\ Unsent(d, m) <=> Unsent(d, m)'
        /\ call'[d].node_id = call[d].node_id
        /\ call'[d].new_node_id = call[d].new_node_id
  <2>1. TAKE d \in Caller, m \in Motor
  <2>2. CASE d = c
    BY <1>2, <1>3, <2>2 DEF AtStore, Unsent
  <2>3. CASE d # c
    BY <1>2, <2>3 DEF AtStore, Unsent
  <2>4. QED BY <2>2, <2>3
<1>5. QED BY <1>1, <1>2, <1>4, NothingMoves DEF SystemInv

\* An accepted change moves from the call to the end of the wire.
LEMMA SendCommandInv ==
    ASSUME SystemInv, NodeIdsChangeOneWay, NEW c \in Caller, SendCommand(c)
    PROVE  SystemInv'
<1>1. /\ Send(c, TRUE) /\ wire' = Append(wire, CommandOf(call[c]))
      /\ UNCHANGED <<motorId, back, disturbed>>
  BY DEF SendCommand
<1>2. /\ DriverInv' /\ addr' = addr /\ saved' = saved
      /\ pc[c] = "send" /\ pc'[c] = "record"
      /\ call'[c] = [call[c] EXCEPT !.accepted = TRUE]
      /\ call[c] \in Call
      /\ \A d \in Caller \ {c} : pc'[d] = pc[d] /\ call'[d] = call[d]
  BY <1>1, SendDriverInv DEF SystemInv
<1>3. PICK w \in CommandFrame :
        /\ w = CommandOf(call[c])
        /\ w.motor = call[c].motor /\ w.node_id = call[c].node_id
        /\ w.new_node_id = call[c].new_node_id
        /\ w.cmd = SET_NODE_ID <=> call[c].op = "set_node_id"
  <2>1. call[c].op \in MotorOp \cup {"none"}
    BY DEF SystemInv, DriverInv, CallsOnMotors
  <2>2. CommandOf(call[c]) \in CommandFrame
    BY <1>2, <2>1, CommandsOfCalls DEF CommandOf, CommandFrame, Call
  <2>3. QED BY <2>1, <2>2, CommandsOfCalls DEF CommandOf
<1>4. /\ wire' \in Seq(CommandFrame) /\ Len(wire) \in Nat /\ Len(wire') = Len(wire) + 1
      /\ \A n \in 1..Len(wire) : wire'[n] = wire[n]
      /\ wire'[Len(wire) + 1] = w
  BY <1>1, <1>3, AppendProperties, LenProperties DEF SystemInv, LinkTypeOK
<1>5. LinkTypeOK'
  BY <1>1, <1>4 DEF SystemInv, LinkTypeOK
<1>6. ASSUME NEW m \in Motor
      PROVE  Changes(m)' = Changes(m) \cup
               (IF w.motor = m /\ w.cmd = SET_NODE_ID THEN {Len(wire) + 1} ELSE {})
  BY <1>4 DEF Changes
<1>7. \A m \in Motor : \A i, j \in Changes(m) : i = j
  BY DEF SystemInv, MotorInv, ChangesAgree
<1>8. \A m \in Motor : Confirmations(m)' = Confirmations(m)
  BY <1>1 DEF Confirmations
<1>9. ASSUME NEW d \in Caller, NEW m \in Motor
      PROVE  /\ AtStore(d, m)' => AtStore(d, m) /\ d # c
             /\ Unsent(d, m)' => Unsent(d, m) /\ d # c
             /\ Unsent(d, m) => Unsent(d, m)' \/ (d = c /\ w.cmd = SET_NODE_ID /\ w.motor = m)
  <2>1. CASE d = c
    <3>1. call'[c].accepted
      BY <1>2 DEF Call
    <3>2. ~AtStore(c, m)' /\ ~Unsent(c, m)'
      BY <1>2, <3>1 DEF AtStore, Unsent
    <3>3. Unsent(c, m) => w.cmd = SET_NODE_ID /\ w.motor = m
      BY <1>3 DEF Unsent
    <3>4. QED BY <2>1, <3>2, <3>3
  <2>2. CASE d # c
    BY <1>2, <2>2 DEF AtStore, Unsent
  <2>3. QED BY <2>1, <2>2
<1>10. ASSUME NEW m \in Motor, w.motor = m, w.cmd = SET_NODE_ID
       PROVE  /\ MotorInv(m)'
              /\ \A d \in Caller : ~AtStore(d, m)' /\ ~Unsent(d, m)'
  <2>1. Unsent(c, m) /\ RollbackReady(c, m) /\ MotorInv(m)
    BY <1>2, <1>3, <1>10 DEF Unsent, SystemInv, CallInv
  <2>2. Changes(m) = {} /\ Confirmations(m) = {}
    BY <2>1, InTransitIs DEF RollbackReady
  <2>3. Changes(m)' = {Len(wire) + 1} /\ Confirmations(m)' = {}
    BY <1>6, <1>8, <1>10, <2>2
  <2>4. IdsClaimed(m)'
    BY <1>1, <1>2, <2>1, SameClaims DEF MotorInv, IdsClaimed
  <2>5. ConfirmationsAgree(m)'
    BY <2>3 DEF ConfirmationsAgree
  <2>6. ChangesAgree(m)'
    BY <1>2, <1>3, <1>4, <2>1, <2>3 DEF ChangesAgree, RollbackReady, IsChanging
  <2>7. NodeIdInTransit(m)'
    BY <2>3 DEF NodeIdInTransit, Changes
  <2>8. \A d \in Caller : AtStore(d, m) \/ Unsent(d, m) => d = c
    BY <2>1, OneChangeAtATime DEF AtStore, Unsent, SystemInv
  <2>9. QED BY <1>9, <2>4, <2>5, <2>6, <2>7, <2>8 DEF MotorInv, PendingIsSomewhere
<1>11. ASSUME NEW m \in Motor, ~(w.motor = m /\ w.cmd = SET_NODE_ID)
       PROVE  /\ MotorInv(m)'
              /\ \A d \in Caller : CallInv(d, m)'
  <2>1. Changes(m)' = Changes(m) /\ Confirmations(m)' = Confirmations(m)
    BY <1>6, <1>8, <1>11
  <2>2. \A n \in Changes(m)' : n \in Changes(m) /\ wire'[n] = wire[n]
    BY <1>4, <2>1 DEF Changes
  <2>3. MotorInv(m)'
    BY <1>1, <1>2, <1>5, <1>7, <1>9, <1>11, <2>1, <2>2, MotorKept DEF SystemInv
  <2>4. NodeIdInTransit(m)' => NodeIdInTransit(m)
    <3>1. NodeIdInTransit(m)' <=> (Changes(m)' # {} \/ Confirmations(m)' # {})
      BY DEF NodeIdInTransit, Changes, Confirmations
    <3>2. QED BY <2>1, <3>1, InTransitIs
  <2>5. \A d \in Caller : CallInv(d, m)'
    BY <1>1, <1>2, <1>9, <2>4, CallKept DEF SystemInv
  <2>6. QED BY <2>3, <2>5
<1>12. QED BY <1>2, <1>5, <1>10, <1>11 DEF SystemInv, CallInv

-----------------------------------------------------------------------------
(* The steps of the bus and of the motors. *)

\* The changes on the wire when its first command leaves.
LEMMA ChangesAfterFirst ==
    ASSUME LinkTypeOK, wire # <<>>, wire' = Tail(wire), NEW m \in Motor,
           \A i, j \in Changes(m) : i = j
    PROVE  /\ \A n \in Changes(m)' : n + 1 \in Changes(m) /\ wire'[n] = wire[n + 1]
           /\ \A i, j \in Changes(m)' : i = j
           /\ ~(Head(wire).motor = m /\ Head(wire).cmd = SET_NODE_ID) =>
                (Changes(m) # {} => Changes(m)' # {})
           /\ Head(wire).motor = m /\ Head(wire).cmd = SET_NODE_ID =>
                1 \in Changes(m) /\ Changes(m)' = {}
<1>1. /\ Len(wire) \in Nat /\ Len(wire) >= 1 /\ Head(wire) = wire[1]
      /\ Len(wire') = Len(wire) - 1
      /\ \A n \in 1..Len(wire') : wire'[n] = wire[n + 1]
  BY FirstLeaves DEF LinkTypeOK
<1>2. \A n \in Changes(m)' : n + 1 \in Changes(m) /\ wire'[n] = wire[n + 1] /\ n \in Nat
  BY <1>1 DEF Changes
<1>3. \A i, j \in Changes(m)' : i = j
  <2>1. TAKE i, j \in Changes(m)'
  <2>2. i + 1 = j + 1
    BY <1>2
  <2>3. QED BY <1>2, <2>2
<1>4. ASSUME NEW n \in Changes(m), n # 1
      PROVE  n - 1 \in Changes(m)'
  BY <1>1, <1>4 DEF Changes
<1>5. 1 \in Changes(m) <=> Head(wire).motor = m /\ Head(wire).cmd = SET_NODE_ID
  BY <1>1 DEF Changes
<1>6. 1 \in Changes(m) => Changes(m)' = {}
  <2>1. ASSUME 1 \in Changes(m), NEW n \in Changes(m)'
        PROVE  FALSE
    <3>1. n + 1 = 1 /\ n \in 1..Len(wire')
      BY <1>2, <2>1 DEF Changes
    <3>2. QED BY <3>1
  <2>2. QED BY <2>1
<1>7. QED BY <1>2, <1>3, <1>4, <1>5, <1>6

\* The address of a motor, and its calls, when only the link moves.
LEMMA LinkMoves ==
    ASSUME SystemInv, UNCHANGED vars
    PROVE  /\ DriverInv' /\ addr' = addr /\ call' = call /\ saved' = saved
           /\ \A c \in Caller, m \in Motor : /\ (AtStore(c, m)' <=> AtStore(c, m))
                                             /\ (Unsent(c, m)' <=> Unsent(c, m))
<1>1. call' = call /\ saved' = saved
  BY DEF vars, callVars
<1>2. QED BY <1>1, DriverRests DEF SystemInv

\* A lost command may have been a change: the motor is disturbed.
LEMMA LoseCommandInv ==
    ASSUME SystemInv, LoseCommand
    PROVE  SystemInv'
<1>1. /\ wire # <<>> /\ wire' = Tail(wire)
      /\ disturbed' = disturbed \cup {Head(wire).motor}
      /\ motorId' = motorId /\ back' = back /\ UNCHANGED vars
  BY DEF LoseCommand
<1>2. /\ DriverInv' /\ addr' = addr /\ call' = call /\ saved' = saved
      /\ \A c \in Caller, m \in Motor : /\ (AtStore(c, m)' <=> AtStore(c, m))
                                        /\ (Unsent(c, m)' <=> Unsent(c, m))
  BY <1>1, LinkMoves
<1>3. LinkTypeOK'
  BY <1>1, FirstLeaves DEF SystemInv, LinkTypeOK
<1>4. \A m \in Motor :
        /\ \A n \in Changes(m)' : n + 1 \in Changes(m) /\ wire'[n] = wire[n + 1]
        /\ \A i, j \in Changes(m)' : i = j
        /\ Changes(m) # {} => Changes(m)' # {} \/ m \in disturbed'
  <2>1. TAKE m \in Motor
  <2>2. \A i, j \in Changes(m) : i = j
    BY DEF SystemInv, MotorInv, ChangesAgree
  <2>3. QED BY <1>1, <2>2, ChangesAfterFirst DEF SystemInv
<1>5. \A m \in Motor : MotorInv(m)'
  <2>1. TAKE m \in Motor
  <2>2. \A n \in Changes(m)' : \E i \in Changes(m) : wire'[n] = wire[i]
    BY <1>4
  <2>3. QED BY <1>1, <1>2, <1>3, <1>4, <2>2, MotorKept DEF SystemInv
<1>6. \A c \in Caller, m \in Motor : CallInv(c, m)'
  <2>1. TAKE c \in Caller, m \in Motor
  <2>2. NodeIdInTransit(m)' => NodeIdInTransit(m)
    <3>1. NodeIdInTransit(m)' <=> (Changes(m)' # {} \/ Confirmations(m)' # {})
      BY DEF NodeIdInTransit, Changes, Confirmations
    <3>2. Confirmations(m)' = Confirmations(m)
      BY <1>1 DEF Confirmations
    <3>3. QED BY <1>4, <3>1, <3>2, InTransitIs
  <2>3. QED BY <1>1, <1>2, <2>2, CallKept DEF SystemInv
<1>7. QED BY <1>2, <1>3, <1>5, <1>6 DEF SystemInv

\* The answers of a motor when the first one leaves.
LEMMA AnswersAfterFirst ==
    ASSUME LinkTypeOK, NEW m \in Motor, back[m] # <<>>,
           back' = [back EXCEPT ![m] = Tail(@)]
    PROVE  /\ back' \in [Motor -> Seq(AnswerFrame)]
           /\ \A k \in Motor \ {m} : back'[k] = back[k]
           /\ Head(back[m]) = back[m][1] /\ Head(back[m]) \in AnswerFrame
           /\ 1 \in 1..Len(back[m])
           /\ Len(back'[m]) = Len(back[m]) - 1 /\ Len(back[m]) \in Nat
           /\ \A n \in 1..Len(back'[m]) :
                n + 1 \in 2..Len(back[m]) /\ back'[m][n] = back[m][n + 1]
           /\ \A n \in Confirmations(m)' : n + 1 \in Confirmations(m)
           /\ \A n \in Confirmations(m) \ {1} : n - 1 \in Confirmations(m)'
<1>1. back[m] \in Seq(AnswerFrame) /\ back'[m] = Tail(back[m])
      /\ \A k \in Motor \ {m} : back'[k] = back[k]
  BY DEF LinkTypeOK
<1>2. /\ Len(back[m]) \in Nat /\ Len(back[m]) >= 1
      /\ Head(back[m]) = back[m][1] /\ back[m][1] \in AnswerFrame
      /\ back'[m] \in Seq(AnswerFrame)
      /\ Len(back'[m]) = Len(back[m]) - 1
      /\ \A n \in 1..Len(back'[m]) : back'[m][n] = back[m][n + 1]
  <2>1. ASSUME NEW s \in Seq(AnswerFrame), s # <<>>
        PROVE  /\ Len(s) \in Nat /\ Len(s) >= 1
               /\ Head(s) = s[1] /\ s[1] \in AnswerFrame
               /\ Tail(s) \in Seq(AnswerFrame)
               /\ Len(Tail(s)) = Len(s) - 1
               /\ \A n \in 1..Len(Tail(s)) : Tail(s)[n] = s[n + 1]
    BY <2>1, FirstLeaves
  <2>2. QED BY <1>1, <2>1
<1>3. back' \in [Motor -> Seq(AnswerFrame)]
  BY <1>1, <1>2 DEF LinkTypeOK
<1>4. \A n \in Confirmations(m)' : n + 1 \in Confirmations(m)
  BY <1>2 DEF Confirmations
<1>5. \A n \in Confirmations(m) \ {1} : n - 1 \in Confirmations(m)'
  BY <1>2 DEF Confirmations
<1>6. QED BY <1>1, <1>2, <1>3, <1>4, <1>5

\* Dropping the first answer of a motor keeps what is said of the others.
LEMMA AnswerDropped ==
    ASSUME SystemInv, NEW m \in Motor, back[m] # <<>>,
           back' = [back EXCEPT ![m] = Tail(@)], motorId' = motorId, wire' = wire,
           addr'[m] = addr[m]
    PROVE  /\ IdsClaimed(m)' /\ ConfirmationsAgree(m)' /\ ChangesAgree(m)'
           /\ NodeIdInTransit(m)' => NodeIdInTransit(m)
           /\ Head(back[m]).cmd # SET_NODE_ID =>
                (NodeIdInTransit(m) => NodeIdInTransit(m)')
<1>1. /\ Len(back'[m]) = Len(back[m]) - 1 /\ Len(back[m]) \in Nat
      /\ Head(back[m]) = back[m][1]
      /\ \A n \in 1..Len(back'[m]) :
           n + 1 \in 2..Len(back[m]) /\ back'[m][n] = back[m][n + 1]
      /\ \A n \in Confirmations(m)' : n + 1 \in Confirmations(m)
      /\ \A n \in Confirmations(m) \ {1} : n - 1 \in Confirmations(m)'
  BY AnswersAfterFirst DEF SystemInv
<1>2. Changes(m)' = Changes(m) /\ Claims(m)' = Claims(m) /\ MotorInv(m)
  BY SameClaims DEF Changes, SystemInv
<1>3. IdsClaimed(m)'
  BY <1>1, <1>2 DEF MotorInv, IdsClaimed
<1>4. ConfirmationsAgree(m)'
  <2>1. SUFFICES ASSUME NEW n \in Confirmations(m)'
                 PROVE  /\ Changes(m) = {}
                        /\ \A i \in (n + 1)..Len(back'[m]) :
                             From(back'[m][i]) = motorId[m] /\ i \notin Confirmations(m)'
                        /\ IF back'[m][n].status = STATUS_OK
                           THEN addr[m].pending_node_id_change =>
                                  motorId[m] = addr[m].requested_node_id
                           ELSE motorId[m] = addr[m].node_id
    BY <1>2 DEF ConfirmationsAgree
  <2>2. n \in 1..Len(back'[m]) /\ n + 1 \in Confirmations(m)
        /\ back'[m][n] = back[m][n + 1]
    BY <1>1 DEF Confirmations
  <2>3. /\ Changes(m) = {}
        /\ \A i \in (n + 2)..Len(back[m]) :
             From(back[m][i]) = motorId[m] /\ i \notin Confirmations(m)
        /\ IF back[m][n + 1].status = STATUS_OK
           THEN addr[m].pending_node_id_change => motorId[m] = addr[m].requested_node_id
           ELSE motorId[m] = addr[m].node_id
    BY <1>2, <2>2 DEF MotorInv, ConfirmationsAgree
  <2>4. ASSUME NEW i \in (n + 1)..Len(back'[m])
        PROVE  From(back'[m][i]) = motorId[m] /\ i \notin Confirmations(m)'
    <3>1. i \in 1..Len(back'[m]) /\ i + 1 \in (n + 2)..Len(back[m])
      BY <1>1, <2>2
    <3>2. QED BY <1>1, <2>3, <3>1
  <2>5. QED BY <2>2, <2>3, <2>4
<1>5. ChangesAgree(m)'
  BY <1>2 DEF MotorInv, ChangesAgree, IsChanging
<1>6. NodeIdInTransit(m)' <=> (Changes(m)' # {} \/ Confirmations(m)' # {})
  BY DEF NodeIdInTransit, Changes, Confirmations
<1>7. NodeIdInTransit(m)' => NodeIdInTransit(m)
  BY <1>1, <1>2, <1>6, InTransitIs
<1>8. Head(back[m]).cmd # SET_NODE_ID => 1 \notin Confirmations(m)
  BY <1>1 DEF Confirmations
<1>9. ASSUME Head(back[m]).cmd # SET_NODE_ID, NodeIdInTransit(m)
      PROVE  NodeIdInTransit(m)'
  <2>1. Changes(m) # {} \/ Confirmations(m) # {}
    BY <1>9, InTransitIs
  <2>2. Confirmations(m) # {} => Confirmations(m)' # {}
    BY <1>1, <1>8, <1>9
  <2>3. QED BY <1>2, <1>6, <2>1, <2>2
<1>10. QED BY <1>3, <1>4, <1>5, <1>7, <1>9

\* What is left of the roll-back conditions when an answer goes.
LEMMA CallAfterDrop ==
    ASSUME SystemInv, NEW c \in Caller, NEW m \in Motor, back[m] # <<>>,
           back' = [back EXCEPT ![m] = Tail(@)], motorId' = motorId,
           addr'[m] = addr[m], call' = call, saved' = saved,
           NodeIdInTransit(m)' => NodeIdInTransit(m),
           m \in disturbed => m \in disturbed',
           AtStore(c, m)' => AtStore(c, m), Unsent(c, m)' => Unsent(c, m)
    PROVE  CallInv(c, m)'
<1>1. /\ Len(back'[m]) = Len(back[m]) - 1 /\ Len(back[m]) \in Nat
      /\ \A n \in 1..Len(back'[m]) :
           n + 1 \in 2..Len(back[m]) /\ back'[m][n] = back[m][n + 1]
  BY AnswersAfterFirst DEF SystemInv
<1>2. \A node :
        (\A n \in 1..Len(back[m]) : From(back[m][n]) = node) =>
          \A n \in 1..Len(back'[m]) : From(back'[m][n]) = node
  BY <1>1
<1>3. AtStore(c, m)' => StoreReady(c, m)'
  BY DEF SystemInv, CallInv, StoreReady
<1>4. Unsent(c, m)' => RollbackReady(c, m)'
  <2>1. SUFFICES ASSUME Unsent(c, m)' PROVE RollbackReady(c, m)'
    OBVIOUS
  <2>2. RollbackReady(c, m)
    BY <2>1 DEF SystemInv, CallInv
  <2>3. ~saved[c].pending_node_id_change =>
          \A n \in 1..Len(back'[m]) : From(back'[m][n]) = addr[m].node_id
    BY <1>2, <2>2 DEF RollbackReady
  <2>4. QED BY <2>2, <2>3 DEF RollbackReady, IsChanging
<1>5. QED BY <1>3, <1>4 DEF CallInv

\* The motors that a step with the answers of one motor does not concern.
LEMMA OtherMotorsKept ==
    ASSUME SystemInv, LinkTypeOK', NEW m \in Motor,
           \A k \in Motor \ {m} : back'[k] = back[k] /\ addr'[k] = addr[k],
           motorId' = motorId, wire' = wire, call' = call, saved' = saved,
           disturbed \subseteq disturbed', disturbed' \subseteq disturbed \cup {m},
           \A c \in Caller, k \in Motor : /\ (AtStore(c, k)' <=> AtStore(c, k))
                                          /\ (Unsent(c, k)' <=> Unsent(c, k))
    PROVE  \A k \in Motor \ {m} : /\ MotorInv(k)'
                                  /\ \A c \in Caller : CallInv(c, k)'
<1>1. TAKE k \in Motor \ {m}
<1>2. Changes(k)' = Changes(k) /\ \A i, j \in Changes(k) : i = j
  BY DEF Changes, SystemInv, MotorInv, ChangesAgree
<1>3. MotorInv(k)'
  BY <1>2, MotorKept DEF SystemInv
<1>4. NodeIdInTransit(k)' => NodeIdInTransit(k)
  BY DEF NodeIdInTransit
<1>5. \A c \in Caller : CallInv(c, k)'
  BY <1>4, CallKept DEF SystemInv
<1>6. QED BY <1>3, <1>5

\* An answer that is lost, or ignored, disturbs its motor.
LEMMA AnswerGoneInv ==
    ASSUME SystemInv, NEW m \in Motor, LoseAnswer(m) \/ Ignore(m)
    PROVE  SystemInv'
<1>1. /\ back[m] # <<>> /\ back' = [back EXCEPT ![m] = Tail(@)]
      /\ disturbed' = disturbed \cup {m}
      /\ UNCHANGED vars /\ motorId' = motorId /\ wire' = wire
  BY DEF LoseAnswer, Ignore
<1>2. /\ DriverInv' /\ addr' = addr /\ call' = call /\ saved' = saved
      /\ \A c \in Caller, k \in Motor : /\ (AtStore(c, k)' <=> AtStore(c, k))
                                        /\ (Unsent(c, k)' <=> Unsent(c, k))
  BY <1>1, LinkMoves
<1>3. LinkTypeOK' /\ \A k \in Motor \ {m} : back'[k] = back[k]
  BY <1>1, AnswersAfterFirst DEF SystemInv, LinkTypeOK
<1>4. /\ IdsClaimed(m)' /\ ConfirmationsAgree(m)' /\ ChangesAgree(m)'
      /\ NodeIdInTransit(m)' => NodeIdInTransit(m)
  BY <1>1, <1>2, AnswerDropped
<1>5. MotorInv(m)'
  BY <1>1, <1>4 DEF MotorInv, PendingIsSomewhere
<1>6. \A c \in Caller : CallInv(c, m)'
  BY <1>1, <1>2, <1>4, CallAfterDrop
<1>7. \A k \in Motor \ {m} : /\ MotorInv(k)'
                             /\ \A c \in Caller : CallInv(c, k)'
  BY <1>1, <1>2, <1>3, OtherMotorsKept
<1>8. QED BY <1>2, <1>3, <1>5, <1>6, <1>7 DEF SystemInv

\* An answer of a motor is handled as one of its own object.
LEMMA DeliverIs ==
    ASSUME SystemInv, NEW m \in Motor, Deliver(m)
    PROVE  LET f == Head(back[m]) IN
           /\ f \in AnswerFrame
           /\ ack' = [ack EXCEPT ![m] = AfterAwaitedAck(@, f)]
           /\ addr' = [addr EXCEPT ![m] = AfterNodeIdAck(@, f)]
           /\ report' = [report EXCEPT ![m] = AfterReportConfigAck(@, f)]
           /\ info' = [info EXCEPT ![m] = AfterReadback(@, f)]
           /\ UNCHANGED <<requested, ota, management, callVars>>
<1> DEFINE f == Head(back[m])
<1>1. back[m] # <<>> /\ HandleCanFrame(f) /\ back' = [back EXCEPT ![m] = Tail(@)]
  BY DEF Deliver
<1>2. f = back[m][1] /\ f \in AnswerFrame /\ 1 \in 1..Len(back[m])
  BY <1>1, AnswersAfterFirst DEF SystemInv
<1> HIDE DEF f
<1>3. DecodeFrameId(f.id).kind = "ack" /\ DecodeFrameId(f.id).node_id = From(f)
  BY <1>2, DecodeAnswer
<1>4. From(f) \in Claims(m) /\ \A k \in Motor : addr[k].configured
  BY <1>2 DEF SystemInv, MotorInv, IdsClaimed
<1>5. FindByAnyNode(From(f)) = m
  BY <1>4, OneClaimant DEF SystemInv
<1>6. HandleAck(f)
  BY <1>1, <1>3 DEF HandleCanFrame, HandleReport, HandleManagementReport,
                    HandleManagementAck
<1>7. /\ f \in AnswerFrame
      /\ ack' = [ack EXCEPT ![m] = AfterAwaitedAck(@, f)]
      /\ addr' = [addr EXCEPT ![m] = AfterNodeIdAck(@, f)]
      /\ report' = [report EXCEPT ![m] = AfterReportConfigAck(@, f)]
      /\ info' = [info EXCEPT ![m] = AfterReadback(@, f)]
      /\ UNCHANGED <<requested, ota, management, callVars>>
  BY <1>2, <1>3, <1>5, <1>6 DEF HandleAck
<1>8. QED BY <1>7 DEF f

\* An answer that is awaited: the answer to a change makes the object take the
\* node ID the motor has, which the later answers carry too.
LEMMA DeliverInv ==
    ASSUME SystemInv, NEW m \in Motor, Deliver(m)
    PROVE  SystemInv'
<1>1. PICK f \in AnswerFrame :
        /\ f = Head(back[m])
        /\ addr' = [addr EXCEPT ![m] = AfterNodeIdAck(@, f)]
        /\ pc' = pc /\ call' = call /\ saved' = saved
  BY DeliverIs DEF callVars
<1>2. /\ back[m] # <<>> /\ HandleCanFrame(f) /\ back' = [back EXCEPT ![m] = Tail(@)]
      /\ motorId' = motorId /\ wire' = wire /\ disturbed' = disturbed
  BY <1>1 DEF Deliver
<1>3. /\ back' \in [Motor -> Seq(AnswerFrame)]
      /\ \A k \in Motor \ {m} : back'[k] = back[k]
      /\ f = back[m][1] /\ 1 \in 1..Len(back[m])
      /\ Len(back'[m]) = Len(back[m]) - 1 /\ Len(back[m]) \in Nat
      /\ \A n \in 1..Len(back'[m]) :
           n + 1 \in 2..Len(back[m]) /\ back'[m][n] = back[m][n + 1]
      /\ \A n \in Confirmations(m)' : n + 1 \in Confirmations(m)
  BY <1>1, <1>2, AnswersAfterFirst DEF SystemInv
<1>4. LinkTypeOK'
  BY <1>2, <1>3 DEF SystemInv, LinkTypeOK
<1>5. /\ addr'[m] = AfterNodeIdAck(addr[m], f)
      /\ \A k \in Motor \ {m} : addr'[k] = addr[k]
      /\ addr[m] \in Address
  BY <1>1 DEF SystemInv, DriverInv, UniqueInv, TypeOK
<1>6. DriverInv'
  <2>1. f.id # MANAGEMENT_ACK_ID /\ f \in Frame
    BY DecodeAnswer DEF DecodeFrameId
  <2>2. UniqueInv' /\ AddressInv'
    BY <1>2, <2>1, HandleCanFrameUniqueInv, HandleCanFrameAddressInv
       DEF SystemInv, DriverInv
  <2>3. CallsOnMotors'
    BY <1>1 DEF SystemInv, DriverInv, CallsOnMotors
  <2>4. QED BY <2>2, <2>3 DEF DriverInv
<1>7. \A c \in Caller, k \in Motor : /\ (AtStore(c, k)' <=> AtStore(c, k))
                                     /\ (Unsent(c, k)' <=> Unsent(c, k))
  BY <1>1 DEF AtStore, Unsent
<1>8. \A k \in Motor \ {m} : /\ MotorInv(k)'
                             /\ \A c \in Caller : CallInv(c, k)'
  BY <1>1, <1>2, <1>3, <1>4, <1>5, <1>7, OtherMotorsKept
<1>9. CASE f.cmd # SET_NODE_ID
  <2>1. addr'[m] = addr[m]
    BY <1>5, <1>9 DEF AfterNodeIdAck
  <2>2. /\ IdsClaimed(m)' /\ ConfirmationsAgree(m)' /\ ChangesAgree(m)'
        /\ NodeIdInTransit(m)' <=> NodeIdInTransit(m)
    BY <1>1, <1>2, <1>9, <2>1, AnswerDropped
  <2>3. PendingIsSomewhere(m)'
    BY <1>2, <1>7, <2>1, <2>2 DEF SystemInv, MotorInv, PendingIsSomewhere
  <2>4. \A c \in Caller : CallInv(c, m)'
    BY <1>1, <1>2, <1>7, <2>1, <2>2, CallAfterDrop
  <2>5. QED BY <1>4, <1>6, <1>8, <2>2, <2>3, <2>4 DEF SystemInv, MotorInv
<1>10. CASE f.cmd = SET_NODE_ID
  <2>1. 1 \in Confirmations(m) /\ NodeIdInTransit(m) /\ MotorInv(m)
    BY <1>3, <1>10, InTransitIs DEF Confirmations, SystemInv
  <2>2. /\ Changes(m) = {}
        /\ \A i \in 2..Len(back[m]) : From(back[m][i]) = motorId[m] /\ i \notin Confirmations(m)
        /\ IF f.status = STATUS_OK
           THEN addr[m].pending_node_id_change => motorId[m] = addr[m].requested_node_id
           ELSE motorId[m] = addr[m].node_id
    <3>1. ConfirmationsAgree(m)
      BY <2>1 DEF MotorInv
    <3>2. /\ Changes(m) = {}
          /\ \A i \in (1 + 1)..Len(back[m]) :
               From(back[m][i]) = motorId[m] /\ i \notin Confirmations(m)
          /\ IF back[m][1].status = STATUS_OK
             THEN addr[m].pending_node_id_change => motorId[m] = addr[m].requested_node_id
             ELSE motorId[m] = addr[m].node_id
      BY <2>1, <3>1 DEF ConfirmationsAgree
    <3>3. back[m][1] = f /\ 1 + 1 = 2
      BY <1>3
    <3>4. QED BY <3>2, <3>3
  <2>3. Confirmations(m)' = {}
    <3>1. ASSUME NEW n \in Confirmations(m)'
          PROVE  FALSE
      <4>1. n + 1 \in Confirmations(m) /\ n + 1 \in 2..Len(back[m])
        BY <1>3 DEF Confirmations
      <4>2. QED BY <2>2, <4>1
    <3>2. QED BY <3>1
  <2>4. Changes(m)' = {}
    BY <1>2, <2>2 DEF Changes
  <2>5. \A n \in 1..Len(back'[m]) : From(back'[m][n]) = motorId[m]
    BY <1>3, <2>2
  <2>6. /\ addr'[m].configured
        /\ ~addr'[m].pending_node_id_change
        /\ motorId[m] = addr'[m].node_id
    BY <1>5, <1>10, <2>1, <2>2 DEF AfterNodeIdAck, Address, MotorInv, IdsClaimed, Claims
  <2>7. IdsClaimed(m)'
    BY <1>2, <2>5, <2>6 DEF IdsClaimed, Claims
  <2>8. ConfirmationsAgree(m)' /\ ChangesAgree(m)' /\ PendingIsSomewhere(m)'
    BY <2>3, <2>4, <2>6 DEF ConfirmationsAgree, ChangesAgree, PendingIsSomewhere
  <2>9. \A c \in Caller : ~AtStore(c, m)' /\ ~Unsent(c, m)'
    BY <1>7, <2>1 DEF SystemInv, CallInv, StoreReady, RollbackReady
  <2>10. QED BY <1>4, <1>6, <1>8, <2>7, <2>8, <2>9 DEF SystemInv, MotorInv, CallInv
<1>11. QED BY <1>9, <1>10

\* A change is executed by the motor it was issued for.
LEMMA ChangesReachTheirMotor ==
    ASSUME SystemInv, NEW m \in Motor, wire # <<>>, motorId[m] = Head(wire).node_id,
           Head(wire).cmd = SET_NODE_ID
    PROVE  /\ Head(wire).motor = m
           /\ 1 \in Changes(m) /\ wire[1] = Head(wire)
<1>1. wire \in Seq(CommandFrame)
  BY DEF SystemInv, LinkTypeOK
<1>2. Head(wire) = wire[1] /\ wire[1] \in CommandFrame /\ 1 \in 1..Len(wire)
  BY <1>1, FirstLeaves
<1>3. PICK k \in Motor : k = wire[1].motor
  BY <1>2 DEF CommandFrame
<1>4. 1 \in Changes(k)
  BY <1>2, <1>3 DEF Changes
<1>5. wire[1].node_id = addr[k].node_id
  BY <1>4 DEF SystemInv, MotorInv, ChangesAgree
<1>6. motorId[m] \in Claims(k) /\ motorId[m] \in Claims(m)
      /\ \A j \in Motor : addr[j].configured
  BY <1>2, <1>5 DEF Claims, SystemInv, MotorInv, IdsClaimed
<1>7. k = m
  BY <1>6, OneClaimant DEF SystemInv
<1>8. QED BY <1>2, <1>3, <1>4, <1>7

\* A motor executes the first command and answers it.
LEMMA ExecuteInv ==
    ASSUME SystemInv, NEW m \in Motor, Execute(m)
    PROVE  SystemInv'
<1>1. PICK w \in CommandFrame, o \in Outcomes(m, Head(wire)) :
        /\ w = Head(wire) /\ w = wire[1]
        /\ wire # <<>> /\ wire' = Tail(wire) /\ motorId[m] = w.node_id
        /\ motorId' = [motorId EXCEPT ![m] = o.id]
        /\ back' = [back EXCEPT ![m] = Append(@, o.answer)]
        /\ disturbed' = disturbed /\ UNCHANGED vars
  <2>1. wire # <<>> /\ wire \in Seq(CommandFrame)
    BY DEF Execute, SystemInv, LinkTypeOK
  <2>2. Head(wire) \in CommandFrame /\ Head(wire) = wire[1]
    BY <2>1, FirstLeaves
  <2>3. QED BY <2>2 DEF Execute, Addressees
<1>2. /\ DriverInv' /\ addr' = addr /\ call' = call /\ saved' = saved
      /\ \A c \in Caller, k \in Motor : /\ (AtStore(c, k)' <=> AtStore(c, k))
                                        /\ (Unsent(c, k)' <=> Unsent(c, k))
  BY <1>1, LinkMoves
<1>3. /\ LinkTypeOK /\ motorId[m] \in Byte /\ motorId[m] \in Claims(m)
      /\ \A k \in Motor : addr[k].configured
      /\ w.new_node_id \in Byte /\ w.cmd \in PendingCmd
  BY <1>1 DEF SystemInv, LinkTypeOK, MotorInv, IdsClaimed, CommandFrame
<1>4. w.cmd = SET_NODE_ID =>
        /\ w.motor = m /\ 1 \in Changes(m) /\ IsChanging(addr[m])
        /\ motorId[m] = addr[m].node_id
        /\ w.new_node_id = addr[m].requested_node_id
        /\ w.new_node_id \in Claims(m)
  <2>1. SUFFICES ASSUME w.cmd = SET_NODE_ID
                 PROVE  /\ w.motor = m /\ 1 \in Changes(m) /\ IsChanging(addr[m])
                        /\ motorId[m] = addr[m].node_id
                        /\ w.new_node_id = addr[m].requested_node_id
                        /\ w.new_node_id \in Claims(m)
    OBVIOUS
  <2>2. w.motor = m /\ 1 \in Changes(m)
    BY <1>1, <2>1, ChangesReachTheirMotor
  <2>3. IsChanging(addr[m]) /\ w.node_id = addr[m].node_id
        /\ w.new_node_id = addr[m].requested_node_id
    BY <1>1, <2>2 DEF SystemInv, MotorInv, ChangesAgree
  <2>4. w.new_node_id \in Claims(m)
    BY <2>3 DEF IsChanging, Claims
  <2>5. QED BY <1>1, <2>2, <2>3, <2>4
<1>5. PICK n \in Claims(m), status \in {STATUS_OK, NACK} :
        /\ o.answer = Answer(n, w.cmd, status)
        /\ w.cmd # SET_NODE_ID => o.id = motorId[m] /\ n = motorId[m]
        /\ w.cmd = SET_NODE_ID /\ status = STATUS_OK => o.id = w.new_node_id
        /\ w.cmd = SET_NODE_ID /\ status # STATUS_OK => o.id = motorId[m]
  <2>1. CASE w.cmd = SET_NODE_ID
    <3>1. \/ \E n \in {motorId[m], w.new_node_id} :
               o = [id |-> w.new_node_id, answer |-> Answer(n, w.cmd, STATUS_OK)]
          \/ o = [id |-> motorId[m], answer |-> Answer(motorId[m], w.cmd, NACK)]
      BY <1>1, <2>1, Zenon DEF Outcomes
    <3>2. NACK # STATUS_OK
      BY DEF NACK, STATUS_OK
    <3>3. QED BY <1>3, <1>4, <2>1, <3>1, <3>2
  <2>2. CASE w.cmd # SET_NODE_ID
    <3>1. o = [id |-> motorId[m], answer |-> Answer(motorId[m], w.cmd, STATUS_OK)]
      BY <1>1, <2>2, Zenon DEF Outcomes
    <3>2. QED BY <1>3, <2>2, <3>1
  <2>3. QED BY <2>1, <2>2
<1>6. PICK a \in AnswerFrame :
        a = o.answer /\ From(a) = n /\ a.cmd = w.cmd /\ a.status = status
  <2>1. n \in Byte /\ NodeIdIsValid(n)
    BY <1>3, ClaimsAreBusiness DEF SystemInv
  <2>2. QED BY <1>3, <1>5, <2>1, AnswerIs
<1>7. /\ motorId'[m] = o.id /\ o.id \in Claims(m) /\ o.id \in Byte
      /\ \A k \in Motor \ {m} : motorId'[k] = motorId[k]
      /\ motorId' \in [Motor -> Byte]
  <2>1. o.id \in Claims(m) /\ o.id \in Byte
    BY <1>3, <1>4, <1>5
  <2>2. QED BY <1>1, <1>3, <2>1 DEF LinkTypeOK
<1>8. /\ back' \in [Motor -> Seq(AnswerFrame)]
      /\ \A k \in Motor \ {m} : back'[k] = back[k]
      /\ Len(back[m]) \in Nat /\ Len(back'[m]) = Len(back[m]) + 1
      /\ \A i \in 1..Len(back[m]) : back'[m][i] = back[m][i]
      /\ back'[m][Len(back[m]) + 1] = a
  <2>1. back[m] \in Seq(AnswerFrame) /\ back'[m] = Append(back[m], a)
        /\ \A k \in Motor \ {m} : back'[k] = back[k]
    BY <1>1, <1>3, <1>6 DEF LinkTypeOK
  <2>2. QED BY <1>1, <1>3, <1>6, <2>1, AppendProperties, LenProperties DEF LinkTypeOK
<1>9. LinkTypeOK'
  BY <1>1, <1>3, <1>7, <1>8, FirstLeaves DEF LinkTypeOK
<1>10. \A k \in Motor :
         /\ \A i \in Changes(k)' : i + 1 \in Changes(k) /\ wire'[i] = wire[i + 1]
         /\ \A i, j \in Changes(k)' : i = j
         /\ ~(w.motor = k /\ w.cmd = SET_NODE_ID) =>
              (Changes(k) # {} => Changes(k)' # {})
         /\ w.motor = k /\ w.cmd = SET_NODE_ID => Changes(k)' = {}
  <2>1. TAKE k \in Motor
  <2>2. \A i, j \in Changes(k) : i = j
    BY DEF SystemInv, MotorInv, ChangesAgree
  <2>3. QED BY <1>1, <1>3, <2>2, ChangesAfterFirst
<1>11. Confirmations(m)' = Confirmations(m) \cup
         (IF w.cmd = SET_NODE_ID THEN {Len(back[m]) + 1} ELSE {})
  BY <1>6, <1>8 DEF Confirmations
<1>12. IdsClaimed(m)'
  <2>1. \A i \in 1..Len(back'[m]) : From(back'[m][i]) \in Claims(m)
    BY <1>6, <1>8 DEF SystemInv, MotorInv, IdsClaimed
  <2>2. QED BY <1>2, <1>7, <2>1, SameClaims DEF SystemInv, MotorInv, IdsClaimed
<1>13. ASSUME NEW k \in Motor \ {m}
       PROVE  /\ MotorInv(k)'
              /\ \A c \in Caller : CallInv(c, k)'
  <2>1. ~(w.motor = k /\ w.cmd = SET_NODE_ID)
    BY <1>4
  <2>2. \A i \in Changes(k)' : \E j \in Changes(k) : wire'[i] = wire[j]
    BY <1>10
  <2>3. MotorInv(k)'
    BY <1>1, <1>2, <1>7, <1>8, <1>9, <1>10, <2>1, <2>2, MotorKept DEF SystemInv
  <2>4. NodeIdInTransit(k)' => NodeIdInTransit(k)
    <3>1. NodeIdInTransit(k)' <=> (Changes(k)' # {} \/ Confirmations(k)' # {})
      BY DEF NodeIdInTransit, Changes, Confirmations
    <3>2. Confirmations(k)' = Confirmations(k)
      BY <1>8 DEF Confirmations
    <3>3. QED BY <1>10, <3>1, <3>2, InTransitIs
  <2>5. \A c \in Caller : CallInv(c, k)'
    BY <1>1, <1>2, <1>7, <1>8, <2>4, CallKept DEF SystemInv
  <2>6. QED BY <2>3, <2>5
<1>14. CASE w.cmd = SET_NODE_ID
  <2>1. Changes(m)' = {} /\ NodeIdInTransit(m) /\ MotorInv(m)
    BY <1>4, <1>10, <1>14, InTransitIs DEF SystemInv
  <2>2. Confirmations(m) = {}
    BY <1>4, <1>14, <2>1 DEF MotorInv, ConfirmationsAgree
  <2>3. Confirmations(m)' = {Len(back[m]) + 1}
    BY <1>11, <1>14, <2>2
  <2>4. IF a.status = STATUS_OK
        THEN addr[m].pending_node_id_change => o.id = addr[m].requested_node_id
        ELSE o.id = addr[m].node_id
    BY <1>4, <1>5, <1>6, <1>14
  <2>5. ConfirmationsAgree(m)'
    BY <1>2, <1>7, <1>8, <2>1, <2>3, <2>4 DEF ConfirmationsAgree
  <2>6. NodeIdInTransit(m)'
    <3>1. NodeIdInTransit(m)' <=> (Changes(m)' # {} \/ Confirmations(m)' # {})
      BY DEF NodeIdInTransit, Changes, Confirmations
    <3>2. QED BY <2>3, <3>1
  <2>7. MotorInv(m)'
    BY <1>12, <2>1, <2>5, <2>6 DEF MotorInv, ChangesAgree, PendingIsSomewhere
  <2>8. \A c \in Caller : CallInv(c, m)'
    BY <1>2, <2>1 DEF SystemInv, CallInv, StoreReady, RollbackReady
  <2>9. QED BY <1>2, <1>9, <1>13, <2>7, <2>8 DEF SystemInv
<1>15. CASE w.cmd # SET_NODE_ID
  <2>1. /\ motorId'[m] = motorId[m] /\ From(a) = motorId[m]
        /\ Confirmations(m)' = Confirmations(m) /\ MotorInv(m)
    BY <1>5, <1>6, <1>7, <1>11, <1>15 DEF SystemInv
  <2>2. Changes(m)' = {} <=> Changes(m) = {}
    BY <1>10, <1>15
  <2>3. NodeIdInTransit(m)' <=> NodeIdInTransit(m)
    <3>1. NodeIdInTransit(m)' <=> (Changes(m)' # {} \/ Confirmations(m)' # {})
      BY DEF NodeIdInTransit, Changes, Confirmations
    <3>2. QED BY <2>1, <2>2, <3>1, InTransitIs
  <2>4. ConfirmationsAgree(m)'
    <3>1. SUFFICES ASSUME NEW i \in Confirmations(m)
                   PROVE  /\ Changes(m)' = {}
                          /\ \A j \in (i + 1)..Len(back'[m]) :
                               From(back'[m][j]) = motorId[m] /\ j \notin Confirmations(m)
                          /\ IF back'[m][i].status = STATUS_OK
                             THEN addr[m].pending_node_id_change =>
                                    motorId[m] = addr[m].requested_node_id
                             ELSE motorId[m] = addr[m].node_id
      BY <1>2, <2>1 DEF ConfirmationsAgree
    <3>2. i \in 1..Len(back[m]) /\ back'[m][i] = back[m][i]
      BY <1>8 DEF Confirmations
    <3>3. /\ Changes(m) = {}
          /\ \A j \in (i + 1)..Len(back[m]) :
               From(back[m][j]) = motorId[m] /\ j \notin Confirmations(m)
          /\ IF back[m][i].status = STATUS_OK
             THEN addr[m].pending_node_id_change => motorId[m] = addr[m].requested_node_id
             ELSE motorId[m] = addr[m].node_id
      BY <2>1 DEF MotorInv, ConfirmationsAgree
    <3>4. ASSUME NEW j \in (i + 1)..Len(back'[m])
          PROVE  From(back'[m][j]) = motorId[m] /\ j \notin Confirmations(m)
      <4>1. CASE j = Len(back[m]) + 1
        BY <1>8, <2>1, <4>1 DEF Confirmations
      <4>2. CASE j # Len(back[m]) + 1
        <5>1. j \in (i + 1)..Len(back[m]) /\ j \in 1..Len(back[m])
          BY <1>8, <3>2, <4>2
        <5>2. QED BY <1>8, <3>3, <5>1
      <4>3. QED BY <4>1, <4>2
    <3>5. QED BY <2>2, <3>2, <3>3, <3>4
  <2>5. ChangesAgree(m)'
    <3>1. \A i \in Changes(m)' : \E j \in Changes(m) : wire'[i] = wire[j]
      BY <1>10
    <3>2. QED BY <1>2, <1>10, <2>1, <3>1 DEF MotorInv, ChangesAgree, IsChanging
  <2>6. PendingIsSomewhere(m)'
    BY <1>1, <1>2, <2>1, <2>3 DEF MotorInv, PendingIsSomewhere
  <2>7. ASSUME NEW c \in Caller
        PROVE  CallInv(c, m)'
    <3>1. AtStore(c, m)' => StoreReady(c, m)'
      BY <1>2, <2>3 DEF SystemInv, CallInv, StoreReady
    <3>2. ASSUME Unsent(c, m)'
          PROVE  RollbackReady(c, m)'
      <4>1. RollbackReady(c, m)
        BY <1>2, <3>2 DEF SystemInv, CallInv
      <4>2. ~saved[c].pending_node_id_change =>
              \A i \in 1..Len(back'[m]) : From(back'[m][i]) = addr[m].node_id
        BY <1>8, <2>1, <4>1 DEF RollbackReady
      <4>3. QED BY <1>1, <1>2, <2>1, <2>3, <4>1, <4>2 DEF RollbackReady, IsChanging
    <3>3. QED BY <3>1, <3>2 DEF CallInv
  <2>8. QED BY <1>2, <1>9, <1>12, <1>13, <2>4, <2>5, <2>6, <2>7 DEF SystemInv, MotorInv
<1>16. QED BY <1>14, <1>15

-----------------------------------------------------------------------------
(* The invariant, and what follows from it. *)

LEMMA InitSystemInv == SystemInit => SystemInv
<1>1. SUFFICES ASSUME SystemInit PROVE SystemInv
  OBVIOUS
<1>2. /\ Init /\ motorId = DefaultNodeId /\ wire = <<>>
      /\ back = [m \in Motor |-> <<>>] /\ disturbed = {}
  BY <1>1 DEF SystemInit
<1>3. \A c \in Caller : pc[c] = "idle" /\ call[c].op = "none"
  BY <1>2 DEF Init, NoCall
<1>4. DriverInv
  BY <1>2, <1>3, InitUniqueInv, InitAddressInv DEF DriverInv, CallsOnMotors
<1>5. LinkTypeOK
  BY <1>2, MotorAssumption DEF LinkTypeOK
<1>6. \A m \in Motor : /\ addr[m].configured
                       /\ ~addr[m].pending_node_id_change
                       /\ addr[m].node_id = motorId[m]
                       /\ Len(back[m]) = 0
  BY <1>2 DEF Init
<1>7. Len(wire) = 0
  BY <1>2
<1>8. \A m \in Motor : Changes(m) = {} /\ Confirmations(m) = {}
  BY <1>6, <1>7 DEF Changes, Confirmations
<1>9. \A m \in Motor : MotorInv(m)
  BY <1>6, <1>8 DEF MotorInv, IdsClaimed, Claims, ConfirmationsAgree, ChangesAgree,
                    PendingIsSomewhere
<1>10. \A c \in Caller, m \in Motor : CallInv(c, m)
  BY <1>3 DEF CallInv, AtStore, Unsent
<1>11. QED BY <1>4, <1>5, <1>9, <1>10 DEF SystemInv

LEMMA StutterSystemInv ==
    ASSUME SystemInv, UNCHANGED systemVars
    PROVE  SystemInv'
<1>1. UNCHANGED vars /\ UNCHANGED <<motorId, wire, back, disturbed>>
  BY DEF systemVars, linkVars
<1>2. /\ DriverInv' /\ addr' = addr /\ call' = call /\ saved' = saved
      /\ \A c \in Caller, m \in Motor : /\ (AtStore(c, m)' <=> AtStore(c, m))
                                        /\ (Unsent(c, m)' <=> Unsent(c, m))
  BY <1>1, LinkMoves
<1>3. LinkTypeOK'
  BY <1>1 DEF SystemInv, LinkTypeOK
<1>4. /\ \A m \in Motor : MotorInv(m)'
      /\ \A c \in Caller, m \in Motor : CallInv(c, m)'
  BY <1>1, <1>2, <1>3, NothingMoves
<1>5. QED BY <1>2, <1>3, <1>4 DEF SystemInv

LEMMA NextSystemInv ==
    ASSUME SystemInv, NodeIdsChangeOneWay, [SystemNext]_systemVars
    PROVE  SystemInv'
<1>1. CASE SystemNext
  BY <1>1, BeginCallInv, ProceedInv, SendCommandInv, SendIsRefusedInv, ExecuteInv,
     AnswerGoneInv, DeliverInv, LoseCommandInv DEF SystemNext
<1>2. CASE UNCHANGED systemVars
  BY <1>2, StutterSystemInv
<1>3. QED BY <1>1, <1>2

\* The invariant holds in every state.
LEMMA SystemInvariant ==
    ASSUME NodeIdsChangeOneWay
    PROVE  SystemSpec => []SystemInv
<1>1. SystemInit => SystemInv
  BY InitSystemInv
<1>2. SystemInv /\ [SystemNext]_systemVars => SystemInv'
  BY NextSystemInv
<1>3. QED BY <1>1, <1>2, PTL DEF SystemSpec

\* Whatever is lost, in whatever order commands and answers move, the node ID
\* of a motor is one its object answers to: gen_motor_handle_ack_locked and
\* gen_motor_handle_report_locked find the object of the motor that has sent.
THEOREM MotorsStayClaimed ==
    ASSUME NodeIdsChangeOneWay
    PROVE  SystemSpec => []MotorsAreClaimed
<1>1. SystemInv => MotorsAreClaimed
  BY DEF SystemInv, MotorInv, IdsClaimed, MotorsAreClaimed
<1>2. QED BY <1>1, SystemInvariant, PTL

\* Once nothing of a motor is on its way and nothing has been lost, its object
\* has the ID of the motor: the acknowledgement of gen_motor_set_node_id, its
\* refusal and its roll-back all come out right.
THEOREM ObjectsComeToAgree ==
    ASSUME NodeIdsChangeOneWay
    PROVE  SystemSpec => []ObjectsAgreeWhenQuiet
<1>1. SystemInv => ObjectsAgreeWhenQuiet
  <2>1. SUFFICES ASSUME SystemInv, NEW m \in Motor, Quiet(m), m \notin disturbed
                 PROVE  /\ addr[m].node_id = motorId[m]
                        /\ ~addr[m].pending_node_id_change
    BY DEF ObjectsAgreeWhenQuiet
  <2>2. ~NodeIdInTransit(m)
    <3>1. Len(back[m]) = 0
      BY <2>1 DEF Quiet
    <3>2. QED BY <2>1, <3>1 DEF NodeIdInTransit, Quiet
  <2>3. \A c \in Caller : ~Unsent(c, m)
    BY <2>1 DEF Quiet, Unsent
  <2>4. ~addr[m].pending_node_id_change
    BY <2>1, <2>2, <2>3 DEF SystemInv, MotorInv, PendingIsSomewhere
  <2>5. motorId[m] \in Claims(m)
    BY <2>1 DEF SystemInv, MotorInv, IdsClaimed
  <2>6. QED BY <2>4, <2>5 DEF Claims
<1>2. QED BY <1>1, SystemInvariant, PTL

\* An answer is applied to the object of the motor that has sent it, and leaves
\* every other object as it is, however late it comes.
THEOREM AnswersGoToTheirObject ==
    ASSUME NodeIdsChangeOneWay
    PROVE  SystemSpec => AnswersAreAttributed
<1>1. SystemInv /\ [SystemNext]_systemVars
        => [\A m, k \in Motor :
              (Deliver(m) /\ k # m) =>
                 UNCHANGED <<addr[k], report[k], info[k], ack[k]>>]_systemVars
  <2>1. SUFFICES ASSUME SystemInv, NEW m \in Motor, NEW k \in Motor, Deliver(m), k # m
                 PROVE  UNCHANGED <<addr[k], report[k], info[k], ack[k]>>
    OBVIOUS
  <2>2. TypeOK
    BY <2>1 DEF SystemInv, DriverInv, UniqueInv
  <2>3. PICK f :
          /\ ack' = [ack EXCEPT ![m] = AfterAwaitedAck(@, f)]
          /\ addr' = [addr EXCEPT ![m] = AfterNodeIdAck(@, f)]
          /\ report' = [report EXCEPT ![m] = AfterReportConfigAck(@, f)]
          /\ info' = [info EXCEPT ![m] = AfterReadback(@, f)]
    BY <2>1, DeliverIs
  <2>4. /\ addr'[k] = addr[k] /\ report'[k] = report[k]
        /\ info'[k] = info[k] /\ ack'[k] = ack[k]
    BY <2>1, <2>2, <2>3 DEF TypeOK
  <2>5. QED BY <2>4
<1>2. QED BY <1>1, SystemInvariant, PTL DEF SystemSpec, AnswersAreAttributed

-----------------------------------------------------------------------------
(* The destination of a command.                                             *)
(*                                                                           *)
(* The node ID of a command is read when the call begins.  It may be stale   *)
(* when the command is executed, but then nobody has it: no other motor has  *)
(* it, and no change that is ahead of the command gives it to one.           *)

\* A thread is in a call it may make.
CallsInOps == \A c \in Caller : pc[c] # "idle" => call[c].op \in Ops[c]

\* Node ID n is foreign to every motor but m, and stays so when the first
\* commands of the wire, up to the last one named, have been executed.
Foreign(n, m, last) ==
    \A y \in Motor \ {m} :
      /\ motorId[y] # n
      /\ \A i \in 1..last : i \in Changes(y) => wire[i].new_node_id # n

RouteInv ==
    /\ SystemInv
    /\ CallsInOps
    /\ \A n \in 1..Len(wire) : Foreign(wire[n].node_id, wire[n].motor, n - 1)
    /\ \A c \in Caller : pc[c] \in {"store", "send"} =>
         Foreign(call[c].node_id, call[c].motor, Len(wire))

\* The node ID of an object is foreign to the other motors.
LEMMA OwnNodeIdIsForeign ==
    ASSUME SystemInv, NEW m \in Motor
    PROVE  Foreign(addr[m].node_id, m, Len(wire))
<1>1. \A k \in Motor : addr[k].configured /\ motorId[k] \in Claims(k)
  BY DEF SystemInv, MotorInv, IdsClaimed
<1>2. ASSUME NEW y \in Motor \ {m}, addr[m].node_id \in Claims(y)
      PROVE  FALSE
  <2>1. addr[m].node_id \in Claims(m)
    BY DEF Claims
  <2>2. QED BY <1>1, <1>2, <2>1, OneClaimant DEF SystemInv
<1>3. ASSUME NEW y \in Motor, NEW i \in Changes(y)
      PROVE  wire[i].new_node_id \in Claims(y)
  <2>1. IsChanging(addr[y]) /\ wire[i].new_node_id = addr[y].requested_node_id
    BY <1>3 DEF SystemInv, MotorInv, ChangesAgree
  <2>2. QED BY <2>1 DEF IsChanging, Claims
<1>4. QED BY <1>1, <1>2, <1>3 DEF Foreign

\* A step that leaves the wire and the motors alone, in which no call gets a
\* destination.
LEMMA RoutesKept ==
    ASSUME RouteInv, SystemInv', CallsInOps', UNCHANGED <<wire, motorId>>,
           \A c \in Caller : pc'[c] \in {"store", "send"} =>
             pc[c] \in {"store", "send"} /\ call'[c] = call[c]
    PROVE  RouteInv'
<1>1. \A y : Changes(y)' = Changes(y)
  BY DEF Changes
<1>2. \A n, m, last : Foreign(n, m, last) => Foreign(n, m, last)'
  BY <1>1 DEF Foreign
<1>3. \A n \in 1..Len(wire') : Foreign(wire[n].node_id, wire[n].motor, n - 1)'
  BY <1>2 DEF RouteInv
<1>4. ASSUME NEW c \in Caller, pc'[c] \in {"store", "send"}
      PROVE  Foreign(call[c].node_id, call[c].motor, Len(wire))'
  <2>1. Foreign(call[c].node_id, call[c].motor, Len(wire)) /\ call'[c] = call[c]
    BY <1>4 DEF RouteInv
  <2>2. QED BY <2>1, <1>1 DEF Foreign
<1>5. QED BY <1>3, <1>4 DEF RouteInv

LEMMA BeginCallRoute ==
    ASSUME RouteInv, NodeIdsChangeOneWay, NEW c \in Caller, BeginCall(c)
    PROVE  RouteInv'
<1>1. PICK k \in MotorCalls : Prepare(c, k)
  BY DEF BeginCall
<1>2. TypeOK /\ k \in Call /\ k.motor \in Motor /\ k.op \in Ops[c]
  <2>1. k \in Call /\ k.op \in Ops[c]
    BY <1>1, CallsType DEF Prepare, MayCall
  <2>2. QED BY <2>1 DEF Call, RouteInv, SystemInv, DriverInv, UniqueInv
<1>3. /\ call'[c].op = k.op /\ call'[c].motor = k.motor
      /\ call'[c].node_id = addr[k.motor].node_id
      /\ \A d \in Caller \ {c} : call'[d] = call[d] /\ pc'[d] = pc[d]
  BY <1>1, <1>2 DEF Prepare, Goto, TypeOK, Call
<1>4. UNCHANGED <<wire, motorId>>
  BY DEF BeginCall, linkVars
<1>5. SystemInv'
  BY BeginCallInv DEF RouteInv
<1>6. CallsInOps'
  BY <1>2, <1>3 DEF RouteInv, CallsInOps
<1>7. \A y : Changes(y)' = Changes(y)
  BY <1>4 DEF Changes
<1>8. \A n \in 1..Len(wire') : Foreign(wire[n].node_id, wire[n].motor, n - 1)'
  BY <1>4, <1>7 DEF RouteInv, Foreign
<1>9. ASSUME NEW d \in Caller, pc'[d] \in {"store", "send"}
      PROVE  Foreign(call[d].node_id, call[d].motor, Len(wire))'
  <2>1. CASE d = c
    <3>1. Foreign(addr[k.motor].node_id, k.motor, Len(wire))
      BY <1>2, OwnNodeIdIsForeign DEF RouteInv
    <3>2. QED BY <1>3, <1>4, <1>7, <2>1, <3>1 DEF Foreign
  <2>2. CASE d # c
    <3>1. Foreign(call[d].node_id, call[d].motor, Len(wire)) /\ call'[d] = call[d]
      BY <1>3, <1>9, <2>2 DEF RouteInv
    <3>2. QED BY <1>4, <1>7, <3>1 DEF Foreign
  <2>3. QED BY <2>1, <2>2
<1>10. QED BY <1>5, <1>6, <1>8, <1>9 DEF RouteInv

LEMMA ProceedRoute ==
    ASSUME RouteInv, NodeIdsChangeOneWay, NEW c \in Caller, Proceed(c)
    PROVE  RouteInv'
<1>1. Continue(c) /\ UNCHANGED <<wire, motorId>> /\ TypeOK
  BY DEF Proceed, linkVars, RouteInv, SystemInv, DriverInv, UniqueInv
<1>2. ~ApplyReset(c) /\ ~PrepareOta(c) /\ ~UndoOta(c)
      /\ call[c].op # "set_ota_state" /\ call[c].op # "reset_can_config"
  BY <1>1, ContinueDriverInv DEF RouteInv, SystemInv, DriverInv, CallsOnMotors, MotorOp
<1>3. /\ pc[c] # "idle"
      /\ \/ pc'[c] = "idle"
         \/ pc'[c] = "rollback" /\ call' = call
         \/ pc'[c] = "send" /\ pc[c] = "store" /\ call' = call
      /\ \A d \in Caller \ {c} : pc'[d] = pc[d] /\ call'[d] = call[d]
  BY <1>1, <1>2 DEF Continue, StoreTarget, StoreReportConfig, StoreNodeId, RefuseNodeId,
     RecordSent, RecordRefused, RecordManagementSent, RecordManagementRefused,
     RollbackTarget, RollbackReportConfig, RollbackNodeId, Return, Goto, TypeOK
<1>4. SystemInv'
  BY ProceedInv DEF RouteInv
<1>5. CallsInOps'
  BY <1>3 DEF RouteInv, CallsInOps
<1>6. \A d \in Caller : pc'[d] \in {"store", "send"} =>
        pc[d] \in {"store", "send"} /\ call'[d] = call[d]
  BY <1>3
<1>7. QED BY <1>1, <1>4, <1>5, <1>6, RoutesKept

LEMMA SendRoute ==
    ASSUME RouteInv, NodeIdsChangeOneWay, OneThreadUsesTheMotors,
           NEW c \in Caller, SendCommand(c) \/ SendIsRefused(c)
    PROVE  RouteInv'
<1>1. PICK accepted \in BOOLEAN : Send(c, accepted)
  BY DEF SendCommand, SendIsRefused
<1>2. /\ pc[c] = "send" /\ pc'[c] = "record" /\ call[c] \in Call
      /\ call'[c] = [call[c] EXCEPT !.accepted = accepted]
      /\ \A d \in Caller \ {c} : pc'[d] = pc[d] /\ call'[d] = call[d]
  BY <1>1, SendDriverInv DEF RouteInv, SystemInv
<1>3. SystemInv'
  BY SendCommandInv, SendIsRefusedInv DEF RouteInv
<1>4. CallsInOps'
  <2>1. call'[c].op = call[c].op
    BY <1>2 DEF Call
  <2>2. QED BY <1>2, <2>1 DEF RouteInv, CallsInOps
<1>5. \A d \in Caller : pc'[d] \in {"store", "send"} =>
        d # c /\ pc[d] \in {"store", "send"} /\ call'[d] = call[d]
  BY <1>2
<1>6. CASE SendIsRefused(c)
  BY <1>3, <1>4, <1>5, <1>6, RoutesKept DEF SendIsRefused, linkVars
<1>7. CASE SendCommand(c)
  <2>1. /\ wire' = Append(wire, CommandOf(call[c])) /\ motorId' = motorId
        /\ wire \in Seq(CommandFrame) /\ wire' \in Seq(CommandFrame)
    BY <1>3, <1>7 DEF SendCommand, RouteInv, SystemInv, LinkTypeOK
  <2>2. PICK w : w = CommandOf(call[c])
    OBVIOUS
  <2>3. /\ w.motor = call[c].motor /\ w.node_id = call[c].node_id
        /\ w.cmd = Command(call[c].op)
    BY <2>2 DEF CommandOf
  <2>4. /\ Len(wire) \in Nat /\ Len(wire') = Len(wire) + 1
        /\ \A n \in 1..Len(wire) : wire'[n] = wire[n]
        /\ wire'[Len(wire) + 1] = w
    BY <2>1, <2>2
  <2>5. \A y : \A i \in 1..Len(wire) : i \in Changes(y)' <=> i \in Changes(y)
    BY <2>4 DEF Changes
  <2>6. \A n, m : \A last \in 0..Len(wire) : Foreign(n, m, last) => Foreign(n, m, last)'
    <3>1. TAKE n, m
    <3>2. TAKE last \in 0..Len(wire)
    <3>3. HAVE Foreign(n, m, last)
    <3>4. \A i \in 1..last : i \in 1..Len(wire)
      BY <2>4
    <3>5. \A y \in Motor \ {m} :
            /\ motorId[y] # n
            /\ \A i \in 1..last : i \in Changes(y)' => wire'[i].new_node_id # n
      BY <2>4, <2>5, <3>3, <3>4 DEF Foreign
    <3>6. motorId' = motorId
      BY <2>1
    <3>7. QED BY <3>5, <3>6 DEF Foreign
  <2>7. ASSUME NEW n \in 1..Len(wire')
        PROVE  Foreign(wire[n].node_id, wire[n].motor, n - 1)'
    <3>1. CASE n = Len(wire) + 1
      <4>1. Foreign(call[c].node_id, call[c].motor, Len(wire))
        BY <1>2 DEF RouteInv
      <4>2. Foreign(w.node_id, w.motor, Len(wire))
        BY <2>3, <4>1
      <4>3. Foreign(w.node_id, w.motor, Len(wire)) => \A y \in Motor \ {w.motor} :
              /\ motorId[y] # w.node_id
              /\ \A i \in 1..Len(wire) : i \in Changes(y)' => wire'[i].new_node_id # w.node_id
        BY <2>4, <2>5 DEF Foreign
      <4>4. n - 1 = Len(wire)
        BY <2>4, <3>1
      <4>5. QED BY <2>1, <2>4, <3>1, <4>2, <4>3, <4>4 DEF Foreign
    <3>2. CASE n \in 1..Len(wire)
      <4>1. Foreign(wire[n].node_id, wire[n].motor, n - 1) /\ n - 1 \in 0..Len(wire)
        BY <2>4, <3>2 DEF RouteInv
      <4>2. wire'[n] = wire[n]
        BY <2>4, <3>2
      <4>3. \A y \in Motor \ {wire[n].motor} :
              /\ motorId[y] # wire[n].node_id
              /\ \A i \in 1..(n - 1) : i \in Changes(y)' => wire'[i].new_node_id # wire[n].node_id
        <5>1. TAKE y \in Motor \ {wire[n].motor}
        <5>2. \A i \in 1..(n - 1) : i \in 1..Len(wire)
          BY <2>4, <3>2
        <5>3. QED BY <2>4, <2>5, <4>1, <5>2 DEF Foreign
      <4>4. QED BY <2>1, <4>2, <4>3 DEF Foreign
    <3>3. QED BY <2>4, <3>1, <3>2
  <2>8. ASSUME NEW d \in Caller, pc'[d] \in {"store", "send"}
        PROVE  Foreign(call[d].node_id, call[d].motor, Len(wire))'
    <3>1. /\ d # c /\ pc[d] \in {"store", "send"} /\ call'[d] = call[d]
          /\ Foreign(call[d].node_id, call[d].motor, Len(wire))
      BY <1>5, <2>8 DEF RouteInv
    <3>2. w.cmd # SET_NODE_ID
      <4>1. call[c].op \in Ops[c] /\ call[d].op \in Ops[d]
            /\ call[c].op \in MotorOp \cup {"none"}
        BY <1>2, <3>1 DEF RouteInv, CallsInOps, SystemInv, DriverInv, CallsOnMotors
      <4>2. QED BY <2>3, <3>1, <4>1, CommandsOfCalls DEF OneThreadUsesTheMotors
    <3>3. \A y : Changes(y)' = Changes(y)
      BY <2>4, <3>2 DEF Changes
    <3>4. \A y : \A i \in Changes(y) : i \in 1..Len(wire) /\ wire'[i] = wire[i]
      BY <2>4 DEF Changes
    <3>5. QED BY <2>1, <3>1, <3>3, <3>4 DEF Foreign
  <2>9. QED BY <1>3, <1>4, <2>7, <2>8 DEF RouteInv
<1>8. QED BY <1>6, <1>7

\* The first command leaves the wire, and gives its motor its new node ID, or
\* none.
LEMMA FirstLeavesRoute ==
    ASSUME RouteInv, SystemInv', UNCHANGED vars, wire # <<>>, wire' = Tail(wire),
           \A y \in Motor : \/ motorId'[y] = motorId[y]
                            \/ 1 \in Changes(y) /\ motorId'[y] = wire[1].new_node_id
    PROVE  RouteInv'
<1>1. /\ Len(wire) \in Nat /\ Len(wire) >= 1 /\ Len(wire') = Len(wire) - 1
      /\ \A n \in 1..Len(wire') : wire'[n] = wire[n + 1]
  BY FirstLeaves DEF RouteInv, SystemInv, LinkTypeOK
<1>2. \A y \in Motor : \A n \in Changes(y)' : n + 1 \in Changes(y) /\ wire'[n] = wire[n + 1]
  <2>1. TAKE y \in Motor
  <2>2. \A i, j \in Changes(y) : i = j
    BY DEF RouteInv, SystemInv, MotorInv, ChangesAgree
  <2>3. QED BY <2>2, ChangesAfterFirst DEF RouteInv, SystemInv
<1>3. ASSUME NEW n, NEW m, NEW last \in 1..Len(wire), Foreign(n, m, last)
      PROVE  Foreign(n, m, last - 1)'
  <2>1. ASSUME NEW y \in Motor \ {m}
        PROVE  /\ motorId'[y] # n
               /\ \A i \in 1..(last - 1) : i \in Changes(y)' => wire'[i].new_node_id # n
    <3>1. /\ motorId[y] # n
          /\ \A i \in 1..last : i \in Changes(y) => wire[i].new_node_id # n
      BY <1>3 DEF Foreign
    <3>2. 1 \in 1..last
      BY <1>1
    <3>3. motorId'[y] # n
      BY <3>1, <3>2
    <3>4. ASSUME NEW i \in 1..(last - 1), i \in Changes(y)'
          PROVE  wire'[i].new_node_id # n
      <4>1. i + 1 \in 1..last
        BY <1>1
      <4>2. i + 1 \in Changes(y) /\ wire'[i] = wire[i + 1]
        BY <1>2, <3>4
      <4>3. QED BY <3>1, <4>1, <4>2
    <3>5. QED BY <3>3, <3>4
  <2>2. QED BY <2>1 DEF Foreign
<1>4. ASSUME NEW n \in 1..Len(wire')
      PROVE  Foreign(wire[n].node_id, wire[n].motor, n - 1)'
  <2>1. n + 1 \in 1..Len(wire) /\ n \in 1..Len(wire) /\ (n + 1) - 1 = n
    BY <1>1
  <2>2. Foreign(wire[n + 1].node_id, wire[n + 1].motor, n)
    BY <2>1 DEF RouteInv
  <2>3. PICK w : w = wire[n + 1]
    OBVIOUS
  <2>4. Foreign(w.node_id, w.motor, n - 1)'
    BY <1>3, <2>1, <2>2, <2>3
  <2>5. wire'[n] = w
    BY <1>1, <2>3
  <2>6. QED BY <2>4, <2>5 DEF Foreign
<1>5. pc' = pc /\ call' = call
  BY DEF vars, callVars
<1>6. ASSUME NEW c \in Caller, pc'[c] \in {"store", "send"}
      PROVE  Foreign(call[c].node_id, call[c].motor, Len(wire))'
  <2>1. PICK k : k = call[c]
    OBVIOUS
  <2>2. PICK last \in 1..Len(wire) : last = Len(wire)
    <3>1. Len(wire) \in 1..Len(wire)
      BY <1>1
    <3>2. QED BY <3>1, Zenon
  <2>3. Foreign(k.node_id, k.motor, last - 1)'
    <3>1. Foreign(k.node_id, k.motor, last)
      BY <1>5, <1>6, <2>1, <2>2 DEF RouteInv
    <3>2. QED BY <1>3, <3>1
  <2>4. call'[c] = k /\ Len(wire') = last - 1
    BY <1>1, <1>5, <2>1, <2>2
  <2>5. QED BY <2>3, <2>4 DEF Foreign
<1>7. CallsInOps'
  BY <1>5 DEF RouteInv, CallsInOps
<1>8. QED BY <1>4, <1>6, <1>7 DEF RouteInv

LEMMA ExecuteRoute ==
    ASSUME RouteInv, NEW m \in Motor, Execute(m)
    PROVE  RouteInv' /\ Head(wire).motor = m
<1>1. /\ wire # <<>> /\ wire' = Tail(wire) /\ motorId[m] = Head(wire).node_id
      /\ UNCHANGED vars
  BY DEF Execute, Addressees
<1>2. PICK o \in Outcomes(m, Head(wire)) : motorId' = [motorId EXCEPT ![m] = o.id]
  BY DEF Execute
<1>3. /\ wire \in Seq(CommandFrame) /\ motorId \in [Motor -> Byte]
      /\ Head(wire) = wire[1] /\ Head(wire).motor \in Motor /\ 1 \in 1..Len(wire)
  <2>1. wire \in Seq(CommandFrame) /\ motorId \in [Motor -> Byte]
    BY DEF RouteInv, SystemInv, LinkTypeOK
  <2>2. Head(wire) = wire[1] /\ wire[1] \in CommandFrame /\ 1 \in 1..Len(wire)
    BY <1>1, <2>1, FirstLeaves
  <2>3. QED BY <2>1, <2>2 DEF CommandFrame
<1>4. \A y \in Motor : \/ motorId'[y] = motorId[y]
                       \/ 1 \in Changes(y) /\ motorId'[y] = wire[1].new_node_id
  <2>1. CASE Head(wire).cmd = SET_NODE_ID
    <3>1. 1 \in Changes(m)
      BY <1>1, <2>1, ChangesReachTheirMotor DEF RouteInv
    <3>2. o.id \in {motorId[m], wire[1].new_node_id}
      <4>1. \/ \E n \in {motorId[m], Head(wire).new_node_id} :
                 o = [id |-> Head(wire).new_node_id,
                      answer |-> Answer(n, Head(wire).cmd, STATUS_OK)]
            \/ o = [id |-> motorId[m], answer |-> Answer(motorId[m], Head(wire).cmd, NACK)]
        BY <1>2, <2>1, Zenon DEF Outcomes
      <4>2. QED BY <1>3, <4>1
    <3>3. QED BY <1>2, <1>3, <3>1, <3>2
  <2>2. CASE Head(wire).cmd # SET_NODE_ID
    <3>1. o = [id |-> motorId[m],
               answer |-> Answer(motorId[m], Head(wire).cmd, STATUS_OK)]
      BY <1>2, <2>2, Zenon DEF Outcomes
    <3>2. QED BY <1>2, <1>3, <3>1
  <2>3. QED BY <2>1, <2>2
<1>5. RouteInv'
  BY <1>1, <1>4, ExecuteInv, FirstLeavesRoute DEF RouteInv
<1>6. Foreign(wire[1].node_id, wire[1].motor, 1 - 1)
  BY <1>3 DEF RouteInv
<1>7. QED BY <1>1, <1>3, <1>5, <1>6 DEF Foreign

LEMMA NextRoute ==
    ASSUME RouteInv, NodeIdsChangeOneWay, OneThreadUsesTheMotors,
           [SystemNext]_systemVars
    PROVE  RouteInv'
<1>1. SystemInv'
  BY NextSystemInv DEF RouteInv
<1>2. ASSUME NEW c \in Caller, BeginCall(c) \/ Proceed(c) \/ SendCommand(c) \/ SendIsRefused(c)
      PROVE  RouteInv'
  BY <1>2, BeginCallRoute, ProceedRoute, SendRoute
<1>3. ASSUME NEW m \in Motor, Execute(m)
      PROVE  RouteInv'
  BY <1>3, ExecuteRoute
<1>4. CASE LoseCommand
  BY <1>1, <1>4, FirstLeavesRoute DEF LoseCommand
<1>5. CASE \/ \E m \in Motor : LoseAnswer(m) \/ Deliver(m) \/ Ignore(m)
           \/ UNCHANGED systemVars
  <2>1. pc' = pc /\ call' = call /\ wire' = wire /\ motorId' = motorId
    <3>1. ASSUME NEW m \in Motor, Deliver(m)
          PROVE  pc' = pc /\ call' = call
      BY <3>1, DeliverIs DEF RouteInv, callVars
    <3>2. QED BY <1>5, <3>1 DEF LoseAnswer, Deliver, Ignore, systemVars, linkVars, vars, callVars
  <2>2. CallsInOps'
    BY <2>1 DEF RouteInv, CallsInOps
  <2>3. QED BY <1>1, <2>1, <2>2, RoutesKept
<1>6. QED BY <1>2, <1>3, <1>4, <1>5 DEF SystemNext

\* A motor executes the commands issued for its own object and no others,
\* although gen_motor_prepare_send reads the destination long before.
THEOREM CommandsGoToTheirMotor ==
    ASSUME NodeIdsChangeOneWay, OneThreadUsesTheMotors
    PROVE  SystemSpec => CommandsReachTheirMotor
<1>1. SystemInit => RouteInv
  <2>1. SUFFICES ASSUME SystemInit PROVE RouteInv
    OBVIOUS
  <2>2. Len(wire) = 0 /\ \A c \in Caller : pc[c] = "idle"
    BY <2>1 DEF SystemInit, Init
  <2>3. QED BY <2>1, <2>2, InitSystemInv DEF RouteInv, CallsInOps
<1>2. RouteInv /\ [SystemNext]_systemVars => RouteInv'
  BY NextRoute
<1>3. RouteInv => [\A m \in Motor : Execute(m) => Head(wire).motor = m]_systemVars
  BY ExecuteRoute
<1>4. QED BY <1>1, <1>2, <1>3, PTL DEF SystemSpec, CommandsReachTheirMotor

-----------------------------------------------------------------------------
(* The driver in the system is the driver of GenMotor.                       *)
(*                                                                           *)
(* The receive thread of GenMotor gets frames of RxFrame only; the answers   *)
(* of the motors must be among them.  For that the motors must keep to the   *)
(* node IDs they may get, and so must the changes in calls and on the wire.  *)

MotorCommand == {w \in CommandFrame : w.cmd = SET_NODE_ID => w.new_node_id \in MotorId}

CallIsOnMotor(c) ==
    /\ call[c].op \in MotorOp \cup {"none"}
    /\ call[c].op = "set_node_id" => call[c].new_node_id \in MotorId

TrafficInv ==
    /\ TypeOK
    /\ \A c \in Caller : CallIsOnMotor(c)
    /\ motorId \in [Motor -> MotorId]
    /\ wire \in Seq(MotorCommand)
    /\ back \in [Motor -> Seq(MotorAnswer)]

\* The arguments of set_node_id are node IDs a motor may get.
LEMMA CallsGiveMotorIds ==
    ASSUME NEW k \in MotorCalls
    PROVE  k.op = "set_node_id" => k.new_node_id \in MotorId
<1>1. ASSUME NEW op \in MotorOp, NEW m \in Motor
      PROVE  /\ CallOf(op, m).op = op
             /\ \A t : [CallOf(op, m) EXCEPT !.target = t].op = op
             /\ \A r : [CallOf(op, m) EXCEPT !.config = r].op = op
             /\ \A n : [CallOf(op, m) EXCEPT !.new_node_id = n].new_node_id = n
  BY DEF CallOf, NoCall
<1>2. \A op \in TargetOp \cup SimpleOp \cup {"reset_can_config", "set_report_config"} :
        op \in MotorOp /\ op # "set_node_id"
  BY DEF TargetOp, SimpleOp, ManagementOp, Op, MotorOp
<1>3. CASE k \in TargetCalls
  <2>1. PICK op \in TargetOp, m \in Motor, t \in Target :
          k = [CallOf(op, m) EXCEPT !.target = t]
    BY <1>3 DEF TargetCalls
  <2>2. QED BY <1>1, <1>2, <2>1
<1>4. CASE k \in ReportConfigCalls
  <2>1. PICK m \in Motor, r \in Config :
          k = [CallOf("set_report_config", m) EXCEPT !.config = r]
    BY <1>4, CallerAssumption DEF ReportConfigCalls
  <2>2. QED BY <1>1, <1>2, <2>1
<1>5. CASE k \in PlainCalls
  BY <1>1, <1>2, <1>5 DEF PlainCalls
<1>6. CASE k \in NodeIdCalls
  <2>1. "set_node_id" \in MotorOp
    BY DEF Op, ManagementOp, MotorOp
  <2>2. PICK m \in Motor, n \in {x \in NodeIdArg : NodeIdIsValid(x)} :
          k = [CallOf("set_node_id", m) EXCEPT !.new_node_id = n]
    BY <1>6 DEF NodeIdCalls
  <2>3. QED BY <1>1, <2>1, <2>2 DEF MotorId
<1>7. QED BY <1>3, <1>4, <1>5, <1>6 DEF MotorCalls

\* A step of the system is one of GenMotor, or none of the driver's.
LEMMA SystemStepIsAStep ==
    ASSUME TrafficInv, [SystemNext]_systemVars
    PROVE  [Next]_vars
<1>1. ASSUME NEW c \in Caller, BeginCall(c) \/ Proceed(c) \/ SendCommand(c) \/ SendIsRefused(c)
      PROVE  Next
  BY <1>1 DEF BeginCall, Proceed, SendCommand, SendIsRefused, Begin, Next
<1>2. ASSUME NEW m \in Motor, Deliver(m)
      PROVE  Next
  <2>1. back[m] # <<>> /\ back[m] \in Seq(MotorAnswer) /\ HandleCanFrame(Head(back[m]))
    BY <1>2 DEF Deliver, TrafficInv
  <2>2. Head(back[m]) \in RxFrame
    BY <2>1, HeadTailProperties, AnswerAssumption
  <2>3. QED BY <2>1, <2>2 DEF Next
<1>3. ASSUME NEW m \in Motor, Execute(m) \/ LoseAnswer(m) \/ Ignore(m)
      PROVE  UNCHANGED vars
  BY <1>3 DEF Execute, LoseAnswer, Ignore
<1>4. LoseCommand \/ UNCHANGED systemVars => UNCHANGED vars
  BY DEF LoseCommand, systemVars
<1>5. QED BY <1>1, <1>2, <1>3, <1>4 DEF SystemNext

\* Calls stay on motors, with node IDs motors may get.
LEMMA CallsStayOnMotors ==
    ASSUME TrafficInv, [SystemNext]_systemVars, NEW d \in Caller
    PROVE  CallIsOnMotor(d)'
<1>1. ASSUME call'[d] = call[d] \/ call'[d] = NoCall
      PROVE  CallIsOnMotor(d)'
  BY <1>1 DEF TrafficInv, CallIsOnMotor, NoCall
<1>2. call \in [Caller -> Call] /\ TypeOK
  BY DEF TrafficInv, TypeOK
<1>3. ASSUME NEW c \in Caller, BeginCall(c)
      PROVE  CallIsOnMotor(d)'
  <2>1. PICK k \in MotorCalls :
          call' = [call EXCEPT ![c] = [k EXCEPT !.node_id = addr[k.motor].node_id]]
    BY <1>3 DEF BeginCall, Prepare
  <2>2. k \in Call /\ k.op \in MotorOp /\ (k.op = "set_node_id" => k.new_node_id \in MotorId)
    BY CallsType, CallOps, CallsGiveMotorIds
  <2>3. CASE d = c
    <3>1. call'[d] = [k EXCEPT !.node_id = addr[k.motor].node_id]
      BY <1>2, <2>1, <2>3
    <3>2. call'[d].op = k.op /\ call'[d].new_node_id = k.new_node_id
      BY <2>2, <3>1 DEF Call
    <3>3. QED BY <2>2, <3>2 DEF CallIsOnMotor
  <2>4. CASE d # c
    BY <1>1, <1>2, <2>1, <2>4
  <2>5. QED BY <2>3, <2>4
<1>4. ASSUME NEW c \in Caller, Proceed(c)
      PROVE  CallIsOnMotor(d)'
  <2>1. CASE PrepareOta(c)
    <3>1. call'[d] = call[d] \/ call'[d] = [call[d] EXCEPT !.node_id = addr[call[d].motor].node_id]
      BY <1>2, <2>1 DEF PrepareOta
    <3>2. call'[d].op = call[d].op /\ call'[d].new_node_id = call[d].new_node_id
      BY <1>2, <3>1 DEF Call
    <3>3. QED BY <3>2 DEF TrafficInv, CallIsOnMotor
  <2>2. CASE ~PrepareOta(c)
    <3>1. call'[d] = call[d] \/ call'[d] = NoCall
      BY <1>2, <1>4, <2>2 DEF Proceed, Continue, StoreTarget, StoreReportConfig, StoreNodeId,
         RefuseNodeId, RecordSent, RecordRefused, RecordManagementSent,
         RecordManagementRefused, RollbackTarget, RollbackReportConfig, RollbackNodeId,
         ApplyReset, UndoOta, Return
    <3>2. QED BY <1>1, <3>1
  <2>3. QED BY <2>1, <2>2
<1>5. ASSUME NEW c \in Caller, SendCommand(c) \/ SendIsRefused(c)
      PROVE  CallIsOnMotor(d)'
  <2>1. PICK accepted \in BOOLEAN : Send(c, accepted)
    BY <1>5 DEF SendCommand, SendIsRefused
  <2>2. call'[d] = call[d] \/ call'[d] = [call[d] EXCEPT !.accepted = accepted]
    BY <1>2, <2>1 DEF Send
  <2>3. call'[d].op = call[d].op /\ call'[d].new_node_id = call[d].new_node_id
    BY <1>2, <2>2 DEF Call
  <2>4. QED BY <2>3 DEF TrafficInv, CallIsOnMotor
<1>6. ASSUME NEW m \in Motor, Execute(m) \/ LoseAnswer(m) \/ Deliver(m) \/ Ignore(m)
      PROVE  CallIsOnMotor(d)'
  <2>1. call' = call
    BY <1>6 DEF Execute, LoseAnswer, Deliver, Ignore, HandleCanFrame, HandleAck,
       HandleReport, HandleManagementReport, HandleManagementAck, vars, callVars
  <2>2. QED BY <1>1, <2>1
<1>7. CASE LoseCommand \/ UNCHANGED systemVars
  BY <1>1, <1>7 DEF LoseCommand, systemVars, vars, callVars
<1>8. QED BY <1>3, <1>4, <1>5, <1>6, <1>7 DEF SystemNext

\* A motor that executes a command keeps to the node IDs it may get.
LEMMA OutcomesAreMotorIds ==
    ASSUME TrafficInv, NEW m \in Motor, NEW w \in MotorCommand, NEW o \in Outcomes(m, w)
    PROVE  o.id \in MotorId /\ o.answer \in MotorAnswer
<1>1. motorId[m] \in MotorId /\ w.cmd \in PendingCmd
      /\ (w.cmd = SET_NODE_ID => w.new_node_id \in MotorId)
  BY DEF TrafficInv, MotorCommand, CommandFrame
<1>2. \A n \in MotorId, s \in {STATUS_OK, NACK} : Answer(n, w.cmd, s) \in MotorAnswer
  BY <1>1 DEF MotorAnswer
<1>3. CASE w.cmd = SET_NODE_ID
  <2>1. \/ \E n \in {motorId[m], w.new_node_id} :
             o = [id |-> w.new_node_id, answer |-> Answer(n, w.cmd, STATUS_OK)]
        \/ o = [id |-> motorId[m], answer |-> Answer(motorId[m], w.cmd, NACK)]
    BY <1>3, Zenon DEF Outcomes
  <2>2. QED BY <1>1, <1>2, <1>3, <2>1
<1>4. CASE w.cmd # SET_NODE_ID
  <2>1. o = [id |-> motorId[m], answer |-> Answer(motorId[m], w.cmd, STATUS_OK)]
    BY <1>4, Zenon DEF Outcomes
  <2>2. QED BY <1>1, <1>2, <2>1
<1>5. QED BY <1>3, <1>4

\* What travels between driver and motors keeps to the node IDs motors may get.
LEMMA LinkKeepsMotorIds ==
    ASSUME TrafficInv, [SystemNext]_systemVars
    PROVE  /\ motorId' \in [Motor -> MotorId]
           /\ wire' \in Seq(MotorCommand)
           /\ back' \in [Motor -> Seq(MotorAnswer)]
<1>1. /\ motorId \in [Motor -> MotorId] /\ wire \in Seq(MotorCommand)
      /\ back \in [Motor -> Seq(MotorAnswer)]
  BY DEF TrafficInv
<1>2. ASSUME NEW c \in Caller, BeginCall(c) \/ Proceed(c) \/ SendIsRefused(c)
      PROVE  UNCHANGED linkVars
  BY <1>2 DEF BeginCall, Proceed, SendIsRefused
<1>3. ASSUME NEW c \in Caller, SendCommand(c)
      PROVE  motorId' = motorId /\ back' = back /\ wire' \in Seq(MotorCommand)
  <2>1. call[c] \in Call /\ CallIsOnMotor(c)
    BY DEF TrafficInv, TypeOK
  <2>2. CommandOf(call[c]) \in CommandFrame
    BY <2>1, CommandsOfCalls DEF CommandOf, CommandFrame, Call, CallIsOnMotor
  <2>3. CommandOf(call[c]) \in MotorCommand
    BY <2>1, <2>2, CommandsOfCalls DEF CommandOf, MotorCommand, CallIsOnMotor
  <2>4. QED BY <1>1, <1>3, <2>3, AppendProperties DEF SendCommand
<1>4. ASSUME NEW m \in Motor, Execute(m)
      PROVE  /\ motorId' \in [Motor -> MotorId]
             /\ wire' \in Seq(MotorCommand)
             /\ back' \in [Motor -> Seq(MotorAnswer)]
  <2>1. Head(wire) \in MotorCommand /\ Tail(wire) \in Seq(MotorCommand) /\ wire' = Tail(wire)
    BY <1>1, <1>4, HeadTailProperties DEF Execute
  <2>2. PICK o \in Outcomes(m, Head(wire)) :
          /\ motorId' = [motorId EXCEPT ![m] = o.id]
          /\ back' = [back EXCEPT ![m] = Append(@, o.answer)]
    BY <1>4 DEF Execute
  <2>3. o.id \in MotorId /\ o.answer \in MotorAnswer
    BY <2>1, OutcomesAreMotorIds
  <2>4. Append(back[m], o.answer) \in Seq(MotorAnswer)
    BY <1>1, <2>3, AppendProperties
  <2>5. QED BY <1>1, <2>1, <2>2, <2>3, <2>4
<1>5. ASSUME NEW m \in Motor, LoseAnswer(m) \/ Deliver(m) \/ Ignore(m)
      PROVE  /\ motorId' = motorId /\ wire' = wire
             /\ back' \in [Motor -> Seq(MotorAnswer)]
  <2>1. /\ motorId' = motorId /\ wire' = wire /\ back[m] # <<>>
        /\ back' = [back EXCEPT ![m] = Tail(@)]
    BY <1>5 DEF LoseAnswer, Deliver, Ignore
  <2>2. Tail(back[m]) \in Seq(MotorAnswer)
    BY <1>1, <2>1, HeadTailProperties
  <2>3. QED BY <1>1, <2>1, <2>2
<1>6. ASSUME LoseCommand
      PROVE  motorId' = motorId /\ back' = back /\ wire' \in Seq(MotorCommand)
  BY <1>1, <1>6, HeadTailProperties DEF LoseCommand
<1>7. UNCHANGED linkVars => motorId' = motorId /\ back' = back /\ wire' = wire
  BY DEF linkVars
<1>8. UNCHANGED systemVars => UNCHANGED linkVars
  BY DEF systemVars
<1>9. QED BY <1>1, <1>2, <1>3, <1>4, <1>5, <1>6, <1>7, <1>8 DEF SystemNext

LEMMA InitTraffic == SystemInit => TrafficInv
<1> SUFFICES ASSUME SystemInit PROVE TrafficInv
  OBVIOUS
<1>1. TypeOK /\ \A c \in Caller : CallIsOnMotor(c)
  BY InitTypeOK DEF SystemInit, Init, NoCall, CallIsOnMotor
<1>2. motorId \in [Motor -> MotorId]
  BY MotorAssumption DEF SystemInit, MotorId
<1>3. wire \in Seq(MotorCommand) /\ back \in [Motor -> Seq(MotorAnswer)]
  BY DEF SystemInit
<1>4. QED BY <1>1, <1>2, <1>3 DEF TrafficInv

LEMMA NextTraffic == TrafficInv /\ [SystemNext]_systemVars => TrafficInv'
<1> SUFFICES ASSUME TrafficInv, [SystemNext]_systemVars PROVE TrafficInv'
  OBVIOUS
<1>1. TypeOK'
  BY SystemStepIsAStep, NextTypeOK DEF TrafficInv
<1>2. QED BY <1>1, CallsStayOnMotors, LinkKeepsMotorIds DEF TrafficInv

\* The driver over the channel and with real motors takes only steps of the
\* driver of GenMotor, which sends into the blue and gets any frame of RxFrame:
\* what is proved of gen_motor.c there, its types, the form of its addresses
\* and its count of acknowledgements, holds over the bus.
THEOREM SystemImplementsDriver == SystemSpec => Spec
<1>1. SystemInit => TrafficInv /\ Init
  BY InitTraffic DEF SystemInit
<1>2. TrafficInv /\ [SystemNext]_systemVars => TrafficInv'
  BY NextTraffic
<1>3. TrafficInv /\ [SystemNext]_systemVars => [Next]_vars
  BY SystemStepIsAStep
<1>4. QED BY <1>1, <1>2, <1>3, PTL DEF SystemSpec, Spec
=============================================================================
