--------------------------- MODULE GenMotorProofs ---------------------------
(***************************************************************************)
(* Theorems about GenMotor for any number of motors and threads, any       *)
(* operations and any frames.                                              *)
(***************************************************************************)
EXTENDS GenMotor, FiniteSetTheorems, WellFoundedInduction, TLAPS

-----------------------------------------------------------------------------
(* Lemmas about the operators the model is built from. *)

\* Every operation sends a one-byte command, and each but the two management
\* operations one that has a bit in the pending map.
LEMMA CommandType ==
    \A op \in Op \cup {"none"} :
      /\ Command(op) \in Byte
      /\ op \notin ManagementOp => Command(op) \in PendingCmd
BY DEF Command, Op, TargetOp, SimpleOp, ManagementOp, Byte, PendingCmd,
       SET_RUN_MODE, SET_CURRENT_TARGET, SET_SPEED_TARGET, SET_POSITION_TARGET,
       SET_SPEED_PID, READ_SPEED_PID, SET_POSITION_PID, READ_POSITION_PID,
       SET_NODE_ID, READ_NODE_ID, READ_APP_VERSION, SET_REPORT_CONFIG,
       READ_REPORT_CONFIG, RESET_CAN_CONFIG, SET_FOC_CONFIG, READ_FOC_CONFIG,
       ZERO_CALIBRATION, READ_ZERO, MANAGEMENT_IDENTIFY, MANAGEMENT_CONFIGURE_ID

\* The null call and the null saved values are well typed; motor 0 exists.
LEMMA NullTypes == /\ NoConfig \in Config
                   /\ NoCall \in Call
                   /\ NoSaved \in Saved
                   /\ 0 \in Motor
                   /\ MANAGEMENT_NODE_ID \in Byte
<1>1. NoConfig \in Config
  BY DEF NoConfig, Config, Word
<1>2. 0 \in Motor
  BY MotorAssumption DEF Motor
<1>3. NoCall \in Call
  BY <1>1, <1>2, CallerAssumption DEF NoCall, Call, Byte
<1>4. NoSaved \in Saved
  BY <1>1, CallerAssumption DEF NoSaved, Saved, Byte
<1>5. MANAGEMENT_NODE_ID \in Byte
  BY DEF MANAGEMENT_NODE_ID, Byte
<1>6. QED BY <1>1, <1>2, <1>3, <1>4, <1>5

\* A call of operation op on motor m, before its arguments are filled in.
LEMMA CallOfType ==
    ASSUME NEW op \in Op, NEW m \in Motor
    PROVE  /\ CallOf(op, m) \in Call
           /\ CallOf(op, m).op = op
           /\ CallOf(op, m).motor = m
BY NullTypes DEF CallOf, NoCall, Call

\* The calls threads make are well typed.
LEMMA CallsType == MotorCalls \cup ManagementCalls \subseteq Call
<1>1. TargetCalls \subseteq Call
  BY CallOfType DEF TargetCalls, Op, Call
<1>2. ReportConfigCalls \subseteq Call
  <2>1. ASSUME NEW m \in Motor, NEW r \in Config
        PROVE  [CallOf("set_report_config", m) EXCEPT !.config = r] \in Call
    BY CallOfType DEF Op, Call
  <2>2. QED BY <2>1, CallerAssumption DEF ReportConfigCalls
<1>3. NodeIdCalls \subseteq Call
  <2>1. ASSUME NEW m \in Motor, NEW n \in Byte
        PROVE  [CallOf("set_node_id", m) EXCEPT !.new_node_id = n] \in Call
    BY CallOfType DEF Op, Call
  <2>2. QED BY <2>1, CallerAssumption DEF NodeIdCalls
<1>4. PlainCalls \subseteq Call
  BY CallOfType DEF PlainCalls, Op
<1>5. ManagementCalls \subseteq Call
  <2>1. ASSUME NEW n \in Byte
        PROVE  [CallOf("configure_by_uid", 0) EXCEPT !.new_node_id = n] \in Call
    <3>1. CallOf("configure_by_uid", 0) \in Call
      BY CallOfType, NullTypes DEF Op, ManagementOp
    <3>2. QED BY <2>1, <3>1 DEF Call
  <2>2. CallOf("identify_by_uid", 0) \in Call
    BY CallOfType, NullTypes DEF Op, ManagementOp
  <2>3. QED BY <2>1, <2>2, CallerAssumption DEF ManagementCalls
<1>6. QED BY <1>1, <1>2, <1>3, <1>4, <1>5 DEF MotorCalls

\* A call on a motor object is no management operation, and set_ota_state is not
\* begun like one.
MotorOp == Op \ (ManagementOp \cup {"set_ota_state"})

LEMMA CallOps == \A k \in MotorCalls : k.op \in MotorOp
<1>1. ASSUME NEW op \in MotorOp, NEW m \in Motor
      PROVE  /\ CallOf(op, m).op \in MotorOp
             /\ \A t : [CallOf(op, m) EXCEPT !.target = t].op \in MotorOp
             /\ \A r : [CallOf(op, m) EXCEPT !.config = r].op \in MotorOp
             /\ \A n : [CallOf(op, m) EXCEPT !.new_node_id = n].op \in MotorOp
  BY CallOfType DEF Call, MotorOp
<1>2. {"set_report_config", "set_node_id", "reset_can_config"} \cup TargetOp \cup SimpleOp
        \subseteq MotorOp
  BY DEF Op, TargetOp, SimpleOp, ManagementOp, MotorOp
<1>3. \A k \in TargetCalls : k.op \in MotorOp
  <2>1. TAKE k \in TargetCalls
  <2>2. PICK op \in TargetOp, m \in Motor, t \in Target :
          k = [CallOf(op, m) EXCEPT !.target = t]
    BY SMT DEF TargetCalls
  <2>3. QED BY <1>1, <1>2, <2>2
<1>4. \A k \in ReportConfigCalls : k.op \in MotorOp
  <2>1. TAKE k \in ReportConfigCalls
  <2>2. PICK m \in Motor, r \in {x \in ConfigArg : ReportPeriodIsValid(x.period)} :
          k = [CallOf("set_report_config", m) EXCEPT !.config = r]
    BY SMT DEF ReportConfigCalls
  <2>3. QED BY <1>1, <1>2, <2>2
<1>5. \A k \in NodeIdCalls : k.op \in MotorOp
  <2>1. TAKE k \in NodeIdCalls
  <2>2. PICK m \in Motor, n \in {x \in NodeIdArg : NodeIdIsValid(x)} :
          k = [CallOf("set_node_id", m) EXCEPT !.new_node_id = n]
    BY SMT DEF NodeIdCalls
  <2>3. QED BY <1>1, <1>2, <2>2
<1>6. \A k \in PlainCalls : k.op \in MotorOp
  <2>1. TAKE k \in PlainCalls
  <2>2. PICK op \in SimpleOp \cup {"reset_can_config"}, m \in Motor : k = CallOf(op, m)
    BY SMT DEF PlainCalls
  <2>3. QED BY <1>1, <1>2, <2>2
<1>7. QED BY <1>3, <1>4, <1>5, <1>6 DEF MotorCalls

\* The calls on the management channel are management operations.
LEMMA ManagementCallOps == \A k \in ManagementCalls : k.op \in ManagementOp
<1>1. ASSUME NEW n
      PROVE  [CallOf("configure_by_uid", 0) EXCEPT !.new_node_id = n].op
               = "configure_by_uid"
  BY CallOfType, NullTypes DEF Op, ManagementOp, Call
<1>2. CallOf("identify_by_uid", 0).op = "identify_by_uid"
  BY CallOfType, NullTypes DEF Op, ManagementOp
<1>3. TAKE k \in ManagementCalls
<1>4. CASE k = CallOf("identify_by_uid", 0)
  BY <1>2, <1>4 DEF ManagementOp
<1>5. CASE k # CallOf("identify_by_uid", 0)
  <2>1. PICK n \in {x \in NodeIdArg : NodeIdIsValid(x)} :
          k = [CallOf("configure_by_uid", 0) EXCEPT !.new_node_id = n]
    BY <1>5, SMT DEF ManagementCalls
  <2>2. k.op = "configure_by_uid"
    BY <1>1, <2>1
  <2>3. QED BY <2>2 DEF ManagementOp
<1>6. QED BY <1>4, <1>5

\* A node ID that somebody claims is attributed to one of its claimants.
LEMMA FindByAnyNodeType ==
    ASSUME NEW n, Claimants(n) # {}
    PROVE  FindByAnyNode(n) \in Claimants(n) /\ FindByAnyNode(n) \in Motor
<1> DEFINE Less == {ss \in Nat \X Nat : ss[1] < ss[2]}
<1>1. Claimants(n) \subseteq Nat /\ Claimants(n) \subseteq Motor
  BY MotorAssumption DEF Claimants, Motor
<1>2. IsWellFoundedOn(Less, Nat)
  BY NatLessThanWellFounded, Zenon DEF OpToRel
<1>3. PICK m \in Claimants(n) : \A k \in Claimants(n) : <<k, m>> \notin Less
  <2> HIDE DEF Less
  <2> QED BY <1>1, <1>2, WFMin
<1>4. \A k \in Claimants(n) : m <= k
  <2>1. ASSUME NEW k \in Claimants(n), k < m
        PROVE  <<k, m>> \in Less
    <3>1. <<k, m>> \in Nat \X Nat
      BY <1>1
    <3>2. <<k, m>>[1] = k /\ <<k, m>>[2] = m
      OBVIOUS
    <3>3. QED BY <2>1, <3>1, <3>2
  <2> HIDE DEF Less
  <2>2. \A k \in Claimants(n) : ~(k < m)
    BY <1>3, <2>1
  <2>3. \A k \in Claimants(n) : k \in Nat /\ m \in Nat
    BY <1>1
  <2>4. QED BY <2>2, <2>3
<1>5. QED BY <1>1, <1>4 DEF FindByAnyNode

\* The updates of a motor's address keep it an address.
LEMMA AddressTypes ==
    ASSUME NEW a \in Address
    PROVE  /\ \A n \in Byte : AfterNodeIdRequest(a, n) \in Address
           /\ \A s \in Saved : AfterNodeIdRollback(a, s) \in Address
           /\ Unconfigured(a) \in Address
           /\ \A f \in Frame : AfterNodeIdAck(a, f) \in Address
           /\ \A f \in Frame : AfterConfigureAck(a, f) \in Address
<1>1. \A n \in Byte : AfterNodeIdRequest(a, n) \in Address
  BY DEF AfterNodeIdRequest, Address
<1>2. \A s \in Saved : AfterNodeIdRollback(a, s) \in Address
  BY DEF AfterNodeIdRollback, Address, Saved
<1>3. Unconfigured(a) \in Address
  BY NullTypes DEF Unconfigured, Address
<1>4. \A f \in Frame : AfterNodeIdAck(a, f) \in Address
  BY DEF AfterNodeIdAck, Address
<1>5. \A f \in Frame : AfterConfigureAck(a, f) \in Address
  BY DEF AfterConfigureAck, Address, Frame
<1>6. QED BY <1>1, <1>2, <1>3, <1>4, <1>5

\* The bookkeeping of sends and acknowledgements keeps its types.
LEMMA AckTypes ==
    ASSUME NEW a \in AckState
    PROVE  /\ \A cmd \in PendingCmd : AfterAccepted(a, cmd) \in AckState
           /\ AfterRefused(a) \in AckState
           /\ \A f \in Frame : AfterAck(a, f) \in AckState
           /\ \A f \in Frame : AfterAwaitedAck(a, f) \in AckState
<1>1. \A cmd \in PendingCmd : AfterAccepted(a, cmd) \in AckState
  <2>1. TAKE cmd \in PendingCmd
  <2>2. a.tx_count + 1 \in Nat
    BY DEF AckState
  <2>3. MarkPendingAck(a.pending, cmd) \in SUBSET PendingCmd
    BY DEF MarkPendingAck, AckState
  <2>4. QED BY <2>2, <2>3 DEF AfterAccepted, AckState
<1>2. AfterRefused(a) \in AckState
  BY DEF AfterRefused, AckState
<1>3. \A f \in Frame : AfterAck(a, f) \in AckState
  <2>1. TAKE f \in Frame
  <2>2. a.ack_count + 1 \in Nat
    BY DEF AckState
  <2>3. [cmd |-> f.cmd, status |-> f.status] \in [cmd : Byte, status : Byte]
    BY DEF Frame
  <2>4. QED BY <2>2, <2>3 DEF AfterAck, AckState
<1>4. \A f \in Frame : AfterAwaitedAck(a, f) \in AckState
  BY <1>3 DEF AfterAwaitedAck, TakePendingAck, AckState
<1>5. QED BY <1>1, <1>2, <1>3, <1>4

\* What an acknowledgement changes in the read-back state keeps its types.
LEMMA ReadbackTypes ==
    ASSUME NEW f \in Frame
    PROVE  /\ \A r \in Config : AfterReportConfigAck(r, f) \in Config
           /\ \A i \in Info : /\ AfterReadback(i, f) \in Info
                              /\ AfterManagementReadback(i, f) \in Info
<1>1. \A r \in Config : AfterReportConfigAck(r, f) \in Config
  BY DEF AfterReportConfigAck, Config, Frame
<1>2. LearntFrom(f) \subseteq Readback
  BY DEF LearntFrom
<1>3. \A i \in Info : AfterReadback(i, f) \in Info
  BY <1>2 DEF AfterReadback, Info, Frame, Byte
<1>4. \A i \in Info : AfterManagementReadback(i, f) \in Info
  BY DEF AfterManagementReadback, Info, Frame
<1>5. QED BY <1>1, <1>3, <1>4

-----------------------------------------------------------------------------
(* Type correctness. *)

\* The driver starts well typed.
LEMMA InitTypeOK == Init => TypeOK
<1>1. SUFFICES ASSUME Init PROVE TypeOK
  OBVIOUS
<1>2. addr \in [Motor -> Address]
  BY <1>1, MotorAssumption DEF Init, Address
<1>3. requested \in [Motor -> [TargetOp -> Target]]
  BY <1>1, CallerAssumption DEF Init
<1>4. report \in [Motor -> Config]
  <2>1. ASSUME NEW m \in Motor
        PROVE  DefaultPeriod[m] \in Word
    BY MotorAssumption
  <2>2. REPORT_PERIOD_MIN_MS \in Word
    BY DEF Word, REPORT_PERIOD_MIN_MS
  <2>3. QED BY <1>1, <2>1, <2>2 DEF Init, Config
<1>5. info \in [Motor -> Info] /\ ota \in [Motor -> Ota]
  BY <1>1, NullTypes DEF Init, Info, Ota, Byte
<1>6. ack \in [Motor -> AckState] /\ management \in Management
  BY <1>1 DEF Init, AckState, Management, Byte
<1>7. pc \in [Caller -> Location] /\ call \in [Caller -> Call]
      /\ saved \in [Caller -> Saved]
  BY <1>1, NullTypes DEF Init, Location
<1>8. QED BY <1>2, <1>3, <1>4, <1>5, <1>6, <1>7 DEF TypeOK

\* Returning from a call keeps the call variables well typed.
LEMMA ReturnTypeOK ==
    ASSUME TypeOK, NEW c \in Caller, Return(c)
    PROVE  /\ pc' \in [Caller -> Location]
           /\ call' \in [Caller -> Call]
           /\ saved' \in [Caller -> Saved]
BY NullTypes DEF TypeOK, Return, Goto, Location

\* Every step of a call that has begun keeps the types.
LEMMA ContinueTypeOK ==
    ASSUME TypeOK, NEW c \in Caller, Continue(c)
    PROVE  TypeOK'
<1> DEFINE k == call[c]
<1>1. /\ k \in Call /\ k.motor \in Motor /\ k.target \in Target
      /\ k.new_node_id \in Byte /\ k.config \in Config /\ k.active \in BOOLEAN
      /\ k.op \in Op \cup {"none"}
      /\ saved[c] \in Saved
  BY DEF TypeOK, Call
<1>2. Command(k.op) \in Byte /\ (k.op \notin ManagementOp => Command(k.op) \in PendingCmd)
  BY <1>1, CommandType
<1>3. CASE StoreTarget(c)
  <2>1. requested[k.motor][k.op] \in Target
    BY <1>1, <1>3 DEF StoreTarget, TypeOK
  <2>2. saved' \in [Caller -> Saved]
    BY <1>1, <1>3, <2>1 DEF StoreTarget, TypeOK, Saved
  <2>3. requested' \in [Motor -> [TargetOp -> Target]]
    BY <1>1, <1>3 DEF StoreTarget, TypeOK
  <2>4. QED BY <1>3, <2>2, <2>3 DEF StoreTarget, TypeOK, Goto, Location
<1>4. CASE StoreReportConfig(c)
  BY <1>1, <1>4 DEF StoreReportConfig, TypeOK, Goto, Location, Saved
<1>5. CASE StoreNodeId(c)
  <2>1. AfterNodeIdRequest(addr[k.motor], k.new_node_id) \in Address
    BY <1>1, AddressTypes DEF TypeOK
  <2>2. /\ addr[k.motor].requested_node_id \in Byte
        /\ addr[k.motor].pending_node_id_change \in BOOLEAN
    BY <1>1 DEF TypeOK, Address
  <2>3. QED BY <1>1, <1>5, <2>1, <2>2 DEF StoreNodeId, TypeOK, Goto, Location, Saved
<1>6. CASE RefuseNodeId(c)
  BY <1>6, ReturnTypeOK DEF RefuseNodeId, TypeOK, motorVars
<1>7. CASE RecordSent(c)
  <2>1. ack' \in [Motor -> AckState]
    BY <1>1, <1>2, <1>7, AckTypes DEF RecordSent, TypeOK
  <2>2. /\ pc' \in [Caller -> Location] /\ call' \in [Caller -> Call]
        /\ saved' \in [Caller -> Saved]
    BY <1>7, ReturnTypeOK DEF RecordSent, TypeOK, Goto, Location
  <2>3. QED BY <1>7, <2>1, <2>2 DEF RecordSent, TypeOK
<1>8. CASE RecordRefused(c)
  <2>1. ack' \in [Motor -> AckState]
    BY <1>1, <1>8, AckTypes DEF RecordRefused, TypeOK
  <2>2. /\ pc' \in [Caller -> Location] /\ call' \in [Caller -> Call]
        /\ saved' \in [Caller -> Saved]
    BY <1>8, ReturnTypeOK DEF RecordRefused, TypeOK, Goto, Location
  <2>3. QED BY <1>8, <2>1, <2>2 DEF RecordRefused, TypeOK
<1>9. CASE RecordManagementSent(c)
  <2>1. ack[0] \in AckState /\ ack[0].tx_count + 1 \in Nat
    BY NullTypes DEF TypeOK, AckState
  <2>2. [ack[0] EXCEPT !.can_error = FALSE, !.tx_count = ack[0].tx_count + 1] \in AckState
    BY <2>1 DEF AckState
  <2>3. ack' = [ack EXCEPT ![0] = [ack[0] EXCEPT !.can_error = FALSE,
                                                 !.tx_count = ack[0].tx_count + 1]]
    BY <1>9, <2>1, NullTypes DEF RecordManagementSent, TypeOK, AckState
  <2>4. ack' \in [Motor -> AckState]
    BY <2>2, <2>3, NullTypes DEF TypeOK
  <2>5. management' \in Management
    BY <1>2, <1>9 DEF RecordManagementSent, TypeOK, Management
  <2>6. QED BY <1>9, <2>4, <2>5, ReturnTypeOK DEF RecordManagementSent, TypeOK
<1>10. CASE RecordManagementRefused(c)
  <2>1. ack' \in [Motor -> AckState]
    BY <1>10, AckTypes, NullTypes DEF RecordManagementRefused, TypeOK
  <2>2. QED BY <1>10, <2>1, ReturnTypeOK DEF RecordManagementRefused, TypeOK
<1>11. CASE RollbackTarget(c)
  <2>1. saved[c].target \in Target
    BY <1>1 DEF Saved
  <2>2. QED BY <1>1, <1>11, <2>1, ReturnTypeOK DEF RollbackTarget, TypeOK
<1>12. CASE RollbackReportConfig(c)
  <2>1. saved[c].config \in Config
    BY <1>1 DEF Saved
  <2>2. /\ pc' \in [Caller -> Location] /\ call' \in [Caller -> Call]
        /\ saved' \in [Caller -> Saved]
    BY <1>12, ReturnTypeOK DEF RollbackReportConfig, TypeOK, Goto, Location
  <2>3. QED BY <1>1, <1>12, <2>1, <2>2 DEF RollbackReportConfig, TypeOK
<1>13. CASE RollbackNodeId(c)
  <2>1. AfterNodeIdRollback(addr[k.motor], saved[c]) \in Address
    BY <1>1, AddressTypes DEF TypeOK
  <2>2. QED BY <1>1, <1>13, <2>1, ReturnTypeOK DEF RollbackNodeId, TypeOK
<1>14. CASE ApplyReset(c)
  <2>1. Unconfigured(addr[k.motor]) \in Address
    BY <1>1, AddressTypes DEF TypeOK
  <2>2. QED BY <1>1, <1>14, <2>1, ReturnTypeOK DEF ApplyReset, TypeOK
<1>15. CASE PrepareOta(c)
  <2>1. addr[k.motor].node_id \in Byte
    BY <1>1 DEF TypeOK, Address
  <2>2. QED BY <1>1, <1>15, <2>1
            DEF PrepareOta, TypeOK, Goto, Location, Call, motorVars
<1>16. CASE UndoOta(c)
  <2> DEFINE undone == [ota[k.motor] EXCEPT !.active = ~k.active,
                                            !.restore_valid = ~k.active]
  <2>1. k.motor \in Motor /\ ota[k.motor] \in Ota /\ k.active \in BOOLEAN
    BY <1>1 DEF TypeOK, Call
  <2>2. undone \in Ota
    BY <2>1 DEF Ota
  <2>3. ota' = [ota EXCEPT ![k.motor] = undone]
    BY <1>16, <2>1 DEF UndoOta, TypeOK
  <2> HIDE DEF undone
  <2>4. ota' \in [Motor -> Ota]
    BY <2>2, <2>3 DEF TypeOK
  <2>5. QED BY <1>16, <2>4, ReturnTypeOK DEF UndoOta, TypeOK
<1>17. QED BY <1>3, <1>4, <1>5, <1>6, <1>7, <1>8, <1>9, <1>10, <1>11, <1>12, <1>13,
              <1>14, <1>15, <1>16 DEF Continue

\* Every way of beginning a call keeps the types.
LEMMA BeginTypeOK ==
    ASSUME TypeOK, NEW c \in Caller, Begin(c)
    PROVE  TypeOK'
<1>1. ASSUME NEW k \in MotorCalls, Prepare(c, k)
      PROVE  TypeOK'
  <2>1. k \in Call /\ addr[k.motor].node_id \in Byte
    BY CallsType DEF TypeOK, Address, Call
  <2>2. [k EXCEPT !.node_id = addr[k.motor].node_id] \in Call
    BY <2>1 DEF Call
  <2>3. QED BY <1>1, <2>2 DEF Prepare, TypeOK, Goto, Location, motorVars
<1>2. ASSUME NEW k \in ManagementCalls, PrepareManagement(c, k)
      PROVE  TypeOK'
  <2>1. [k EXCEPT !.node_id = MANAGEMENT_NODE_ID] \in Call
    <3>1. k \in Call
      BY CallsType
    <3>2. QED BY <3>1, NullTypes DEF Call
  <2>2. /\ call' = [call EXCEPT ![c] = [k EXCEPT !.node_id = MANAGEMENT_NODE_ID]]
        /\ pc' = [pc EXCEPT ![c] = "send"]
        /\ UNCHANGED <<motorVars, management, saved>>
    BY <1>2 DEF PrepareManagement, Goto
  <2>3. /\ call' \in [Caller -> Call]
        /\ pc' \in [Caller -> Location]
    BY <2>1, <2>2 DEF TypeOK, Location
  <2>4. UNCHANGED <<addr, requested, report, info, ota, ack, management, saved>>
    BY <2>2 DEF motorVars
  <2>5. QED BY <2>3, <2>4 DEF TypeOK
<1>3. \A x \in Config : [x EXCEPT !.period = ClampPeriod(@)] \in Config
  <2>1. ASSUME NEW p \in Word
        PROVE  ClampPeriod(p) \in Word
    <3>1. ClampPeriod(p) \in {p, REPORT_PERIOD_MIN_MS}
      BY DEF ClampPeriod
    <3>2. REPORT_PERIOD_MIN_MS \in Word
      BY DEF REPORT_PERIOD_MIN_MS, Word
    <3>3. QED BY <3>1, <3>2
  <2>2. QED BY <2>1 DEF Config
<1>4. ASSUME NEW m \in Motor, EnterOta(c, m)
      PROVE  TypeOK'
  <2>1. report[m] \in Config
    BY DEF TypeOK
  <2>2. [enabled |-> FALSE, period |-> ClampPeriod(report[m].period)] \in Config
    BY <1>3, <2>1 DEF Config
  <2>3. [CallOf("set_ota_state", m) EXCEPT
           !.active = TRUE,
           !.config = [enabled |-> FALSE, period |-> ClampPeriod(report[m].period)]]
        \in Call
    <3>1. CallOf("set_ota_state", m) \in Call
      BY CallOfType DEF Op
    <3>2. QED BY <2>2, <3>1 DEF Call
  <2>4. ota' \in [Motor -> Ota]
    BY <1>4, <2>1 DEF EnterOta, TypeOK, Ota
  <2>5. QED BY <1>4, <2>3, <2>4
            DEF EnterOta, CallSetReportConfig, TypeOK, Goto, Location
<1>5. ASSUME NEW m \in Motor, ExitOtaAndRestore(c, m)
      PROVE  TypeOK'
  <2>1. ota[m].before \in Config
    BY DEF TypeOK, Ota
  <2>2. [CallOf("set_ota_state", m) EXCEPT
           !.config = [ota[m].before EXCEPT !.period = ClampPeriod(@)]] \in Call
    BY <1>3, <2>1, CallOfType DEF Call, Op
  <2>3. ota' \in [Motor -> Ota]
    BY <1>5 DEF ExitOtaAndRestore, TypeOK, Ota
  <2>4. QED BY <1>5, <2>2, <2>3
            DEF ExitOtaAndRestore, CallSetReportConfig, TypeOK, Goto, Location
<1>6. ASSUME NEW m \in Motor, ExitOtaWithoutRestoring(c, m)
      PROVE  TypeOK'
  <2>1. ota' \in [Motor -> Ota]
    BY <1>6 DEF ExitOtaWithoutRestoring, TypeOK, Ota
  <2>2. QED BY <1>6, <2>1 DEF ExitOtaWithoutRestoring, TypeOK, callVars
<1>7. QED BY <1>1, <1>2, <1>4, <1>5, <1>6 DEF Begin

\* Every received frame keeps the types.
LEMMA HandleCanFrameTypeOK ==
    ASSUME TypeOK, NEW f \in Frame, HandleCanFrame(f)
    PROVE  TypeOK'
<1> DEFINE m == FindByAnyNode(DecodeFrameId(f.id).node_id)
<1>1. CASE HandleAck(f)
  <2>1. m \in Motor
    BY <1>1, FindByAnyNodeType DEF HandleAck
  <2>2. ack' \in [Motor -> AckState]
    BY <1>1, <2>1, AckTypes DEF HandleAck, TypeOK
  <2>3. addr' \in [Motor -> Address]
    BY <1>1, <2>1, AddressTypes DEF HandleAck, TypeOK
  <2>4. report' \in [Motor -> Config] /\ info' \in [Motor -> Info]
    BY <1>1, <2>1, ReadbackTypes DEF HandleAck, TypeOK
  <2>5. QED BY <1>1, <2>2, <2>3, <2>4 DEF HandleAck, TypeOK, callVars
<1>2. CASE HandleReport(f)
  <2>1. m \in Motor
    BY <1>2, FindByAnyNodeType DEF HandleReport
  <2>2. info' \in [Motor -> Info]
    BY <1>2, <2>1 DEF HandleReport, TypeOK, Info, Readback
  <2>3. QED BY <1>2, <2>2 DEF HandleReport, TypeOK, callVars
<1>3. CASE HandleManagementReport(f)
  BY <1>3 DEF HandleManagementReport, TypeOK, Management, Frame, motorVars, callVars
<1>4. CASE HandleManagementAck(f)
  <2>1. ack' \in [Motor -> AckState]
    BY <1>4, AckTypes, NullTypes DEF HandleManagementAck, TypeOK
  <2>2. management' \in Management
    BY <1>4 DEF HandleManagementAck, TypeOK, Management
  <2>3. addr' \in [Motor -> Address]
    BY <1>4, AddressTypes, NullTypes DEF HandleManagementAck, TypeOK
  <2>4. info' \in [Motor -> Info]
    BY <1>4, ReadbackTypes, NullTypes DEF HandleManagementAck, TypeOK
  <2>5. QED BY <1>4, <2>1, <2>2, <2>3, <2>4 DEF HandleManagementAck, TypeOK, callVars
<1>5. QED BY <1>1, <1>2, <1>3, <1>4 DEF HandleCanFrame

\* The answer of the transport keeps the types.
LEMMA SendTypeOK ==
    ASSUME TypeOK, NEW c \in Caller, NEW accepted \in BOOLEAN, Send(c, accepted)
    PROVE  TypeOK'
<1>1. call[c] \in Call
  BY DEF TypeOK
<1>2. [call[c] EXCEPT !.accepted = accepted] \in Call
  BY <1>1 DEF Call
<1>3. call' = [call EXCEPT ![c] = [call[c] EXCEPT !.accepted = accepted]]
  BY DEF Send
<1>4. call' \in [Caller -> Call] /\ pc' \in [Caller -> Location]
  BY <1>2, <1>3 DEF Send, TypeOK, Goto, Location
<1>5. QED BY <1>4 DEF Send, TypeOK, motorVars

\* Every step of the driver keeps the types.
LEMMA NextTypeOK == TypeOK /\ [Next]_vars => TypeOK'
<1>1. SUFFICES ASSUME TypeOK, [Next]_vars PROVE TypeOK'
  OBVIOUS
<1>2. CASE Next
  <2>1. ASSUME NEW f \in RxFrame, HandleCanFrame(f) PROVE TypeOK'
    BY <1>1, <2>1, HandleCanFrameTypeOK, FirmwareAssumption
  <2>2. QED BY <1>1, <1>2, <2>1, BeginTypeOK, ContinueTypeOK, SendTypeOK DEF Next
<1>3. CASE UNCHANGED vars
  BY <1>1, <1>3 DEF TypeOK, vars, motorVars, callVars
<1>4. QED BY <1>1, <1>2, <1>3

\* Every variable of the driver holds values of its C type in every reachable
\* state: in particular every frame that is attributed to a motor is attributed
\* to an object of the table, and no node ID leaves eight bits.
THEOREM TypeCorrect == Spec => []TypeOK
<1>1. Init => TypeOK
  BY InitTypeOK
<1>2. TypeOK /\ [Next]_vars => TypeOK'
  BY NextTypeOK
<1>3. QED BY <1>1, <1>2, PTL DEF Spec

-----------------------------------------------------------------------------
(* Configured exactly when on a business node ID.                            *)
(*                                                                           *)
(* The invariant is not inductive alone: a roll-back writes back what a call *)
(* has saved, and a store writes an argument, so both must be known to lead  *)
(* to business node IDs too.                                                 *)

CallArgumentsValid ==
    \A c \in Caller :
      call[c].op = "set_node_id" => NodeIdIsValid(call[c].new_node_id)

SavedPairsValid ==
    \A c \in Caller :
      saved[c].pending_node_id_change => NodeIdIsValid(saved[c].requested_node_id)

AddressInv ==
    /\ TypeOK
    /\ ConfiguredIffBusiness
    /\ CallArgumentsValid
    /\ SavedPairsValid

\* The management node ID is not a business node ID.
LEMMA ManagementIdInvalid == ~NodeIdIsValid(MANAGEMENT_NODE_ID)
BY DEF NodeIdIsValid

\* The updates of a motor's address keep it well addressed.
LEMMA WellAddressedUpdates ==
    ASSUME NEW a \in Address, WellAddressed(a)
    PROVE  /\ \A n \in Byte :
                NodeIdIsValid(n) => WellAddressed(AfterNodeIdRequest(a, n))
           /\ \A s \in Saved :
                (s.pending_node_id_change => NodeIdIsValid(s.requested_node_id))
                  => WellAddressed(AfterNodeIdRollback(a, s))
           /\ WellAddressed(Unconfigured(a))
           /\ \A f \in Frame : WellAddressed(AfterNodeIdAck(a, f))
           /\ \A f \in Frame : NodeIdIsValid(f.byte2)
                                 => WellAddressed(AfterConfigureAck(a, f))
<1>1. \A n \in Byte : NodeIdIsValid(n) => WellAddressed(AfterNodeIdRequest(a, n))
  BY DEF WellAddressed, AfterNodeIdRequest, Address
<1>2. \A s \in Saved :
        (s.pending_node_id_change => NodeIdIsValid(s.requested_node_id))
          => WellAddressed(AfterNodeIdRollback(a, s))
  BY DEF WellAddressed, AfterNodeIdRollback, Address, Saved
<1>3. WellAddressed(Unconfigured(a))
  BY ManagementIdInvalid DEF WellAddressed, Unconfigured, Address
<1>4. \A f \in Frame : WellAddressed(AfterNodeIdAck(a, f))
  BY DEF WellAddressed, AfterNodeIdAck, Address
<1>5. \A f \in Frame : NodeIdIsValid(f.byte2) => WellAddressed(AfterConfigureAck(a, f))
  BY DEF WellAddressed, AfterConfigureAck
<1>6. QED BY <1>1, <1>2, <1>3, <1>4, <1>5

\* Only the management acknowledgement identifier is decoded as one.
LEMMA ManagementAckId ==
    ASSUME NEW id \in StandardId, DecodeFrameId(id).kind = "management_ack"
    PROVE  id = MANAGEMENT_ACK_ID
BY DEF DecodeFrameId, StandardId, MANAGEMENT_ACK_ID, MANAGEMENT_REPORT_ID, ACK_BASE,
       REPORT_BASE, MAX_NODE_ID

\* The calls that change a node ID name a business node ID.
LEMMA CallsValid ==
    \A k \in MotorCalls \cup ManagementCalls :
      k.op = "set_node_id" => NodeIdIsValid(k.new_node_id)
<1>1. \A k \in TargetCalls : k.op # "set_node_id"
  BY CallOfType DEF TargetCalls, TargetOp, Op, Call
<1>2. \A k \in ReportConfigCalls : k.op # "set_node_id"
  <2>1. ASSUME NEW m \in Motor, NEW r \in Config
        PROVE  [CallOf("set_report_config", m) EXCEPT !.config = r].op = "set_report_config"
    BY CallOfType DEF Op, Call
  <2>2. TAKE k \in ReportConfigCalls
  <2>3. PICK m \in Motor, r \in {x \in ConfigArg : ReportPeriodIsValid(x.period)} :
          k = [CallOf("set_report_config", m) EXCEPT !.config = r]
    BY SMT DEF ReportConfigCalls
  <2>4. r \in Config
    BY CallerAssumption
  <2>5. k.op = "set_report_config"
    BY <2>1, <2>3, <2>4
  <2>6. QED BY <2>5
<1>3. \A k \in NodeIdCalls : NodeIdIsValid(k.new_node_id)
  <2>1. ASSUME NEW m \in Motor, NEW n \in Byte
        PROVE  [CallOf("set_node_id", m) EXCEPT !.new_node_id = n].new_node_id = n
    BY CallOfType DEF Op, Call
  <2>2. TAKE k \in NodeIdCalls
  <2>3. PICK m \in Motor, n \in {x \in NodeIdArg : NodeIdIsValid(x)} :
          k = [CallOf("set_node_id", m) EXCEPT !.new_node_id = n]
    BY SMT DEF NodeIdCalls
  <2>4. n \in Byte /\ NodeIdIsValid(n)
    BY CallerAssumption
  <2>5. k.new_node_id = n
    BY <2>1, <2>3, <2>4
  <2>6. QED BY <2>4, <2>5
<1>4. \A k \in PlainCalls : k.op # "set_node_id"
  <2>1. ASSUME NEW op \in SimpleOp \cup {"reset_can_config"}, NEW m \in Motor
        PROVE  CallOf(op, m).op # "set_node_id"
    <3>1. op \in Op /\ op # "set_node_id"
      BY DEF SimpleOp, Op
    <3>2. CallOf(op, m).op = op
      BY DEF CallOf, NoCall
    <3>3. QED BY <3>1, <3>2
  <2>2. QED BY <2>1, SMT DEF PlainCalls
<1>5. \A k \in ManagementCalls : k.op # "set_node_id"
  <2>1. ASSUME NEW n \in Byte
        PROVE  [CallOf("configure_by_uid", 0) EXCEPT !.new_node_id = n].op
                 = "configure_by_uid"
    BY CallOfType, NullTypes DEF Op, ManagementOp, Call
  <2>2. CallOf("identify_by_uid", 0).op = "identify_by_uid"
    BY CallOfType, NullTypes DEF Op, ManagementOp
  <2>3. QED BY <2>1, <2>2, CallerAssumption DEF ManagementCalls
<1>6. QED BY <1>1, <1>2, <1>3, <1>4, <1>5 DEF MotorCalls

\* Replacing one address by a well addressed one.
LEMMA AddressUpdate ==
    ASSUME TypeOK, ConfiguredIffBusiness, NEW m \in Motor, NEW a, WellAddressed(a),
           addr' = [addr EXCEPT ![m] = a]
    PROVE  ConfiguredIffBusiness'
BY DEF TypeOK, ConfiguredIffBusiness, WellAddressed

\* Returning clears the locals of a call.
LEMMA ReturnCallValid ==
    ASSUME TypeOK, CallArgumentsValid, SavedPairsValid, NEW c \in Caller, Return(c)
    PROVE  CallArgumentsValid' /\ SavedPairsValid'
BY DEF TypeOK, CallArgumentsValid, SavedPairsValid, Return, NoCall, NoSaved

\* The start-up state satisfies the invariant.
LEMMA InitAddressInv == Init => AddressInv
<1>1. SUFFICES ASSUME Init PROVE AddressInv
  OBVIOUS
<1>2. TypeOK
  BY <1>1, InitTypeOK
<1>3. ConfiguredIffBusiness
  BY <1>1, DevicetreeAssumption DEF Init, ConfiguredIffBusiness, WellAddressed
<1>4. CallArgumentsValid
  BY <1>1 DEF Init, CallArgumentsValid, NoCall
<1>5. SavedPairsValid
  BY <1>1 DEF Init, SavedPairsValid, NoSaved
<1>6. QED BY <1>2, <1>3, <1>4, <1>5 DEF AddressInv

\* Beginning a call changes no address, and the call names a business node ID.
LEMMA BeginAddressInv ==
    ASSUME AddressInv, NEW c \in Caller, Begin(c)
    PROVE  AddressInv'
<1>1. TypeOK'
  BY BeginTypeOK DEF AddressInv
<1>2. addr' = addr /\ saved' = saved
  <2>1. ASSUME NEW k, Prepare(c, k) \/ PrepareManagement(c, k)
        PROVE  addr' = addr /\ saved' = saved
    BY <2>1 DEF Prepare, PrepareManagement, motorVars
  <2>2. ASSUME NEW m, EnterOta(c, m) \/ ExitOtaAndRestore(c, m)
                        \/ ExitOtaWithoutRestoring(c, m)
        PROVE  addr' = addr /\ saved' = saved
    BY <2>2 DEF EnterOta, ExitOtaAndRestore, ExitOtaWithoutRestoring, callVars
  <2>3. QED BY <2>1, <2>2, Zenon DEF Begin
<1>3. CASE \E k \in MotorCalls : Prepare(c, k)
  <2>1. PICK k \in MotorCalls : Prepare(c, k)
    BY <1>3
  <2>2. k \in Call /\ (k.op = "set_node_id" => NodeIdIsValid(k.new_node_id))
    BY CallsType, CallsValid
  <2>3. DEFINE kk == [k EXCEPT !.node_id = addr[k.motor].node_id]
  <2>4. kk.op = k.op /\ kk.new_node_id = k.new_node_id
    BY <2>2 DEF Call
  <2>5. call' = [call EXCEPT ![c] = kk]
    BY <2>1 DEF Prepare
  <2>6. HIDE DEF kk
  <2>7. CallArgumentsValid'
    BY <2>2, <2>4, <2>5 DEF AddressInv, TypeOK, CallArgumentsValid
  <2>8. QED BY <1>1, <1>2, <2>7 DEF AddressInv, ConfiguredIffBusiness, SavedPairsValid
<1>4. CASE \E k \in ManagementCalls : PrepareManagement(c, k)
  <2>1. PICK k \in ManagementCalls : PrepareManagement(c, k)
    BY <1>4
  <2>2. k \in Call /\ (k.op = "set_node_id" => NodeIdIsValid(k.new_node_id))
    BY CallsType, CallsValid
  <2>3. DEFINE kk == [k EXCEPT !.node_id = MANAGEMENT_NODE_ID]
  <2>4. kk.op = k.op /\ kk.new_node_id = k.new_node_id
    BY <2>2 DEF Call
  <2>5. call' = [call EXCEPT ![c] = kk]
    BY <2>1 DEF PrepareManagement
  <2>6. HIDE DEF kk
  <2>7. CallArgumentsValid'
    BY <2>2, <2>4, <2>5 DEF AddressInv, TypeOK, CallArgumentsValid
  <2>8. QED BY <1>1, <1>2, <2>7 DEF AddressInv, ConfiguredIffBusiness, SavedPairsValid
<1>5. ASSUME NEW m \in Motor,
             EnterOta(c, m) \/ ExitOtaAndRestore(c, m) \/ ExitOtaWithoutRestoring(c, m)
      PROVE  AddressInv'
  <2>1. CallArgumentsValid'
    <3>1. CASE EnterOta(c, m)
      <4>1. DEFINE k == [CallOf("set_ota_state", m) EXCEPT
                           !.active = TRUE,
                           !.config = [enabled |-> FALSE,
                                       period |-> ClampPeriod(report[m].period)]]
      <4>2. k.op = "set_ota_state"
        BY CallOfType DEF Op, Call
      <4>3. call' = [call EXCEPT ![c] = k]
        BY <3>1 DEF EnterOta, CallSetReportConfig
      <4>4. HIDE DEF k
      <4>5. QED BY <4>2, <4>3 DEF AddressInv, TypeOK, CallArgumentsValid
    <3>2. CASE ExitOtaAndRestore(c, m)
      <4>1. DEFINE k == [CallOf("set_ota_state", m) EXCEPT
                           !.config = [ota[m].before EXCEPT !.period = ClampPeriod(@)]]
      <4>2. k.op = "set_ota_state"
        BY CallOfType DEF Op, Call
      <4>3. call' = [call EXCEPT ![c] = k]
        BY <3>2 DEF ExitOtaAndRestore, CallSetReportConfig
      <4>4. HIDE DEF k
      <4>5. QED BY <4>2, <4>3 DEF AddressInv, TypeOK, CallArgumentsValid
    <3>3. CASE ExitOtaWithoutRestoring(c, m)
      BY <3>3 DEF ExitOtaWithoutRestoring, callVars, AddressInv, CallArgumentsValid
    <3>4. QED BY <1>5, <3>1, <3>2, <3>3
  <2>2. QED BY <1>1, <1>2, <2>1 DEF AddressInv, ConfiguredIffBusiness, SavedPairsValid
<1>6. QED BY <1>3, <1>4, <1>5 DEF Begin

\* Every step of a call keeps the addresses well formed: a store writes an
\* argument that was checked, a roll-back a pair that was well formed.
LEMMA ContinueAddressInv ==
    ASSUME AddressInv, NEW c \in Caller, Continue(c)
    PROVE  AddressInv'
<1> DEFINE k == call[c]
<1> USE DEF AddressInv
<1>1. TypeOK'
  BY ContinueTypeOK
<1>2. /\ k \in Call /\ k.motor \in Motor /\ k.new_node_id \in Byte
      /\ saved[c] \in Saved /\ addr[k.motor] \in Address
      /\ WellAddressed(addr[k.motor])
  BY DEF TypeOK, Call, ConfiguredIffBusiness
<1>3. CASE StoreNodeId(c)
  <2>1. WellAddressed(AfterNodeIdRequest(addr[k.motor], k.new_node_id))
    BY <1>2, <1>3, WellAddressedUpdates DEF StoreNodeId, CallArgumentsValid
  <2>2. addr' = [addr EXCEPT ![k.motor] =
                   AfterNodeIdRequest(addr[k.motor], k.new_node_id)]
    BY <1>2, <1>3 DEF StoreNodeId, TypeOK
  <2>3. ConfiguredIffBusiness'
    BY <1>2, <2>1, <2>2, AddressUpdate
  <2>4. CallArgumentsValid'
    BY <1>3 DEF StoreNodeId, CallArgumentsValid
  <2>5. SavedPairsValid'
    <3>1. addr[k.motor].pending_node_id_change
            => NodeIdIsValid(addr[k.motor].requested_node_id)
      BY <1>2 DEF WellAddressed
    <3>2. QED BY <1>2, <1>3, <3>1 DEF StoreNodeId, SavedPairsValid, TypeOK, Saved
  <2>6. QED BY <1>1, <2>3, <2>4, <2>5
<1>4. CASE RollbackNodeId(c)
  <2>1. WellAddressed(AfterNodeIdRollback(addr[k.motor], saved[c]))
    BY <1>2, WellAddressedUpdates DEF SavedPairsValid
  <2>2. addr' = [addr EXCEPT ![k.motor] = AfterNodeIdRollback(addr[k.motor], saved[c])]
    BY <1>2, <1>4 DEF RollbackNodeId, TypeOK
  <2>3. ConfiguredIffBusiness'
    BY <1>2, <2>1, <2>2, AddressUpdate
  <2>4. QED BY <1>1, <1>4, <2>3, ReturnCallValid DEF RollbackNodeId
<1>5. CASE ApplyReset(c)
  <2>1. WellAddressed(Unconfigured(addr[k.motor]))
    BY <1>2, WellAddressedUpdates
  <2>2. addr' = [addr EXCEPT ![k.motor] = Unconfigured(addr[k.motor])]
    BY <1>2, <1>5 DEF ApplyReset, TypeOK
  <2>3. ConfiguredIffBusiness'
    BY <1>2, <2>1, <2>2, AddressUpdate
  <2>4. QED BY <1>1, <1>5, <2>3, ReturnCallValid DEF ApplyReset
<1>6. CASE StoreTarget(c) \/ StoreReportConfig(c)
  <2>1. addr' = addr /\ call' = call
    BY <1>6 DEF StoreTarget, StoreReportConfig
  <2>2. \A d \in Caller :
          /\ saved'[d].pending_node_id_change = saved[d].pending_node_id_change
          /\ saved'[d].requested_node_id = saved[d].requested_node_id
    <3>1. CASE StoreTarget(c)
      BY <1>2, <3>1 DEF StoreTarget, TypeOK, Saved
    <3>2. CASE StoreReportConfig(c)
      BY <1>2, <3>2 DEF StoreReportConfig, TypeOK, Saved
    <3>3. QED BY <1>6, <3>1, <3>2
  <2>3. QED BY <1>1, <2>1, <2>2
            DEF ConfiguredIffBusiness, CallArgumentsValid, SavedPairsValid
<1>7. CASE PrepareOta(c)
  <2>1. \A d \in Caller : /\ call'[d].op = call[d].op
                          /\ call'[d].new_node_id = call[d].new_node_id
    BY <1>7 DEF PrepareOta, TypeOK, Call
  <2>2. addr' = addr /\ saved' = saved
    BY <1>7 DEF PrepareOta, motorVars
  <2>3. QED BY <1>1, <2>1, <2>2
            DEF ConfiguredIffBusiness, CallArgumentsValid, SavedPairsValid
<1>8. CASE \/ RefuseNodeId(c) \/ RecordSent(c) \/ RecordRefused(c)
           \/ RecordManagementSent(c) \/ RecordManagementRefused(c)
           \/ RollbackTarget(c) \/ RollbackReportConfig(c) \/ UndoOta(c)
  <2>1. addr' = addr
    BY <1>8 DEF RefuseNodeId, RecordSent, RecordRefused, RecordManagementSent,
                RecordManagementRefused, RollbackTarget, RollbackReportConfig, UndoOta,
                motorVars
  <2>2. Return(c) \/ UNCHANGED <<call, saved>>
    BY <1>8 DEF RefuseNodeId, RecordSent, RecordRefused, RecordManagementSent,
                RecordManagementRefused, RollbackTarget, RollbackReportConfig, UndoOta
  <2>3. CallArgumentsValid' /\ SavedPairsValid'
    BY <2>2, ReturnCallValid DEF CallArgumentsValid, SavedPairsValid
  <2>4. QED BY <1>1, <2>1, <2>3 DEF ConfiguredIffBusiness
<1>9. QED BY <1>3, <1>4, <1>5, <1>6, <1>7, <1>8 DEF Continue

\* Every received frame keeps the addresses well formed: an acknowledgement
\* activates a pending request or the ID that a motor confirms.
LEMMA HandleCanFrameAddressInv ==
    ASSUME AddressInv, NEW f \in Frame, HandleCanFrame(f),
           f.id = MANAGEMENT_ACK_ID /\ f.cmd = MANAGEMENT_CONFIGURE_ID
             => NodeIdIsValid(f.byte2)
    PROVE  AddressInv'
<1> USE DEF AddressInv
<1>1. TypeOK'
  BY HandleCanFrameTypeOK
<1>2. call' = call /\ saved' = saved
  BY DEF HandleCanFrame, HandleAck, HandleReport, HandleManagementReport,
         HandleManagementAck, callVars
<1>3. CallArgumentsValid' /\ SavedPairsValid'
  BY <1>2 DEF CallArgumentsValid, SavedPairsValid
<1>4. CASE HandleAck(f)
  <2>1. DEFINE m == FindByAnyNode(DecodeFrameId(f.id).node_id)
  <2>2. m \in Motor
    BY <1>4, FindByAnyNodeType DEF HandleAck
  <2>3. HIDE DEF m
  <2>4. addr[m] \in Address /\ WellAddressed(addr[m])
    BY <2>2 DEF TypeOK, ConfiguredIffBusiness
  <2>5. WellAddressed(AfterNodeIdAck(addr[m], f))
    BY <2>4, WellAddressedUpdates
  <2>6. addr' = [addr EXCEPT ![m] = AfterNodeIdAck(addr[m], f)]
    BY <1>4, <2>2 DEF HandleAck, TypeOK, m
  <2>7. ConfiguredIffBusiness'
    BY <2>2, <2>5, <2>6, AddressUpdate
  <2>8. QED BY <1>1, <1>3, <2>7
<1>5. CASE HandleManagementAck(f)
  <2>1. 0 \in Motor /\ addr[0] \in Address /\ WellAddressed(addr[0])
    BY NullTypes DEF TypeOK, ConfiguredIffBusiness
  <2>2. WellAddressed(AfterConfigureAck(addr[0], f))
    <3>1. CASE Configures(f)
      <4>1. f.id = MANAGEMENT_ACK_ID
        BY <1>5, ManagementAckId DEF HandleManagementAck, Frame
      <4>2. NodeIdIsValid(f.byte2)
        BY <3>1, <4>1 DEF Configures, Acknowledges
      <4>3. QED BY <2>1, <4>2, WellAddressedUpdates
    <3>2. CASE ~Configures(f)
      BY <2>1, <3>2 DEF AfterConfigureAck
    <3>3. QED BY <3>1, <3>2
  <2>3. addr' = [addr EXCEPT ![0] = AfterConfigureAck(addr[0], f)]
    BY <1>5, <2>1 DEF HandleManagementAck, TypeOK
  <2>4. ConfiguredIffBusiness'
    BY <2>1, <2>2, <2>3, AddressUpdate
  <2>5. QED BY <1>1, <1>3, <2>4
<1>6. CASE HandleReport(f) \/ HandleManagementReport(f)
  <2>1. addr' = addr
    BY <1>6 DEF HandleReport, HandleManagementReport, motorVars
  <2>2. QED BY <1>1, <1>3, <2>1 DEF ConfiguredIffBusiness
<1>7. QED BY <1>4, <1>5, <1>6 DEF HandleCanFrame

\* The answer of the transport touches no address.
LEMMA SendAddressInv ==
    ASSUME AddressInv, NEW c \in Caller, NEW accepted \in BOOLEAN, Send(c, accepted)
    PROVE  AddressInv'
<1>1. TypeOK'
  BY SendTypeOK DEF AddressInv
<1>2. \A d \in Caller : /\ call'[d].op = call[d].op
                        /\ call'[d].new_node_id = call[d].new_node_id
  BY DEF Send, AddressInv, TypeOK, Call
<1>3. addr' = addr /\ saved' = saved
  BY DEF Send, motorVars
<1>4. QED BY <1>1, <1>2, <1>3
          DEF AddressInv, ConfiguredIffBusiness, CallArgumentsValid, SavedPairsValid

\* A step of something else changes nothing of the driver.
LEMMA StutterAddressInv ==
    ASSUME AddressInv, UNCHANGED vars
    PROVE  AddressInv'
<1>1. TypeOK'
  BY NextTypeOK DEF AddressInv
<1>2. QED BY <1>1 DEF AddressInv, ConfiguredIffBusiness, CallArgumentsValid,
             SavedPairsValid, vars, motorVars, callVars

\* A motor object counts as configured exactly when its node ID is a business
\* ID, for any number of motors and threads and any traffic in which motors
\* confirm business IDs only.
THEOREM AddressesWellFormed == Spec => []ConfiguredIffBusiness
<1>1. Init => AddressInv
  BY InitAddressInv
<1>2. AddressInv /\ [Next]_vars => AddressInv'
  <2>1. SUFFICES ASSUME AddressInv, [Next]_vars PROVE AddressInv'
    OBVIOUS
  <2>2. CASE Next
    BY <2>1, <2>2, BeginAddressInv, ContinueAddressInv, SendAddressInv,
       HandleCanFrameAddressInv, FirmwareAssumption DEF Next
  <2>3. CASE UNCHANGED vars
    BY <2>1, <2>3, StutterAddressInv
  <2>4. QED BY <2>1, <2>2, <2>3
<1>3. AddressInv => ConfiguredIffBusiness
  BY DEF AddressInv
<1>4. QED BY <1>1, <1>2, <1>3, PTL DEF Spec

-----------------------------------------------------------------------------
(***************************************************************************)
(* The driver never counts or acts on more acknowledgements than the       *)
(* transport has accepted commands, whatever arrives.                      *)
(***************************************************************************)

AckInv == TypeOK /\ AcksNeverExceedSends

\* The acknowledgement state a of a motor, with w management acknowledgements
\* awaited on its account, is backed by accepted commands.
Backed(a, w) == a.ack_count + Cardinality(a.pending) + w <= a.tx_count

\* The pending map is finite; marking a command adds at most one bit, taking
\* an awaited one removes exactly one.
LEMMA PendingCardinality ==
    ASSUME NEW P \in SUBSET PendingCmd, NEW cmd
    PROVE  /\ Cardinality(P) \in Nat
           /\ Cardinality(MarkPendingAck(P, cmd)) \in Nat
           /\ Cardinality(MarkPendingAck(P, cmd)) <= Cardinality(P) + 1
           /\ cmd \in P => /\ Cardinality(TakePendingAck(P, cmd)) \in Nat
                           /\ Cardinality(TakePendingAck(P, cmd)) = Cardinality(P) - 1
<1>1. IsFiniteSet(P)
  <2>1. 0 \in Int /\ 63 \in Int
    OBVIOUS
  <2>2. IsFiniteSet(0..63)
    BY <2>1, FS_Interval, Zenon
  <2>3. QED BY <2>2, FS_Subset, Zenon DEF PendingCmd
<1>2. Cardinality(P) \in Nat
  BY <1>1, FS_CardinalityType
<1>3. Cardinality(P \cup {cmd}) \in {Cardinality(P), Cardinality(P) + 1}
  BY <1>1, FS_AddElement
<1>4. cmd \in P => Cardinality(P \ {cmd}) = Cardinality(P) - 1
  BY <1>1, FS_RemoveElement
<1>5. cmd \in P => Cardinality(P \ {cmd}) \in Nat
  BY <1>1, FS_RemoveElement, FS_CardinalityType
<1>6. QED BY <1>2, <1>3, <1>4, <1>5 DEF MarkPendingAck, TakePendingAck

\* What a motor's acknowledgement state becomes stays backed.
LEMMA BackedUpdates ==
    ASSUME NEW a \in AckState, NEW w \in {0, 1}, Backed(a, w)
    PROVE  /\ \A cmd : Backed(AfterAccepted(a, cmd), w)
           /\ Backed(AfterRefused(a), w)
           /\ Backed([a EXCEPT !.can_error = FALSE, !.tx_count = @ + 1], 1)
           /\ \A f \in Frame : f.cmd \in a.pending => Backed(AfterAwaitedAck(a, f), w)
           /\ \A f \in Frame : w = 1 => Backed(AfterAck(a, f), 0)
<1>1. /\ a.pending \in SUBSET PendingCmd /\ a.ack_count \in Nat /\ a.tx_count \in Nat
      /\ Cardinality(a.pending) \in Nat
  BY PendingCardinality DEF AckState
<1>2. ASSUME NEW cmd PROVE Backed(AfterAccepted(a, cmd), w)
  <2>1. /\ AfterAccepted(a, cmd).ack_count = a.ack_count
        /\ AfterAccepted(a, cmd).pending = MarkPendingAck(a.pending, cmd)
        /\ AfterAccepted(a, cmd).tx_count = a.tx_count + 1
    BY DEF AfterAccepted, AckState
  <2>2. /\ Cardinality(MarkPendingAck(a.pending, cmd)) \in Nat
        /\ Cardinality(MarkPendingAck(a.pending, cmd)) <= Cardinality(a.pending) + 1
    BY <1>1, PendingCardinality
  <2>3. QED BY <1>1, <2>1, <2>2 DEF Backed
<1>3. Backed(AfterRefused(a), w)
  BY DEF Backed, AfterRefused, AckState
<1>4. Backed([a EXCEPT !.can_error = FALSE, !.tx_count = @ + 1], 1)
  BY <1>1 DEF Backed, AckState
<1>5. ASSUME NEW f \in Frame, f.cmd \in a.pending
      PROVE  Backed(AfterAwaitedAck(a, f), w)
  <2>1. /\ AfterAwaitedAck(a, f).ack_count = a.ack_count + 1
        /\ AfterAwaitedAck(a, f).pending = TakePendingAck(a.pending, f.cmd)
        /\ AfterAwaitedAck(a, f).tx_count = a.tx_count
    BY DEF AfterAwaitedAck, AfterAck, AckState
  <2>2. /\ Cardinality(TakePendingAck(a.pending, f.cmd)) \in Nat
        /\ Cardinality(TakePendingAck(a.pending, f.cmd)) = Cardinality(a.pending) - 1
    BY <1>1, <1>5, PendingCardinality
  <2>3. QED BY <1>1, <2>1, <2>2 DEF Backed
<1>6. ASSUME NEW f \in Frame, w = 1 PROVE Backed(AfterAck(a, f), 0)
  <2>1. /\ AfterAck(a, f).ack_count = a.ack_count + 1
        /\ AfterAck(a, f).pending = a.pending
        /\ AfterAck(a, f).tx_count = a.tx_count
    BY DEF AfterAck, AckState
  <2>2. QED BY <1>1, <1>6, <2>1 DEF Backed
<1>7. QED BY <1>2, <1>3, <1>4, <1>5, <1>6

\* At most one management acknowledgement is awaited, on the first motor.
LEMMA AwaitedType == \A m \in Motor : AwaitedFromManagement(m) \in {0, 1}
BY DEF AwaitedFromManagement

\* A step that changes the state of one motor, or its awaited management
\* acknowledgement, keeps all of them backed if it keeps this one.
LEMMA BackedUpdate ==
    ASSUME AckInv, NEW m \in Motor, NEW a, ack' = [ack EXCEPT ![m] = a],
           Backed(a, AwaitedFromManagement(m)'),
           m = 0 \/ management'.pending_valid = management.pending_valid
    PROVE  AcksNeverExceedSends'
<1>1. SUFFICES ASSUME NEW n \in Motor
               PROVE  Backed(ack'[n], AwaitedFromManagement(n)')
  BY DEF AcksNeverExceedSends, Backed
<1>2. CASE n = m
  BY <1>2 DEF AckInv, TypeOK
<1>3. CASE n # m
  <2>1. ack'[n] = ack[n]
    BY <1>3 DEF AckInv, TypeOK
  <2>2. AwaitedFromManagement(n)' = AwaitedFromManagement(n)
    BY <1>3 DEF AwaitedFromManagement
  <2>3. QED BY <2>1, <2>2 DEF AckInv, AcksNeverExceedSends, Backed
<1>4. QED BY <1>2, <1>3

\* Steps that leave the acknowledgements alone.
LEMMA AcksUnchanged ==
    ASSUME AckInv, ack' = ack, management'.pending_valid = management.pending_valid
    PROVE  AcksNeverExceedSends'
BY DEF AckInv, AcksNeverExceedSends, AwaitedFromManagement

\* Every step of a call keeps the acknowledgements backed.
LEMMA ContinueAcks ==
    ASSUME AckInv, NEW c \in Caller, Continue(c)
    PROVE  AcksNeverExceedSends'
<1> DEFINE m == call[c].motor
<1>1. /\ m \in Motor /\ ack[m] \in AckState /\ 0 \in Motor /\ ack[0] \in AckState
      /\ Backed(ack[m], AwaitedFromManagement(m))
      /\ Backed(ack[0], AwaitedFromManagement(0))
  BY NullTypes DEF AckInv, TypeOK, Call, AcksNeverExceedSends, Backed
<1>2. CASE RecordSent(c) \/ RecordRefused(c)
  <2>1. PICK a : /\ a = AfterAccepted(ack[m], Command(call[c].op)) \/ a = AfterRefused(ack[m])
                 /\ ack' = [ack EXCEPT ![m] = a]
    BY <1>1, <1>2 DEF RecordSent, RecordRefused, AckInv, TypeOK
  <2>2. management' = management
    BY <1>2 DEF RecordSent, RecordRefused
  <2>3. Backed(a, AwaitedFromManagement(m))
    BY <1>1, <2>1, BackedUpdates, AwaitedType
  <2>4. ASSUME NEW n \in Motor
        PROVE  Backed(ack'[n], AwaitedFromManagement(n))
    <3>1. CASE n = m
      BY <2>1, <2>3, <3>1 DEF AckInv, TypeOK
    <3>2. CASE n # m
      BY <2>1, <3>2 DEF AckInv, TypeOK, AcksNeverExceedSends, Backed
    <3>3. QED BY <3>1, <3>2
  <2>5. QED BY <2>2, <2>4 DEF AcksNeverExceedSends, Backed, AwaitedFromManagement
<1>3. CASE RecordManagementSent(c)
  <2>1. ack' = [ack EXCEPT ![0] = [ack[0] EXCEPT !.can_error = FALSE, !.tx_count = @ + 1]]
    BY <1>1, <1>3 DEF RecordManagementSent, AckInv, TypeOK
  <2>2. AwaitedFromManagement(0)' = 1
    BY <1>3 DEF RecordManagementSent, AwaitedFromManagement, AckInv, TypeOK, Management
  <2>3. Backed([ack[0] EXCEPT !.can_error = FALSE, !.tx_count = @ + 1], 1)
    BY <1>1, BackedUpdates, AwaitedType
  <2>4. QED BY <1>1, <2>1, <2>2, <2>3, BackedUpdate
<1>4. CASE RecordManagementRefused(c)
  <2>1. ack' = [ack EXCEPT ![0] = AfterRefused(ack[0])] /\ management' = management
    BY <1>1, <1>4 DEF RecordManagementRefused, AckInv, TypeOK
  <2>2. AwaitedFromManagement(0)' = AwaitedFromManagement(0)
    BY <2>1 DEF AwaitedFromManagement
  <2>3. QED BY <1>1, <2>1, <2>2, BackedUpdates, AwaitedType, BackedUpdate
<1>5. CASE \/ StoreTarget(c) \/ StoreReportConfig(c) \/ StoreNodeId(c) \/ RefuseNodeId(c)
           \/ RollbackTarget(c) \/ RollbackReportConfig(c) \/ RollbackNodeId(c)
           \/ ApplyReset(c) \/ PrepareOta(c) \/ UndoOta(c)
  <2>1. ack' = ack /\ management' = management
    BY <1>5 DEF StoreTarget, StoreReportConfig, StoreNodeId, RefuseNodeId, RollbackTarget,
                RollbackReportConfig, RollbackNodeId, ApplyReset, PrepareOta, UndoOta,
                motorVars
  <2>2. QED BY <2>1, AcksUnchanged
<1>6. QED BY <1>2, <1>3, <1>4, <1>5 DEF Continue

\* An acknowledgement that is counted has been taken from the awaited ones.
LEMMA HandleCanFrameAcks ==
    ASSUME AckInv, NEW f \in RxFrame, HandleCanFrame(f)
    PROVE  AcksNeverExceedSends'
<1>1. f \in Frame
  BY FirmwareAssumption
<1>2. CASE HandleAck(f)
  <2> DEFINE m == FindByAnyNode(DecodeFrameId(f.id).node_id)
  <2>1. m \in Motor
    BY <1>2, FindByAnyNodeType DEF HandleAck
  <2>2. /\ f.cmd \in ack[m].pending /\ management' = management
        /\ ack' = [ack EXCEPT ![m] = AfterAwaitedAck(ack[m], f)]
    BY <1>2, <2>1 DEF HandleAck, AckInv, TypeOK
  <2> HIDE DEF m
  <2>3. ack[m] \in AckState /\ Backed(ack[m], AwaitedFromManagement(m))
    BY <2>1 DEF AckInv, TypeOK, AcksNeverExceedSends, Backed
  <2>4. Backed(AfterAwaitedAck(ack[m], f), AwaitedFromManagement(m))
    BY <1>1, <2>1, <2>2, <2>3, BackedUpdates, AwaitedType
  <2>5. SUFFICES ASSUME NEW n \in Motor
                 PROVE  Backed(ack'[n], AwaitedFromManagement(n)')
    BY DEF AcksNeverExceedSends, Backed
  <2>6. AwaitedFromManagement(n)' = AwaitedFromManagement(n)
    BY <2>2 DEF AwaitedFromManagement
  <2>7. CASE n = m
    BY <2>2, <2>4, <2>6, <2>7 DEF AckInv, TypeOK
  <2>8. CASE n # m
    BY <2>2, <2>6, <2>8 DEF AckInv, TypeOK, AcksNeverExceedSends, Backed
  <2>9. QED BY <2>7, <2>8
<1>3. CASE HandleManagementAck(f)
  <2>1. 0 \in Motor /\ ack[0] \in AckState
    BY NullTypes DEF AckInv, TypeOK
  <2>2. AwaitedFromManagement(0) = 1 /\ AwaitedFromManagement(0)' = 0
    BY <1>3 DEF HandleManagementAck, AwaitedFromManagement, AckInv, TypeOK, Management
  <2>3. Backed(AfterAck(ack[0], f), 0)
    BY <1>1, <2>1, <2>2, BackedUpdates DEF AckInv, AcksNeverExceedSends, Backed
  <2>4. ack' = [ack EXCEPT ![0] = AfterAck(ack[0], f)]
    BY <1>3, <2>1 DEF HandleManagementAck, AckInv, TypeOK
  <2>5. QED BY <2>1, <2>2, <2>3, <2>4, BackedUpdate
<1>4. CASE HandleReport(f) \/ HandleManagementReport(f)
  <2>1. ack' = ack /\ management'.pending_valid = management.pending_valid
    BY <1>4 DEF HandleReport, HandleManagementReport, motorVars, AckInv, TypeOK, Management
  <2>2. QED BY <2>1, AcksUnchanged
<1>5. QED BY <1>2, <1>3, <1>4 DEF HandleCanFrame

\* Late, duplicated and unasked-for acknowledgements are never counted: those
\* counted and those still awaited never outnumber the commands the transport
\* has accepted, for any number of motors and threads and any traffic.
THEOREM AcksBackedBySends == Spec => []AcksNeverExceedSends
<1>1. Init => AckInv
  <2>1. SUFFICES ASSUME Init PROVE AcksNeverExceedSends
    BY InitTypeOK DEF AckInv
  <2>2. Cardinality({}) = 0
    BY FS_EmptySet
  <2>3. \A m \in Motor : /\ ack[m].ack_count = 0 /\ ack[m].pending = {}
                         /\ ack[m].tx_count = 0 /\ AwaitedFromManagement(m) = 0
    BY <2>1 DEF Init, AwaitedFromManagement
  <2>4. ASSUME NEW m \in Motor
        PROVE  ack[m].ack_count + Cardinality(ack[m].pending) + AwaitedFromManagement(m)
                 <= ack[m].tx_count
    <3>1. Cardinality(ack[m].pending) = 0
      BY <2>2, <2>3, Zenon
    <3>2. QED BY <2>3, <3>1
  <2>5. QED BY <2>4, Zenon DEF AcksNeverExceedSends
<1>2. AckInv /\ [Next]_vars => AckInv'
  <2>1. SUFFICES ASSUME AckInv, [Next]_vars PROVE AcksNeverExceedSends'
    BY NextTypeOK DEF AckInv
  <2>2. ASSUME NEW c \in Caller, Begin(c) \/ \E accepted \in BOOLEAN : Send(c, accepted)
        PROVE  ack' = ack /\ management' = management
    <3>1. ASSUME NEW k, Prepare(c, k) \/ PrepareManagement(c, k)
          PROVE  ack' = ack /\ management' = management
      BY <3>1 DEF Prepare, PrepareManagement, motorVars
    <3>2. ASSUME NEW m, EnterOta(c, m) \/ ExitOtaAndRestore(c, m)
                          \/ ExitOtaWithoutRestoring(c, m)
          PROVE  ack' = ack /\ management' = management
      BY <3>2 DEF EnterOta, ExitOtaAndRestore, ExitOtaWithoutRestoring
    <3>3. ASSUME NEW accepted, Send(c, accepted)
          PROVE  ack' = ack /\ management' = management
      BY <3>3 DEF Send, motorVars
    <3>4. QED BY <2>2, <3>1, <3>2, <3>3, Zenon DEF Begin
  <2>3. UNCHANGED vars => ack' = ack /\ management' = management
    BY DEF vars, motorVars
  <2>4. QED BY <2>1, <2>2, <2>3, AcksUnchanged, ContinueAcks, HandleCanFrameAcks DEF Next
<1>3. AckInv => AcksNeverExceedSends
  BY DEF AckInv
<1>4. QED BY <1>1, <1>2, <1>3, PTL DEF Spec
=============================================================================
