------------------------------ MODULE GenMotor ------------------------------
(***************************************************************************)
(* The gen-motor driver (drivers/motor/gen_motor/gen_motor.c) after its    *)
(* initialisation has succeeded: the table of motor objects, the state the *)
(* driver caches for each of them, the application threads that call its   *)
(* API and the CAN receive thread that delivers frames to it.              *)
(*                                                                         *)
(* One mutex protects the table, but an API call takes it several times:   *)
(* it snapshots the node ID, stores the requested value, sends WITHOUT the *)
(* mutex, records the outcome, and puts the old value back if the send     *)
(* failed.  Each critical section, and each call of the transport, is one  *)
(* action; pc says where the call of each thread stands.  Received frames  *)
(* are handled in one critical section each.                               *)
(*                                                                         *)
(* The transport and the motors are as general as can be here: a send is   *)
(* accepted or refused, and any frame of RxFrame may arrive at any time.   *)
(*                                                                         *)
(* Left out: logging, the rx_count and report_count statistics, and the    *)
(* read-only getters.  Motor arguments are objects obtained from the       *)
(* table, so the NULL and foreign-object checks always succeed.            *)
(***************************************************************************)
EXTENDS GenMotorProtocol, FiniteSets

CONSTANTS
    MotorCount,       \* number of motor objects, DT children of the instance
    DefaultNodeId,    \* node-id of each motor in the devicetree
    DefaultPeriod,    \* report-period-ms of each motor in the devicetree
    Caller,           \* application threads
    Ops,              \* the operations each thread calls
    Target,           \* values of current, speed, position and run mode
    InitialTarget,    \* the value the cache holds at start-up
    NodeIdArg,        \* node IDs passed to set_node_id and configure_by_uid
    ConfigArg,        \* configurations passed to set_report_config
    RxFrame,          \* frames the CAN receive thread may deliver
    MaxTx             \* bound: a call on a motor starts below this tx_count

Motor == 0..(MotorCount - 1)
Config == [enabled : BOOLEAN, period : Word]

\* The fields of a received frame that the handlers tell apart: data[0],
\* data[1], data[2] and the little-endian word in data[3..4].
Frame == [id : StandardId, dlc : 0..8, cmd : Byte, status : Byte,
          byte2 : Byte, word3 : Word]

TargetOp == {"set_run_mode", "set_current_target", "set_speed_target",
             "set_position_target"}
SimpleOp == {"set_speed_pid", "request_speed_pid", "set_position_pid",
             "request_position_pid", "request_app_version",
             "request_report_config", "set_foc_config", "request_foc_config",
             "request_node_id", "zero_calibration", "request_zero"}
ManagementOp == {"identify_by_uid", "configure_by_uid"}
Op == TargetOp \cup SimpleOp \cup ManagementOp
      \cup {"set_report_config", "set_ota_state", "set_node_id", "reset_can_config"}

ASSUME MotorAssumption ==
    /\ MotorCount \in Nat \ {0}
    /\ DefaultNodeId \in [Motor -> Byte]
    /\ DefaultPeriod \in [Motor -> Word]

\* Every board gives its motors business node IDs of their own.
ASSUME DevicetreeAssumption ==
    /\ \A m \in Motor : NodeIdIsValid(DefaultNodeId[m])
    /\ \A m1, m2 \in Motor : DefaultNodeId[m1] = DefaultNodeId[m2] => m1 = m2

ASSUME CallerAssumption ==
    /\ Ops \in [Caller -> SUBSET Op]
    /\ InitialTarget \in Target
    /\ NodeIdArg \subseteq Byte
    /\ ConfigArg \subseteq Config
    /\ MaxTx \in Nat

\* Motors confirm a business node ID, never any other, when they are
\* configured through the management channel.
ASSUME FirmwareAssumption ==
    /\ RxFrame \subseteq Frame
    /\ \A f \in RxFrame :
         (f.id = MANAGEMENT_ACK_ID /\ f.cmd = MANAGEMENT_CONFIGURE_ID)
           => NodeIdIsValid(f.byte2)

VARIABLES
    addr,         \* node_id, configured and requested_node_id of each motor
    requested,    \* the requested_* target of each motor, by operation
    report,       \* report_enabled and report_period_ms of each motor
    info,         \* what has been read back from each motor
    ota,          \* ota_active and the configuration saved on entry
    ack,          \* pending_ack_mask, counters and last_ack of each motor
    management,   \* pending management acknowledgement and last_discovery
    pc,           \* where the call of each thread stands
    call,         \* arguments and locals of the call of each thread
    saved         \* the old values a call puts back when its send fails

motorVars == <<addr, requested, report, info, ota, ack>>
callVars == <<pc, call, saved>>
vars == <<motorVars, management, callVars>>

(***************************************************************************)
(* Types.                                                                  *)
(***************************************************************************)
Address == [node_id : Byte, configured : BOOLEAN,
            requested_node_id : Byte, pending_node_id_change : BOOLEAN]

Readback == {"node_id", "app_version", "report_config", "foc_config", "uid32",
             "position_and_speed"}
Info == [valid : SUBSET Readback, reported_node_id : Byte]

Ota == [active : BOOLEAN, before : Config, restore_valid : BOOLEAN]

AckState == [pending : SUBSET PendingCmd, tx_count : Nat, ack_count : Nat,
             last : [cmd : Byte, status : Byte], can_error : BOOLEAN]

Management == [pending_cmd : Byte, pending_valid : BOOLEAN,
               discovery : [valid : BOOLEAN, node_id : Byte]]

Location == {"idle", "prepare", "store", "send", "record", "rollback",
             "apply_reset", "undo_ota"}

Call == [op : Op \cup {"none"}, motor : Motor, node_id : Byte,
         target : Target, new_node_id : Byte, config : Config,
         active : BOOLEAN, accepted : BOOLEAN]

Saved == [target : Target, requested_node_id : Byte,
          pending_node_id_change : BOOLEAN, config : Config]

\* Every variable holds values of the type the C declaration gives it.
TypeOK ==
    /\ addr \in [Motor -> Address]
    /\ requested \in [Motor -> [TargetOp -> Target]]
    /\ report \in [Motor -> Config]
    /\ info \in [Motor -> Info]
    /\ ota \in [Motor -> Ota]
    /\ ack \in [Motor -> AckState]
    /\ management \in Management
    /\ pc \in [Caller -> Location]
    /\ call \in [Caller -> Call]
    /\ saved \in [Caller -> Saved]

-----------------------------------------------------------------------------
NoConfig == [enabled |-> FALSE, period |-> 0]
NoCall == [op |-> "none", motor |-> 0, node_id |-> 0, target |-> InitialTarget,
           new_node_id |-> 0, config |-> NoConfig, active |-> FALSE,
           accepted |-> FALSE]
NoSaved == [target |-> InitialTarget, requested_node_id |-> 0,
            pending_node_id_change |-> FALSE, config |-> NoConfig]

\* The command code each operation sends in payload[0]; set_ota_state sends
\* through set_report_config.
Command(op) ==
    CASE op = "set_run_mode" -> SET_RUN_MODE
      [] op = "set_current_target" -> SET_CURRENT_TARGET
      [] op = "set_speed_target" -> SET_SPEED_TARGET
      [] op = "set_position_target" -> SET_POSITION_TARGET
      [] op = "set_speed_pid" -> SET_SPEED_PID
      [] op = "request_speed_pid" -> READ_SPEED_PID
      [] op = "set_position_pid" -> SET_POSITION_PID
      [] op = "request_position_pid" -> READ_POSITION_PID
      [] op = "request_app_version" -> READ_APP_VERSION
      [] op = "request_report_config" -> READ_REPORT_CONFIG
      [] op = "set_foc_config" -> SET_FOC_CONFIG
      [] op = "request_foc_config" -> READ_FOC_CONFIG
      [] op = "request_node_id" -> READ_NODE_ID
      [] op = "zero_calibration" -> ZERO_CALIBRATION
      [] op = "request_zero" -> READ_ZERO
      [] op = "set_node_id" -> SET_NODE_ID
      [] op = "reset_can_config" -> RESET_CAN_CONFIG
      [] op = "identify_by_uid" -> MANAGEMENT_IDENTIFY
      [] op = "configure_by_uid" -> MANAGEMENT_CONFIGURE_ID
      [] OTHER -> SET_REPORT_CONFIG

\* gen_motor_reset_one_locked and gen_motor_reset_all_locked
Init ==
    /\ addr = [m \in Motor |-> [node_id |-> DefaultNodeId[m],
                                configured |-> TRUE,
                                requested_node_id |-> DefaultNodeId[m],
                                pending_node_id_change |-> FALSE]]
    /\ requested = [m \in Motor |-> [op \in TargetOp |-> InitialTarget]]
    /\ report = [m \in Motor |->
                   [enabled |-> FALSE,
                    period |-> IF ReportPeriodIsValid(DefaultPeriod[m])
                               THEN DefaultPeriod[m]
                               ELSE REPORT_PERIOD_MIN_MS]]
    /\ info = [m \in Motor |-> [valid |-> {}, reported_node_id |-> 0]]
    /\ ota = [m \in Motor |-> [active |-> FALSE, before |-> NoConfig,
                               restore_valid |-> FALSE]]
    /\ ack = [m \in Motor |-> [pending |-> {}, tx_count |-> 0, ack_count |-> 0,
                               last |-> [cmd |-> 0, status |-> 0],
                               can_error |-> FALSE]]
    /\ management = [pending_cmd |-> 0, pending_valid |-> FALSE,
                     discovery |-> [valid |-> FALSE, node_id |-> 0]]
    /\ pc = [c \in Caller |-> "idle"]
    /\ call = [c \in Caller |-> NoCall]
    /\ saved = [c \in Caller |-> NoSaved]

-----------------------------------------------------------------------------
(***************************************************************************)
(* The table of motor objects.                                             *)
(***************************************************************************)

\* The node IDs a motor object answers to: its own and, while a change is
\* pending, the one it is changing to.
Claims(m) ==
    {addr[m].node_id} \cup
    (IF addr[m].pending_node_id_change THEN {addr[m].requested_node_id} ELSE {})

Claimants(n) == {m \in Motor : n \in Claims(m)}

\* gen_motor_find_by_any_node_locked: the first claimant in table order.
FindByAnyNode(n) ==
    CHOOSE m \in Claimants(n) : \A k \in Claimants(n) : m <= k

\* Mutant of NodeIdIsReserved: pending changes are not looked at.
NodeIdIsInUse(n, ignore) ==
    \E m \in Motor \ {ignore} : addr[m].node_id = n

\* gen_motor_node_id_is_reserved_locked
NodeIdIsReserved(n, ignore) ==
    \E m \in Motor \ {ignore} : n \in Claims(m)

(***************************************************************************)
(* Bookkeeping of acknowledgements, on the acknowledgement state a of one  *)
(* motor.                                                                  *)
(***************************************************************************)

\* gen_motor_mark_pending_ack_locked
MarkPendingAck(pending, cmd) ==
    IF AckCmdCanBePending(cmd) THEN pending \cup {cmd} ELSE pending

\* gen_motor_record_send_result_locked, ret = 0
AfterAccepted(a, cmd) ==
    [a EXCEPT !.can_error = FALSE, !.tx_count = @ + 1,
              !.pending = MarkPendingAck(@, cmd)]

\* gen_motor_record_send_result_locked, ret < 0
AfterRefused(a) == [a EXCEPT !.can_error = TRUE]

\* Mutant of TakePendingAck: the acknowledgement is matched but not consumed.
PeekPendingAck(pending, cmd) == pending

\* gen_motor_take_pending_ack_locked, when the bit is set
TakePendingAck(pending, cmd) == pending \ {cmd}

\* What handle_ack_locked and handle_management_ack_locked keep of the
\* acknowledgement itself.
AfterAck(a, f) ==
    [a EXCEPT !.ack_count = @ + 1, !.last = [cmd |-> f.cmd, status |-> f.status]]

\* The same for an acknowledgement taken from the pending map of a motor.
AfterAwaitedAck(a, f) ==
    [AfterAck(a, f) EXCEPT !.pending = TakePendingAck(a.pending, f.cmd)]

-----------------------------------------------------------------------------
(***************************************************************************)
(* API calls.  k is the call: its operation and arguments.                 *)
(***************************************************************************)
CallOf(op, m) == [NoCall EXCEPT !.op = op, !.motor = m]

\* The calls threads make, with valid arguments: set_node_id,
\* set_report_config and configure_by_uid reject the others and return.
TargetCalls == {[CallOf(op, m) EXCEPT !.target = t] :
                  op \in TargetOp, m \in Motor, t \in Target}
ReportConfigCalls == {[CallOf("set_report_config", m) EXCEPT !.config = r] :
                        m \in Motor,
                        r \in {x \in ConfigArg : ReportPeriodIsValid(x.period)}}
NodeIdCalls == {[CallOf("set_node_id", m) EXCEPT !.new_node_id = n] :
                  m \in Motor, n \in {x \in NodeIdArg : NodeIdIsValid(x)}}
PlainCalls == {CallOf(op, m) : op \in SimpleOp \cup {"reset_can_config"}, m \in Motor}
ManagementCalls ==
    {[CallOf("configure_by_uid", 0) EXCEPT !.new_node_id = n] :
       n \in {x \in NodeIdArg : NodeIdIsValid(x)}} \cup {CallOf("identify_by_uid", 0)}

MotorCalls == TargetCalls \cup ReportConfigCalls \cup NodeIdCalls \cup PlainCalls

\* Operations that write the cache before they send.
IsStoring(op) == op \in TargetOp \cup {"set_report_config", "set_node_id",
                                       "set_ota_state"}

MayCall(c, op, m) ==
    /\ pc[c] = "idle"
    /\ op \in Ops[c]
    /\ ack[m].tx_count < MaxTx

Goto(c, l) == pc' = [pc EXCEPT ![c] = l]

Return(c) ==
    /\ Goto(c, "idle")
    /\ call' = [call EXCEPT ![c] = NoCall]
    /\ saved' = [saved EXCEPT ![c] = NoSaved]

\* gen_motor_prepare_send at the start of an operation: the destination is the
\* node ID of this moment, whatever happens to it before the send.
Prepare(c, k) ==
    /\ k \in MotorCalls
    /\ MayCall(c, k.op, k.motor)
    /\ call' = [call EXCEPT ![c] = [k EXCEPT !.node_id = addr[k.motor].node_id]]
    /\ Goto(c, IF IsStoring(k.op) THEN "store" ELSE "send")
    /\ UNCHANGED <<motorVars, management, saved>>

\* identify_by_uid and configure_by_uid send on the management identifier
\* and touch nothing before that.
PrepareManagement(c, k) ==
    /\ k \in ManagementCalls
    /\ MayCall(c, k.op, 0)
    /\ call' = [call EXCEPT ![c] = [k EXCEPT !.node_id = MANAGEMENT_NODE_ID]]
    /\ Goto(c, "send")
    /\ UNCHANGED <<motorVars, management, saved>>

\* The critical section between prepare_send and send_payload in the four
\* target setters.
StoreTarget(c) ==
    LET k == call[c] IN
    /\ pc[c] = "store"
    /\ k.op \in TargetOp
    /\ saved' = [saved EXCEPT ![c].target = requested[k.motor][k.op]]
    /\ requested' = [requested EXCEPT ![k.motor][k.op] = k.target]
    /\ Goto(c, "send")
    /\ UNCHANGED <<addr, report, info, ota, ack, management, call>>

\* The same in gen_motor_set_report_config, which set_ota_state calls too.
StoreReportConfig(c) ==
    LET k == call[c] IN
    /\ pc[c] = "store"
    /\ k.op \in {"set_report_config", "set_ota_state"}
    /\ saved' = [saved EXCEPT ![c].config = report[k.motor]]
    /\ report' = [report EXCEPT ![k.motor] = k.config]
    /\ Goto(c, "send")
    /\ UNCHANGED <<addr, requested, info, ota, ack, management, call>>

\* Mutant of AfterNodeIdRequest: the change is not marked as pending.
AfterUnmarkedRequest(a, n) == [a EXCEPT !.requested_node_id = n]

\* The address of a motor while set_node_id(n) is on its way.
AfterNodeIdRequest(a, n) ==
    [a EXCEPT !.requested_node_id = n,
              !.pending_node_id_change = (n # a.node_id)]

\* The same in gen_motor_set_node_id, when the ID is free.
StoreNodeId(c) ==
    LET k == call[c] IN
    /\ pc[c] = "store"
    /\ k.op = "set_node_id"
    /\ ~NodeIdIsReserved(k.new_node_id, k.motor)
    /\ saved' = [saved EXCEPT
                   ![c].requested_node_id = addr[k.motor].requested_node_id,
                   ![c].pending_node_id_change = addr[k.motor].pending_node_id_change]
    /\ addr' = [addr EXCEPT ![k.motor] = AfterNodeIdRequest(@, k.new_node_id)]
    /\ Goto(c, "send")
    /\ UNCHANGED <<requested, report, info, ota, ack, management, call>>

\* gen_motor_set_node_id returns -EEXIST.
RefuseNodeId(c) ==
    /\ pc[c] = "store"
    /\ call[c].op = "set_node_id"
    /\ NodeIdIsReserved(call[c].new_node_id, call[c].motor)
    /\ Return(c)
    /\ UNCHANGED <<motorVars, management>>

\* can_protocol_send_data returns; the driver's mutex is not held.
Send(c, accepted) ==
    /\ pc[c] = "send"
    /\ call' = [call EXCEPT ![c].accepted = accepted]
    /\ Goto(c, "record")
    /\ UNCHANGED <<motorVars, management, saved>>

\* send_payload records a frame the transport has accepted.
RecordSent(c) ==
    LET k == call[c] IN
    /\ pc[c] = "record"
    /\ k.accepted
    /\ k.op \notin ManagementOp
    /\ ack' = [ack EXCEPT ![k.motor] = AfterAccepted(@, Command(k.op))]
    /\ \/ /\ k.op = "reset_can_config"
          /\ Goto(c, "apply_reset")
          /\ UNCHANGED <<call, saved>>
       \/ /\ k.op # "reset_can_config"
          /\ Return(c)
    /\ UNCHANGED <<addr, requested, report, info, ota, management>>

\* send_payload records a refusal; an operation that has stored goes on to
\* put the old value back.
RecordRefused(c) ==
    LET k == call[c] IN
    /\ pc[c] = "record"
    /\ ~k.accepted
    /\ k.op \notin ManagementOp
    /\ ack' = [ack EXCEPT ![k.motor] = AfterRefused(@)]
    /\ \/ /\ IsStoring(k.op)
          /\ Goto(c, "rollback")
          /\ UNCHANGED <<call, saved>>
       \/ /\ ~IsStoring(k.op)
          /\ Return(c)
    /\ UNCHANGED <<addr, requested, report, info, ota, management>>

\* send_management_payload: the outcome is booked on the first motor, and one
\* slot remembers the command whose acknowledgement is awaited.
RecordManagementSent(c) ==
    LET k == call[c] IN
    /\ pc[c] = "record"
    /\ k.accepted
    /\ k.op \in ManagementOp
    /\ ack' = [ack EXCEPT ![0].can_error = FALSE, ![0].tx_count = @ + 1]
    /\ management' = [management EXCEPT !.pending_cmd = Command(k.op),
                                        !.pending_valid = TRUE]
    /\ Return(c)
    /\ UNCHANGED <<addr, requested, report, info, ota>>

RecordManagementRefused(c) ==
    /\ pc[c] = "record"
    /\ ~call[c].accepted
    /\ call[c].op \in ManagementOp
    /\ ack' = [ack EXCEPT ![0] = AfterRefused(@)]
    /\ Return(c)
    /\ UNCHANGED <<addr, requested, report, info, ota, management>>

\* Mutant of RollbackTarget: the cache falls back to the start-up value.
RollbackTargetToInitial(c) ==
    LET k == call[c] IN
    /\ pc[c] = "rollback"
    /\ k.op \in TargetOp
    /\ requested' = [requested EXCEPT ![k.motor][k.op] = InitialTarget]
    /\ Return(c)
    /\ UNCHANGED <<addr, report, info, ota, ack, management>>

\* A target setter puts back the value it read before it stored its own.
RollbackTarget(c) ==
    LET k == call[c] IN
    /\ pc[c] = "rollback"
    /\ k.op \in TargetOp
    /\ requested' = [requested EXCEPT ![k.motor][k.op] = saved[c].target]
    /\ Return(c)
    /\ UNCHANGED <<addr, report, info, ota, ack, management>>

\* set_report_config puts the old configuration back and returns the error,
\* to its caller or to set_ota_state.
RollbackReportConfig(c) ==
    LET k == call[c] IN
    /\ pc[c] = "rollback"
    /\ k.op \in {"set_report_config", "set_ota_state"}
    /\ report' = [report EXCEPT ![k.motor] = saved[c].config]
    /\ \/ /\ k.op = "set_report_config"
          /\ Return(c)
       \/ /\ k.op = "set_ota_state"
          /\ Goto(c, "undo_ota")
          /\ UNCHANGED <<call, saved>>
    /\ UNCHANGED <<addr, requested, info, ota, ack, management>>

\* Mutant of AfterNodeIdRollback: the change still counts as pending.
AfterHalfRollback(a, s) == [a EXCEPT !.requested_node_id = s.requested_node_id]

\* The address of a motor once set_node_id has put back what it had saved.
AfterNodeIdRollback(a, s) ==
    [a EXCEPT !.requested_node_id = s.requested_node_id,
              !.pending_node_id_change = s.pending_node_id_change]

\* set_node_id puts the pair back as it was, without looking at the table.
RollbackNodeId(c) ==
    LET k == call[c] IN
    /\ pc[c] = "rollback"
    /\ k.op = "set_node_id"
    /\ addr' = [addr EXCEPT ![k.motor] = AfterNodeIdRollback(@, saved[c])]
    /\ Return(c)
    /\ UNCHANGED <<requested, report, info, ota, ack, management>>

\* Mutant of Unconfigured: the motor object still counts as configured.
UnconfiguredInNameOnly(a) ==
    [a EXCEPT !.node_id = MANAGEMENT_NODE_ID,
              !.requested_node_id = MANAGEMENT_NODE_ID,
              !.pending_node_id_change = FALSE]

\* The address of a motor that has been told to forget its configuration.
Unconfigured(a) ==
    [a EXCEPT !.configured = FALSE,
              !.node_id = MANAGEMENT_NODE_ID,
              !.requested_node_id = MANAGEMENT_NODE_ID,
              !.pending_node_id_change = FALSE]

\* The last critical section of gen_motor_reset_can_config.
ApplyReset(c) ==
    /\ pc[c] = "apply_reset"
    /\ addr' = [addr EXCEPT ![call[c].motor] = Unconfigured(@)]
    /\ Return(c)
    /\ UNCHANGED <<requested, report, info, ota, ack, management>>

(***************************************************************************)
(* gen_motor_set_ota_state.                                                *)
(***************************************************************************)
ClampPeriod(p) == IF p < REPORT_PERIOD_MIN_MS THEN REPORT_PERIOD_MIN_MS ELSE p

\* set_report_config, called with the mutex released, rejects an invalid
\* period at once: the next thing to happen is then the undoing.
CallSetReportConfig(c, k) ==
    /\ call' = [call EXCEPT ![c] = k]
    /\ Goto(c, IF ReportPeriodIsValid(k.config.period)
               THEN "prepare" ELSE "undo_ota")

\* set_ota_state(TRUE): save the reporting configuration, mark the motor, and
\* go on to switch its reports off.
EnterOta(c, m) ==
    /\ MayCall(c, "set_ota_state", m)
    /\ ~ota[m].active
    /\ ota' = [ota EXCEPT ![m] =
                 [active |-> TRUE, before |-> report[m],
                  restore_valid |-> "report_config" \in info[m].valid]]
    /\ CallSetReportConfig(c,
         [CallOf("set_ota_state", m) EXCEPT
            !.active = TRUE,
            !.config = [enabled |-> FALSE, period |-> ClampPeriod(report[m].period)]])
    /\ UNCHANGED <<addr, requested, report, info, ack, management, saved>>

\* set_ota_state(FALSE) with a configuration to restore.
ExitOtaAndRestore(c, m) ==
    /\ MayCall(c, "set_ota_state", m)
    /\ ota[m].active
    /\ ota[m].restore_valid
    /\ ota' = [ota EXCEPT ![m].active = FALSE, ![m].restore_valid = FALSE]
    /\ CallSetReportConfig(c,
         [CallOf("set_ota_state", m) EXCEPT
            !.config = [ota[m].before EXCEPT !.period = ClampPeriod(@)]])
    /\ UNCHANGED <<addr, requested, report, info, ack, management, saved>>

\* set_ota_state(FALSE) without one: it returns 0 at once.
ExitOtaWithoutRestoring(c, m) ==
    /\ MayCall(c, "set_ota_state", m)
    /\ ota[m].active
    /\ ~ota[m].restore_valid
    /\ ota' = [ota EXCEPT ![m].active = FALSE]
    /\ UNCHANGED <<addr, requested, report, info, ack, management, callVars>>

\* prepare_send of the set_report_config that set_ota_state calls.
PrepareOta(c) ==
    /\ pc[c] = "prepare"
    /\ call' = [call EXCEPT ![c].node_id = addr[call[c].motor].node_id]
    /\ Goto(c, "store")
    /\ UNCHANGED <<motorVars, management, saved>>

\* Mutant of UndoOta: a failed exit forgets that there is something to restore.
UndoOtaAndForget(c) ==
    LET k == call[c] IN
    /\ pc[c] = "undo_ota"
    /\ ota' = [ota EXCEPT ![k.motor].active = ~k.active]
    /\ Return(c)
    /\ UNCHANGED <<addr, requested, report, info, ack, management>>

\* set_report_config has failed: a motor that was entering OTA leaves it
\* again, one that was leaving is back in it and may restore later.
UndoOta(c) ==
    LET k == call[c] IN
    /\ pc[c] = "undo_ota"
    /\ ota' = [ota EXCEPT ![k.motor].active = ~k.active,
                          ![k.motor].restore_valid = ~k.active]
    /\ Return(c)
    /\ UNCHANGED <<addr, requested, report, info, ack, management>>

-----------------------------------------------------------------------------
(***************************************************************************)
(* gen_motor_handle_can_frame, in the CAN receive thread.                  *)
(***************************************************************************)
Acknowledges(f, cmds) == f.cmd \in cmds /\ f.status = STATUS_OK

\* Mutant of AfterNodeIdAck: the status is not looked at.
AfterAnyNodeIdAck(a, f) ==
    IF f.cmd # SET_NODE_ID \/ ~a.pending_node_id_change
    THEN a
    ELSE [a EXCEPT !.node_id = a.requested_node_id,
                   !.configured = TRUE,
                   !.pending_node_id_change = FALSE]

\* The address of a motor after the acknowledgement of set_node_id: the
\* requested ID, whichever it is by now, or the old one.
AfterNodeIdAck(a, f) ==
    IF f.cmd # SET_NODE_ID \/ ~a.pending_node_id_change
    THEN a
    ELSE IF f.status = STATUS_OK
         THEN [a EXCEPT !.node_id = a.requested_node_id,
                        !.configured = TRUE,
                        !.pending_node_id_change = FALSE]
         ELSE [a EXCEPT !.requested_node_id = a.node_id,
                        !.pending_node_id_change = FALSE]

\* Mutant of AfterReportConfigAck: the 16-bit period is read a byte too high.
AfterMisreadConfigAck(r, f) ==
    IF Acknowledges(f, {SET_REPORT_CONFIG, READ_REPORT_CONFIG}) /\ f.dlc >= 5
    THEN [enabled |-> f.byte2 # 0, period |-> 256 * f.word3]
    ELSE r

AfterReportConfigAck(r, f) ==
    IF Acknowledges(f, {SET_REPORT_CONFIG, READ_REPORT_CONFIG}) /\ f.dlc >= 5
    THEN [enabled |-> f.byte2 # 0, period |-> f.word3]
    ELSE r

\* What an acknowledgement makes known about the motor.  A READ_NODE_ID answer
\* counts at any length; payload bytes that were not sent read as zero.
LearntFrom(f) ==
    {r \in Readback :
       \/ r = "node_id" /\ Acknowledges(f, {READ_NODE_ID})
       \/ r = "app_version" /\ Acknowledges(f, {READ_APP_VERSION}) /\ f.dlc >= 5
       \/ /\ r = "report_config"
          /\ Acknowledges(f, {SET_REPORT_CONFIG, READ_REPORT_CONFIG})
          /\ f.dlc >= 5
       \/ /\ r = "foc_config"
          /\ Acknowledges(f, {SET_FOC_CONFIG, READ_FOC_CONFIG})
          /\ f.dlc >= 7}

AfterReadback(i, f) ==
    [valid |-> i.valid \cup LearntFrom(f),
     reported_node_id |-> IF ~Acknowledges(f, {READ_NODE_ID}) THEN i.reported_node_id
                          ELSE IF f.dlc > 2 THEN f.byte2 ELSE 0]

\* gen_motor_handle_ack_locked: only an acknowledgement that is awaited counts.
HandleAck(f) ==
    LET d == DecodeFrameId(f.id)
        m == FindByAnyNode(d.node_id)
    IN
    /\ d.kind = "ack"
    /\ Claimants(d.node_id) # {}
    /\ f.dlc >= 2
    /\ f.cmd \in ack[m].pending
    /\ ack' = [ack EXCEPT ![m] = AfterAwaitedAck(@, f)]
    /\ addr' = [addr EXCEPT ![m] = AfterNodeIdAck(@, f)]
    /\ report' = [report EXCEPT ![m] = AfterReportConfigAck(@, f)]
    /\ info' = [info EXCEPT ![m] = AfterReadback(@, f)]
    /\ UNCHANGED <<requested, ota, management, callVars>>

\* gen_motor_handle_report_locked
HandleReport(f) ==
    LET d == DecodeFrameId(f.id)
        m == FindByAnyNode(d.node_id)
    IN
    /\ d.kind = "report"
    /\ Claimants(d.node_id) # {}
    /\ f.dlc >= 8
    /\ info' = [info EXCEPT ![m].valid = @ \cup {"position_and_speed"}]
    /\ UNCHANGED <<addr, requested, report, ota, ack, management, callVars>>

\* gen_motor_handle_management_report_locked; data[2] is the node ID.
HandleManagementReport(f) ==
    /\ DecodeFrameId(f.id).kind = "management_report"
    /\ f.dlc >= 7
    /\ f.cmd = MANAGEMENT_DISCOVERY
    /\ management' = [management EXCEPT !.discovery =
                        [valid |-> TRUE, node_id |-> f.byte2]]
    /\ UNCHANGED <<motorVars, callVars>>

\* What a management acknowledgement says.
Identifies(f) == Acknowledges(f, {MANAGEMENT_IDENTIFY}) /\ f.dlc >= 8
Configures(f) == Acknowledges(f, {MANAGEMENT_CONFIGURE_ID}) /\ f.dlc >= 7

\* The address of the first motor once a configure_by_uid is acknowledged.
AfterConfigureAck(a, f) ==
    IF Configures(f)
    THEN [node_id |-> f.byte2, configured |-> TRUE,
          requested_node_id |-> f.byte2, pending_node_id_change |-> FALSE]
    ELSE a

AfterManagementReadback(i, f) ==
    [valid |-> i.valid \cup {r \in Readback :
                               \/ r = "uid32" /\ (Identifies(f) \/ Configures(f))
                               \/ r = "node_id" /\ Configures(f)},
     reported_node_id |-> IF Configures(f) THEN f.byte2 ELSE i.reported_node_id]

\* gen_motor_handle_management_ack_locked: whatever motor was addressed by its
\* UID, the first object of the table is the one that is updated.
HandleManagementAck(f) ==
    /\ DecodeFrameId(f.id).kind = "management_ack"
    /\ f.dlc >= 2
    /\ management.pending_valid
    /\ management.pending_cmd = f.cmd
    /\ management' = [management EXCEPT !.pending_valid = FALSE]
    /\ ack' = [ack EXCEPT ![0] = AfterAck(@, f)]
    /\ addr' = [addr EXCEPT ![0] = AfterConfigureAck(@, f)]
    /\ info' = [info EXCEPT ![0] = AfterManagementReadback(@, f)]
    /\ UNCHANGED <<requested, report, ota, callVars>>

HandleCanFrame(f) ==
    \/ HandleAck(f)
    \/ HandleReport(f)
    \/ HandleManagementReport(f)
    \/ HandleManagementAck(f)

-----------------------------------------------------------------------------
\* The steps of a call once it has begun, the answer of the transport aside.
Continue(c) ==
    \/ StoreTarget(c) \/ StoreReportConfig(c) \/ StoreNodeId(c) \/ RefuseNodeId(c)
    \/ RecordSent(c) \/ RecordRefused(c)
    \/ RecordManagementSent(c) \/ RecordManagementRefused(c)
    \/ RollbackTarget(c) \/ RollbackReportConfig(c) \/ RollbackNodeId(c)
    \/ ApplyReset(c) \/ PrepareOta(c) \/ UndoOta(c)

Begin(c) ==
    \/ \E k \in MotorCalls : Prepare(c, k)
    \/ \E k \in ManagementCalls : PrepareManagement(c, k)
    \/ \E m \in Motor : \/ EnterOta(c, m)
                        \/ ExitOtaAndRestore(c, m)
                        \/ ExitOtaWithoutRestoring(c, m)

Next ==
    \/ \E c \in Caller :
         \/ Begin(c)
         \/ Continue(c)
         \/ \E accepted \in BOOLEAN : Send(c, accepted)
    \/ \E f \in RxFrame : HandleCanFrame(f)

Spec == Init /\ [][Next]_vars

-----------------------------------------------------------------------------
(***************************************************************************)
(* What the driver promises.                                               *)
(***************************************************************************)

\* No node ID is claimed by two motor objects, so every acknowledgement and
\* report is attributed to the motor that sent it.  (The management ID is
\* shared by the motors that have been reset.)  gen_motor_set_node_id guards
\* this with gen_motor_node_id_is_reserved_locked; it holds as long as one
\* thread changes node IDs and no motor is configured by UID.
NodeIdsUnique ==
    \A m1, m2 \in Motor :
      m1 # m2 => Claims(m1) \cap Claims(m2) \subseteq {MANAGEMENT_NODE_ID}

WellAddressed(a) ==
    /\ a.configured <=> NodeIdIsValid(a.node_id)
    /\ ~a.configured => a.node_id = MANAGEMENT_NODE_ID
    /\ a.pending_node_id_change => NodeIdIsValid(a.requested_node_id)

\* A motor object counts as configured exactly when its node ID is a business
\* ID, whatever mixture of set_node_id, reset_can_config, their roll-backs and
\* late acknowledgements it has been through; and a pending change always
\* leads to a business ID.
ConfiguredIffBusiness == \A m \in Motor : WellAddressed(addr[m])

AwaitedFromManagement(m) ==
    IF m = 0 /\ management.pending_valid THEN 1 ELSE 0

\* Every counted acknowledgement, and every acknowledgement still awaited, is
\* backed by a frame of its own that the transport accepted: a duplicated,
\* late or unsolicited acknowledgement is never counted.
AcksNeverExceedSends ==
    \A m \in Motor :
      ack[m].ack_count + Cardinality(ack[m].pending) + AwaitedFromManagement(m)
        <= ack[m].tx_count
=============================================================================
