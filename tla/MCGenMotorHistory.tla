-------------------------- MODULE MCGenMotorHistory --------------------------
(***************************************************************************)
(* Small instances of GenMotor with its history variables.                 *)
(***************************************************************************)
EXTENDS GenMotorHistory

CONSTANTS c1, c2, t0, t1

MCDefaultNodeId == [m \in Motor |-> m + 1]
MCDefaultPeriod == [m \in Motor |-> 10]

Period == 10
On == [enabled |-> TRUE, period |-> Period]

AckFrame(node, cmd, status, dlc, byte2, word3) ==
    [id |-> ACK_BASE + node, dlc |-> dlc, cmd |-> cmd, status |-> status,
     byte2 |-> byte2, word3 |-> word3]

NACK == 1

-----------------------------------------------------------------------------
(* One thread sets the speed of a motor, takes it in and out of OTA and       *)
(* configures its reports; another one reads the reporting configuration back *)
(* and uses the management channel.  Every kind of frame arrives.             *)
HistoryOps == [c \in Caller |->
    IF c = c1 THEN {"set_speed_target", "set_ota_state", "set_report_config"}
    ELSE {"request_report_config", "identify_by_uid", "configure_by_uid"}]
Slow == [enabled |-> TRUE, period |-> 20]
Off == [enabled |-> FALSE, period |-> Period]
HistoryConfigArg == {Slow}
OneNodeId == {1}
ConfigAck(cmd, r) ==
    AckFrame(1, cmd, STATUS_OK, 5, IF r.enabled THEN 1 ELSE 0, r.period)

\* A motor may report with a period that set_report_config does not accept.
TooFast == [enabled |-> TRUE, period |-> 1]
TooSlow == [enabled |-> TRUE, period |-> 60001]
ReportConfigAcks ==
    {ConfigAck(SET_REPORT_CONFIG, r) : r \in {On, Off}} \cup
    {ConfigAck(READ_REPORT_CONFIG, r) : r \in {TooFast, TooSlow}} \cup
    {AckFrame(1, SET_REPORT_CONFIG, NACK, 2, 0, 0)}

HistoryRxFrame == ReportConfigAcks \cup
    {AckFrame(126, MANAGEMENT_IDENTIFY, STATUS_OK, 8, 1, 0),
     AckFrame(126, MANAGEMENT_CONFIGURE_ID, STATUS_OK, 7, 1, 0),
     [id |-> REPORT_BASE + 1, dlc |-> 8, cmd |-> 0, status |-> 0, byte2 |-> 0,
      word3 |-> 0],
     [id |-> MANAGEMENT_REPORT_ID, dlc |-> 7, cmd |-> MANAGEMENT_DISCOVERY,
      status |-> 0, byte2 |-> 126, word3 |-> 0]}

\* Reports are configured, and the motor taken in and out of OTA.
OtaOps == [c \in Caller |-> IF c = c1 THEN {"set_ota_state", "set_report_config"}
                            ELSE {"set_current_target", "request_report_config"}]

-----------------------------------------------------------------------------
(* Changing node IDs: one thread changes them on either motor, another one   *)
(* resets motors at the same time.                                           *)
AddressOps == [c \in Caller |-> IF c = c1 THEN {"set_node_id", "reset_can_config"}
                                ELSE {"reset_can_config"}]
AddressNodeIdArg == {1, 2, 3, 126}
AddressRxFrame ==
    {AckFrame(n, SET_NODE_ID, s, 3, n, 0) : n \in 1..3, s \in {STATUS_OK, NACK}}

\* Two threads that change node IDs.
TwoIdCallersOps == [c \in Caller |-> {"set_node_id"}]

NoConfigArg == {}
=============================================================================
