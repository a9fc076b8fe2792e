-------------------------- MODULE GenMotorProtocol --------------------------
(***************************************************************************)
(* The wire format shared by the gen-motor driver and the motors: node     *)
(* identifiers, command codes, the CAN identifier ranges and the two       *)
(* hardware filters the driver installs (gen_motor.c, lines 22-137).       *)
(* Everything here is a constant or a pure operator.  The numbers are the  *)
(* decimal values of the #defines and of the enum.                         *)
(***************************************************************************)
EXTENDS Integers

Byte == 0..255
Word == 0..65535                      \* uint16_t
StandardId == 0..2047                 \* an 11-bit CAN identifier

(***************************************************************************)
(* Node identifiers.                                                       *)
(***************************************************************************)
MIN_BUSINESS_NODE_ID == 1
MAX_NODE_ID == 127
MANAGEMENT_NODE_ID == 126             \* 0x7E, shared by unconfigured motors

\* gen_motor_node_id_is_valid
NodeIdIsValid(n) ==
    /\ n >= MIN_BUSINESS_NODE_ID
    /\ n <= MAX_NODE_ID
    /\ n # MANAGEMENT_NODE_ID

(***************************************************************************)
(* Command codes and acknowledgement status.                               *)
(***************************************************************************)
SET_RUN_MODE == 1
SET_CURRENT_TARGET == 2
SET_SPEED_TARGET == 3
SET_POSITION_TARGET == 4
SET_SPEED_PID == 16
READ_SPEED_PID == 17
SET_POSITION_PID == 18
READ_POSITION_PID == 19
SET_NODE_ID == 32
READ_NODE_ID == 33
READ_APP_VERSION == 34
SET_REPORT_CONFIG == 35
READ_REPORT_CONFIG == 36
RESET_CAN_CONFIG == 37
SET_FOC_CONFIG == 38
READ_FOC_CONFIG == 39
ZERO_CALIBRATION == 48
READ_ZERO == 49
MANAGEMENT_DISCOVERY == 96
MANAGEMENT_IDENTIFY == 97
MANAGEMENT_CONFIGURE_ID == 98

STATUS_OK == 0

\* The pending-acknowledgement bitmap of a motor is a uint64_t: one bit per
\* command code below 64.
PendingCmd == 0..63

\* gen_motor_ack_cmd_can_be_pending
AckCmdCanBePending(cmd) == cmd \in PendingCmd

(***************************************************************************)
(* Active report period.                                                   *)
(***************************************************************************)
REPORT_PERIOD_MIN_MS == 2
REPORT_PERIOD_MAX_MS == 60000

\* gen_motor_report_period_is_valid
ReportPeriodIsValid(p) == p \in REPORT_PERIOD_MIN_MS..REPORT_PERIOD_MAX_MS

(***************************************************************************)
(* CAN identifiers.                                                        *)
(***************************************************************************)
HOST_CMD_BASE == 256                  \* 0x100
ACK_BASE == 384                       \* 0x180
REPORT_BASE == 512                    \* 0x200
MANAGEMENT_CMD_ID == 382              \* 0x17E
MANAGEMENT_ACK_ID == 510              \* 0x1FE
MANAGEMENT_REPORT_ID == 638           \* 0x27E

\* gen_motor_host_cmd_id
HostCmdId(n) == HOST_CMD_BASE + n

FrameKind == {"management_ack", "management_report", "ack", "report", "unknown"}

\* Mutant of DecodeFrameId: the management identifiers are not tested first.
DecodeRangesOnly(id) ==
    CASE id \in ACK_BASE..(ACK_BASE + MAX_NODE_ID) ->
           [kind |-> "ack", node_id |-> id - ACK_BASE]
      [] id \in REPORT_BASE..(REPORT_BASE + MAX_NODE_ID) ->
           [kind |-> "report", node_id |-> id - REPORT_BASE]
      [] OTHER -> [kind |-> "unknown", node_id |-> 0]

\* gen_motor_decode_frame_id: the management identifiers are tested first,
\* because they lie inside the two business ranges.
DecodeFrameId(id) ==
    CASE id = MANAGEMENT_ACK_ID ->
           [kind |-> "management_ack", node_id |-> MANAGEMENT_NODE_ID]
      [] id = MANAGEMENT_REPORT_ID ->
           [kind |-> "management_report", node_id |-> MANAGEMENT_NODE_ID]
      [] id \notin {MANAGEMENT_ACK_ID, MANAGEMENT_REPORT_ID}
         /\ id \in ACK_BASE..(ACK_BASE + MAX_NODE_ID) ->
           [kind |-> "ack", node_id |-> id - ACK_BASE]
      [] id \notin {MANAGEMENT_ACK_ID, MANAGEMENT_REPORT_ID}
         /\ id \in REPORT_BASE..(REPORT_BASE + MAX_NODE_ID) ->
           [kind |-> "report", node_id |-> id - REPORT_BASE]
      [] OTHER -> [kind |-> "unknown", node_id |-> 0]

\* Mutant of MatchesGroup: mask 0x700 in place of 0x780.
MatchesWiderGroup(id, base) == id \div 256 = base \div 256

\* A hardware filter accepts id when (id & mask) = base.  With the group mask
\* 0x780 the upper four of the eleven identifier bits are compared.
MatchesGroup(id, base) == id \div 128 = base \div 128

\* gen_motor_register_filters: one filter per group of identifiers.
PassesFilters(id) == MatchesGroup(id, ACK_BASE) \/ MatchesGroup(id, REPORT_BASE)
=============================================================================
