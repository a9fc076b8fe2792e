------------------------- MODULE MCGenMotorProtocol -------------------------
(***************************************************************************)
(* Evaluates the pure definitions of GenMotorProtocol on every standard    *)
(* CAN identifier: each identifier is an initial state.                    *)
(***************************************************************************)
EXTENDS GenMotorProtocol

VARIABLE frame_id

Init == frame_id \in StandardId
Next == UNCHANGED frame_id
Spec == Init /\ [][Next]_frame_id

\* The two filters installed at start-up (mask 0x780) let through exactly the
\* identifiers the receive handler can decode: nothing the driver understands
\* is filtered out, and nothing is delivered for the handler to discard.
FiltersAdmitTheProtocol ==
    PassesFilters(frame_id) <=> DecodeFrameId(frame_id).kind # "unknown"

\* An acknowledgement or report from a node the driver may address is decoded
\* as coming from that node, and the management identifiers, which share the
\* ranges, are never taken for a business node's.
DecodingIdentifiesTheSender ==
    LET d == DecodeFrameId(frame_id) IN
    /\ \A n \in MIN_BUSINESS_NODE_ID..MAX_NODE_ID : NodeIdIsValid(n) =>
         /\ frame_id = ACK_BASE + n => d = [kind |-> "ack", node_id |-> n]
         /\ frame_id = REPORT_BASE + n => d = [kind |-> "report", node_id |-> n]
    /\ d.node_id = MANAGEMENT_NODE_ID
         => d.kind \in {"management_ack", "management_report"}

\* The host never receives a command frame as if a motor had answered: a
\* command identifier, whatever node it addresses, passes neither filter.
CommandsAreNotAnswers ==
    \A n \in 0..MAX_NODE_ID : frame_id = HostCmdId(n) => ~PassesFilters(frame_id)

=============================================================================
