---------------------------- MODULE GenMotorSystem --------------------------
(***************************************************************************)
(* The gen-motor driver, the CAN transport and the motors themselves.      *)
(*                                                                         *)
(* The driver is GenMotor, step for step.  The transport is what           *)
(* CanProtocol is shown to implement, a bounded first-in first-out channel *)
(* that may lose frames at its far end.  The motors are external: a motor  *)
(* executes the commands sent to the node ID it has, and answers each of   *)
(* them; it accepts a new node ID or refuses it, and its acknowledgement   *)
(* comes from the old ID or from the new one: the driver is written for    *)
(* either.  Answers of one motor arrive in order, those of two motors in   *)
(* any order; any of them may be lost.                                     *)
(*                                                                         *)
(* A command knows the object it was issued for, which no frame on the bus *)
(* says: the properties compare it with the motor that gets it.            *)
(***************************************************************************)
EXTENDS GenMotor, Sequences

CONSTANTS
    WireLen,        \* bound: accepted commands that have not left yet
    BackLen         \* bound: answers of a motor on their way

ASSUME SystemAssumption == WireLen \in Nat \ {0} /\ BackLen \in Nat \ {0}

VARIABLES
    motorId,        \* the node ID each motor has
    wire,           \* commands the transport has accepted, in order
    back,           \* answers of each motor on their way to the driver
    disturbed       \* history: motors with a loss, or an answer not awaited

linkVars == <<motorId, wire, back, disturbed>>
systemVars == <<vars, linkVars>>

SystemInit ==
    /\ Init
    /\ motorId = DefaultNodeId
    /\ wire = <<>>
    /\ back = [m \in Motor |-> <<>>]
    /\ disturbed = {}

CommandOf(k) ==
    [motor |-> k.motor, node_id |-> k.node_id, cmd |-> Command(k.op),
     new_node_id |-> k.new_node_id]

-----------------------------------------------------------------------------
(***************************************************************************)
(* The application.  While a change of the node ID of a motor is on its    *)
(* way it starts no other one; when nothing of it is on its way any more   *)
(* it may ask for the same ID again.                                       *)
(***************************************************************************)
NodeIdInTransit(m) ==
    \/ \E n \in 1..Len(wire) : wire[n].motor = m /\ wire[n].cmd = SET_NODE_ID
    \/ \E n \in 1..Len(back[m]) : back[m][n].cmd = SET_NODE_ID

MayChange(m, n) ==
    /\ ~NodeIdInTransit(m)
    /\ addr[m].pending_node_id_change => n = addr[m].requested_node_id

BeginCall(c) ==
    /\ \E k \in MotorCalls :
         /\ Prepare(c, k)
         /\ k.op = "set_node_id" => MayChange(k.motor, k.new_node_id)
    /\ UNCHANGED linkVars

\* The driver goes on with a call.
Proceed(c) == Continue(c) /\ UNCHANGED linkVars

\* can_protocol_send_data returns: the command is in the transmit queue, or it
\* was refused.
SendCommand(c) ==
    /\ Len(wire) < WireLen
    /\ Send(c, TRUE)
    /\ wire' = Append(wire, CommandOf(call[c]))
    /\ UNCHANGED <<motorId, back, disturbed>>

SendIsRefused(c) == Send(c, FALSE) /\ UNCHANGED linkVars

-----------------------------------------------------------------------------
(***************************************************************************)
(* The bus and the motors.                                                 *)
(***************************************************************************)
Answer(node, cmd, status) ==
    [id |-> ACK_BASE + node, dlc |-> 8, cmd |-> cmd, status |-> status,
     byte2 |-> 0, word3 |-> 0]

NACK == 1

\* The node IDs a motor may get, and what it may answer from them: frames the
\* driver of GenMotor has to be ready for.
MotorId ==
    {DefaultNodeId[m] : m \in Motor} \cup {n \in NodeIdArg : NodeIdIsValid(n)}

MotorAnswer == {Answer(n, cmd, status) :
                  n \in MotorId, cmd \in PendingCmd, status \in {STATUS_OK, NACK}}

ASSUME AnswerAssumption == MotorAnswer \subseteq RxFrame

\* The motors a command is for, by its destination.
Addressees(k) == {m \in Motor : motorId[m] = k.node_id}

\* What motor m may make of a command: its node ID afterwards, and its answer.
Outcomes(m, k) ==
    IF k.cmd = SET_NODE_ID
    THEN {[id |-> k.new_node_id, answer |-> Answer(n, k.cmd, STATUS_OK)] :
            n \in {motorId[m], k.new_node_id}}
         \cup {[id |-> motorId[m], answer |-> Answer(motorId[m], k.cmd, NACK)]}
    ELSE {[id |-> motorId[m], answer |-> Answer(motorId[m], k.cmd, STATUS_OK)]}

\* The first command of the queue reaches motor m, which executes and answers
\* it.
Execute(m) ==
    /\ wire # <<>>
    /\ m \in Addressees(Head(wire))
    /\ Len(back[m]) < BackLen
    /\ \E o \in Outcomes(m, Head(wire)) :
         /\ motorId' = [motorId EXCEPT ![m] = o.id]
         /\ back' = [back EXCEPT ![m] = Append(@, o.answer)]
    /\ wire' = Tail(wire)
    /\ UNCHANGED <<vars, disturbed>>

\* The controller gives the first command up, or nobody has its node ID.
LoseCommand ==
    /\ wire # <<>>
    /\ wire' = Tail(wire)
    /\ disturbed' = disturbed \cup {Head(wire).motor}
    /\ UNCHANGED <<vars, motorId, back>>

\* An answer is lost: its receive queue is full, for instance.
LoseAnswer(m) ==
    /\ back[m] # <<>>
    /\ back' = [back EXCEPT ![m] = Tail(@)]
    /\ disturbed' = disturbed \cup {m}
    /\ UNCHANGED <<vars, motorId, wire>>

\* gen_motor_handle_ack_locked finds an object that awaits the answer.
IsAwaited(f) ==
    LET n == DecodeFrameId(f.id).node_id IN
    Claimants(n) # {} /\ f.cmd \in ack[FindByAnyNode(n)].pending

\* An answer reaches the driver,
Deliver(m) ==
    /\ back[m] # <<>>
    /\ HandleCanFrame(Head(back[m]))
    /\ back' = [back EXCEPT ![m] = Tail(@)]
    /\ UNCHANGED <<motorId, wire, disturbed>>

\* which ignores it when it does not await it: before the sending thread has
\* marked the command as pending, for instance.
Ignore(m) ==
    /\ back[m] # <<>>
    /\ ~IsAwaited(Head(back[m]))
    /\ back' = [back EXCEPT ![m] = Tail(@)]
    /\ disturbed' = disturbed \cup {m}
    /\ UNCHANGED <<vars, motorId, wire>>

SystemNext ==
    \/ \E c \in Caller : BeginCall(c) \/ Proceed(c) \/ SendCommand(c) \/ SendIsRefused(c)
    \/ \E m \in Motor : Execute(m) \/ LoseAnswer(m) \/ Deliver(m) \/ Ignore(m)
    \/ LoseCommand

SystemSpec == SystemInit /\ [][SystemNext]_systemVars

-----------------------------------------------------------------------------
(***************************************************************************)
(* Properties.                                                             *)
(***************************************************************************)

\* The node ID a motor has is one its own object answers to, in every state of
\* a change, whatever has been lost: its reports and acknowledgements are
\* attributed to it even when the driver does not know yet, or will never
\* know, that it has changed its ID.
MotorsAreClaimed == \A m \in Motor : motorId[m] \in Claims(m)

Quiet(m) ==
    /\ \A c \in Caller : pc[c] = "idle" \/ call[c].motor # m
    /\ back[m] = <<>>
    /\ \A n \in 1..Len(wire) : wire[n].motor # m

\* Once every command of a motor has been answered, and each answer awaited
\* when it came, its object has the node ID the motor has, and no change is
\* pending: acknowledged, refused and unsent changes all come out right.
ObjectsAgreeWhenQuiet ==
    \A m \in Motor :
      (Quiet(m) /\ m \notin disturbed)
        => /\ addr[m].node_id = motorId[m]
           /\ ~addr[m].pending_node_id_change

\* A motor executes only commands issued for its own object (gen_motor.h: each
\* call is about the motor object it is given), although the node ID was read
\* when the call began and other node IDs may have changed since.  It holds
\* when one thread uses the motors.
CommandsReachTheirMotor ==
    [][\A m \in Motor : Execute(m) => Head(wire).motor = m]_systemVars

\* An answer of a motor changes nothing of the object of another motor, however
\* late it comes and whatever node IDs have changed hands by then.
AnswersAreAttributed ==
    [][\A m, k \in Motor :
         (Deliver(m) /\ k # m) =>
            UNCHANGED <<addr[k], report[k], info[k], ack[k]>>]_systemVars
=============================================================================
