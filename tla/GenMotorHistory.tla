--------------------------- MODULE GenMotorHistory --------------------------
(***************************************************************************)
(* GenMotor with history variables: what the transport has accepted, and   *)
(* the reporting configuration a motor had when it entered OTA.  They      *)
(* relate the state the driver caches to what its calls did, which the     *)
(* driver itself does not record; they restrict no step of GenMotor.       *)
(***************************************************************************)
EXTENDS GenMotor

VARIABLES
    sent,        \* the last target accepted for each motor and operation
    owed         \* the reporting configuration of each motor before OTA

historyVars == <<vars, sent, owed>>

Owed == [due : BOOLEAN, known : BOOLEAN, config : Config]
NotOwed == [due |-> FALSE, known |-> FALSE, config |-> NoConfig]

HistoryInit ==
    /\ Init
    /\ sent = [m \in Motor |-> [op \in TargetOp |-> InitialTarget]]
    /\ owed = [m \in Motor |-> NotOwed]

-----------------------------------------------------------------------------
\* A send, with the target it carries if the transport takes it.
SendAndRemember(c, accepted) ==
    LET k == call[c] IN
    /\ Send(c, accepted)
    /\ IF accepted /\ k.op \in TargetOp
       THEN sent' = [sent EXCEPT ![k.motor][k.op] = k.target]
       ELSE UNCHANGED sent
    /\ UNCHANGED owed

\* Entering OTA owes the configuration of that moment; failing to enter, a new
\* configuration and a different read-back cancel the debt.
OwedAfterStep(m) ==
    CASE \E c \in Caller : EnterOta(c, m) ->
           [due |-> TRUE, known |-> "report_config" \in info[m].valid,
            config |-> report[m]]
      [] \/ \E c \in Caller :
              /\ call[c].motor = m
              /\ \/ UndoOta(c) /\ call[c].active
                 \/ StoreReportConfig(c) /\ call[c].op = "set_report_config"
         \/ \E f \in RxFrame : HandleAck(f) /\ report'[m] # report[m] ->
           NotOwed
      [] OTHER -> owed[m]

Remember ==
    /\ owed' = [m \in Motor |-> OwedAfterStep(m)]
    /\ UNCHANGED sent

\* The other steps of a call,
CallStep(c) ==
    \/ \E k \in MotorCalls : Prepare(c, k) /\ Remember
    \/ \E k \in ManagementCalls : PrepareManagement(c, k) /\ Remember
    \/ \E m \in Motor : EnterOta(c, m) /\ Remember
    \/ \E m \in Motor : ExitOtaAndRestore(c, m) /\ Remember
    \/ \E m \in Motor : ExitOtaWithoutRestoring(c, m) /\ Remember
    \/ StoreTarget(c) /\ Remember
    \/ StoreReportConfig(c) /\ Remember
    \/ (StoreNodeId(c) \/ RefuseNodeId(c)) /\ Remember
    \/ (RecordSent(c) \/ RecordRefused(c)) /\ Remember
    \/ RecordManagementSent(c) /\ Remember
    \/ RecordManagementRefused(c) /\ Remember
    \/ RollbackTarget(c) /\ Remember
    \/ RollbackReportConfig(c) /\ Remember
    \/ RollbackNodeId(c) /\ Remember
    \/ ApplyReset(c) /\ Remember
    \/ PrepareOta(c) /\ Remember
    \/ UndoOta(c) /\ Remember

\* and the frames received.
ReceiveStep(f) ==
    \/ HandleAck(f) /\ Remember
    \/ HandleReport(f) /\ Remember
    \/ HandleManagementReport(f) /\ Remember
    \/ HandleManagementAck(f) /\ Remember

HistoryNext ==
    \/ \E c \in Caller : \E accepted \in BOOLEAN : SendAndRemember(c, accepted)
    \/ \E c \in Caller : CallStep(c)
    \/ \E f \in RxFrame : ReceiveStep(f)

HistorySpec == HistoryInit /\ [][HistoryNext]_historyVars

-----------------------------------------------------------------------------
\* A call of one of these operations on motor m has begun and not returned.
InFlight(m, ops) ==
    \E c \in Caller : pc[c] # "idle" /\ call[c].motor = m /\ call[c].op \in ops

\* Whenever no setter of a target is under way, the cached target is the last
\* one the transport accepted: a send that failed leaves no trace, and one
\* that succeeded is never lost.  It holds when each target of a motor is set
\* by one thread; other threads may use the motor in every other way.
CacheMatchesTheWire ==
    \A m \in Motor, op \in TargetOp :
      ~InFlight(m, {op}) => requested[m][op] = sent[m][op]

\* The configuration owed to motor m has been given back to it.  A period
\* below the least the driver sends is given back as that.
Settled(m) ==
    (~ota[m].active /\ owed[m].due
       /\ ~InFlight(m, {"set_ota_state", "set_report_config"}))
      => report[m] = [owed[m].config EXCEPT !.period = ClampPeriod(@)]

\* Leaving OTA restores the reporting configuration the motor had on entry, if
\* it had been read back by then, whatever sends failed on the way in or out.
OtaRestoresKnownReporting == \A m \in Motor : owed[m].known => Settled(m)

\* Leaving OTA restores the reporting configuration the motor had on entry
\* (the @note of gen_motor_set_ota_state, gen_motor.h:379).
OtaRestoresReporting == \A m \in Motor : Settled(m)
=============================================================================
