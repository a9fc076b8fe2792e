------------------------ MODULE GenMotorHistoryProofs -----------------------
(***************************************************************************)
(* The targets the driver caches are the ones the transport has accepted,  *)
(* as long as one thread sets each target; and leaving OTA gives a motor   *)
(* back the reporting configuration it had on entry, if that was known, as *)
(* long as one thread configures reports and OTA.  Both for any number of  *)
(* motors and threads, any frames and any refused sends.                   *)
(***************************************************************************)
EXTENDS GenMotorHistory, GenMotorProofs

-----------------------------------------------------------------------------
(***************************************************************************)
(* The targets.                                                            *)
(***************************************************************************)

\* The hypothesis of the theorem.
OneSetterPerTarget ==
    \A op \in TargetOp : \A c, d \in Caller : op \in Ops[c] /\ op \in Ops[d] => c = d

-----------------------------------------------------------------------------
(* The invariant.                                                            *)
(*                                                                           *)
(* Between its store and its return a setter may have left a target in the   *)
(* cache that has not been sent; then it still knows the last one that was,  *)
(* in the value it saved.  No other thread may come in between.              *)

\* Thread c is in a call of a setter whose store has been made.
HasStored(c) == call[c].op \in TargetOp /\ pc[c] \in {"send", "record", "rollback"}

\* The same, for the target op of motor m.
IsSetting(c, m, op) == HasStored(c) /\ call[c].motor = m /\ call[c].op = op

\* The last target accepted of those that call k sets, and the one in the cache.
SentBy(k) == sent[k.motor][k.op]
CachedFor(k) == requested[k.motor][k.op]

SettersPermitted == \A c \in Caller : call[c].op \in TargetOp => call[c].op \in Ops[c]

SettersKnowWhatWasSent ==
    \A c \in Caller : HasStored(c) =>
      /\ pc[c] = "send" => /\ CachedFor(call[c]) = call[c].target
                           /\ saved[c].target = SentBy(call[c])
      /\ pc[c] = "record" => IF call[c].accepted
                             THEN CachedFor(call[c]) = SentBy(call[c])
                             ELSE saved[c].target = SentBy(call[c])
      /\ pc[c] = "rollback" => saved[c].target = SentBy(call[c])

OthersAreSent ==
    \A m \in Motor, op \in TargetOp :
      (\A c \in Caller : ~IsSetting(c, m, op)) => requested[m][op] = sent[m][op]

CacheInv ==
    /\ TypeOK
    /\ sent \in [Motor -> [TargetOp -> Target]]
    /\ SettersPermitted
    /\ SettersKnowWhatWasSent
    /\ OthersAreSent

-----------------------------------------------------------------------------
(* Lemmas. *)

\* The steps that send nothing are those of GenMotor, and leave what was sent.
LEMMA CallStepIsACall ==
    ASSUME NEW c \in Caller, CallStep(c)
    PROVE  (Begin(c) \/ Continue(c)) /\ sent' = sent /\ Remember
BY DEF CallStep, Begin, Continue, Remember

LEMMA ReceiveStepIsAFrame ==
    ASSUME NEW f \in RxFrame, ReceiveStep(f)
    PROVE  HandleCanFrame(f) /\ sent' = sent /\ Remember
BY DEF ReceiveStep, HandleCanFrame, Remember

\* A step of GenMotorHistory is a step of GenMotor.
LEMMA HistoryStepIsAStep == [HistoryNext]_historyVars => [Next]_vars
BY CallStepIsACall, ReceiveStepIsAFrame DEF HistoryNext, historyVars, SendAndRemember, Next

\* The histories only watch: the driver that remembers what it has sent and
\* what reports it owes is the driver of gen_motor.c, so the theorems about
\* GenMotor hold in the runs, which are runs with histories.
THEOREM HistoriesOnlyWatch == HistorySpec => Spec
<1>1. HistoryInit => Init
  BY DEF HistoryInit
<1>2. [HistoryNext]_historyVars => [Next]_vars
  BY HistoryStepIsAStep
<1>3. QED BY <1>1, <1>2, PTL DEF HistorySpec, Spec

\* The calls of the target setters are the target calls.
LEMMA TargetCallsOnly ==
    /\ \A k \in ManagementCalls : k.op \notin TargetOp
    /\ \A m \in Motor : CallOf("set_ota_state", m).op \notin TargetOp
<1>1. \A m \in Motor : CallOf("set_ota_state", m).op = "set_ota_state"
  BY CallOfType DEF Op
<1>2. QED BY <1>1, ManagementCallOps DEF ManagementOp, TargetOp

\* A step of a thread that is not between store and return of a setter, before
\* or after it, and that leaves the targets alone.
LEMMA BystanderStep ==
    ASSUME CacheInv, NEW c \in Caller,
           requested' = requested, sent' = sent,
           \A d \in Caller \ {c} :
             pc'[d] = pc[d] /\ call'[d] = call[d] /\ saved'[d] = saved[d],
           ~HasStored(c), ~HasStored(c)',
           call'[c].op \in TargetOp => call'[c].op \in Ops[c]
    PROVE  SettersPermitted' /\ SettersKnowWhatWasSent' /\ OthersAreSent'
<1>1. SettersPermitted'
  BY DEF CacheInv, SettersPermitted
<1>2. \A d \in Caller \ {c} :
        /\ HasStored(d)' = HasStored(d)
        /\ SentBy(call[d])' = SentBy(call[d])
        /\ CachedFor(call[d])' = CachedFor(call[d])
  BY DEF HasStored, SentBy, CachedFor
<1>3. SettersKnowWhatWasSent'
  BY <1>2 DEF CacheInv, SettersKnowWhatWasSent
<1>4. ASSUME NEW m \in Motor, NEW op \in TargetOp,
             \A d \in Caller : ~IsSetting(d, m, op)'
      PROVE  requested'[m][op] = sent'[m][op]
  <2>1. \A d \in Caller : ~IsSetting(d, m, op)
    BY <1>2, <1>4 DEF IsSetting
  <2>2. QED BY <2>1 DEF CacheInv, OthersAreSent
<1>5. OthersAreSent'
  BY <1>4 DEF OthersAreSent
<1>6. QED BY <1>1, <1>3, <1>5

\* A step of thread c, which sets target op of motor m, that may change what
\* is cached and what is sent of that target, and nothing else of the targets.
LEMMA SetterStep ==
    ASSUME CacheInv, OneSetterPerTarget, NEW c \in Caller,
           NEW m \in Motor, NEW op \in TargetOp,
           call[c].motor = m, call[c].op = op,
           \A n \in Motor, o \in TargetOp :
             <<n, o>> # <<m, op>> => /\ requested'[n][o] = requested[n][o]
                                    /\ sent'[n][o] = sent[n][o],
           \A d \in Caller \ {c} :
             pc'[d] = pc[d] /\ call'[d] = call[d] /\ saved'[d] = saved[d],
           call'[c].op \in TargetOp => call'[c].op = op /\ call'[c].motor = m,
           HasStored(c)' =>
             /\ pc'[c] = "send" => /\ CachedFor(call[c])' = call'[c].target
                                   /\ saved'[c].target = SentBy(call[c])'
             /\ pc'[c] = "record" => IF call'[c].accepted
                                     THEN CachedFor(call[c])' = SentBy(call[c])'
                                     ELSE saved'[c].target = SentBy(call[c])'
             /\ pc'[c] = "rollback" => saved'[c].target = SentBy(call[c])',
           ~HasStored(c)' => requested'[m][op] = sent'[m][op]
    PROVE  SettersPermitted' /\ SettersKnowWhatWasSent' /\ OthersAreSent'
<1>1. SettersPermitted'
  BY DEF CacheInv, SettersPermitted
<1>2. \A d \in Caller \ {c} :
        /\ HasStored(d)' = HasStored(d)
        /\ HasStored(d) => call[d].op # op
  <2>1. \A d \in Caller \ {c} : HasStored(d)' = HasStored(d)
    BY DEF HasStored
  <2>2. ASSUME NEW d \in Caller \ {c}, HasStored(d)
        PROVE  call[d].op # op
    BY <2>2 DEF CacheInv, SettersPermitted, OneSetterPerTarget, HasStored
  <2>3. QED BY <2>1, <2>2
<1>3. ASSUME NEW d \in Caller \ {c}, HasStored(d)
      PROVE  /\ SentBy(call[d])' = SentBy(call[d])
             /\ CachedFor(call[d])' = CachedFor(call[d])
  <2>1. call[d].motor \in Motor /\ call[d].op \in TargetOp /\ call[d].op # op
    BY <1>2, <1>3 DEF CacheInv, TypeOK, Call, HasStored
  <2>2. call'[d] = call[d]
    OBVIOUS
  <2>3. QED BY <2>1, <2>2 DEF SentBy, CachedFor
<1>4. SettersKnowWhatWasSent'
  <2>1. SUFFICES ASSUME NEW d \in Caller, HasStored(d)'
                 PROVE
          /\ pc'[d] = "send" => /\ CachedFor(call[d])' = call'[d].target
                                /\ saved'[d].target = SentBy(call[d])'
          /\ pc'[d] = "record" => IF call'[d].accepted
                                  THEN CachedFor(call[d])' = SentBy(call[d])'
                                  ELSE saved'[d].target = SentBy(call[d])'
          /\ pc'[d] = "rollback" => saved'[d].target = SentBy(call[d])'
    BY DEF SettersKnowWhatWasSent
  <2>2. CASE d = c
    BY <2>1, <2>2
  <2>3. CASE d # c
    <3>1. HasStored(d)
      BY <1>2, <2>1, <2>3
    <3>2. QED BY <1>3, <2>3, <3>1 DEF CacheInv, SettersKnowWhatWasSent
  <2>4. QED BY <2>2, <2>3
<1>5. ASSUME NEW n \in Motor, NEW o \in TargetOp,
             \A d \in Caller : ~IsSetting(d, n, o)'
      PROVE  requested'[n][o] = sent'[n][o]
  <2>1. CASE n = m /\ o = op
    <3>1. ~HasStored(c)'
      BY <1>5, <2>1 DEF IsSetting, HasStored
    <3>2. QED BY <2>1, <3>1
  <2>2. CASE <<n, o>> # <<m, op>>
    <3>1. \A d \in Caller : ~IsSetting(d, n, o)
      BY <1>2, <1>5, <2>2 DEF IsSetting
    <3>2. requested[n][o] = sent[n][o]
      BY <3>1 DEF CacheInv, OthersAreSent
    <3>3. QED BY <2>2, <3>2
  <2>3. QED BY <2>1, <2>2
<1>6. OthersAreSent'
  BY <1>5 DEF OthersAreSent
<1>7. QED BY <1>1, <1>4, <1>6

\* The types of the history variable.
LEMMA SentType ==
    ASSUME CacheInv, NEW c \in Caller, NEW accepted \in BOOLEAN,
           SendAndRemember(c, accepted)
    PROVE  sent' \in [Motor -> [TargetOp -> Target]]
<1>1. call[c].motor \in Motor /\ call[c].target \in Target
  BY DEF CacheInv, TypeOK, Call
<1>2. QED BY <1>1 DEF SendAndRemember, CacheInv

-----------------------------------------------------------------------------
(* The steps. *)

LEMMA InitCacheInv == HistoryInit => CacheInv
<1>1. SUFFICES ASSUME HistoryInit PROVE CacheInv
  OBVIOUS
<1>2. TypeOK
  BY <1>1, InitTypeOK DEF HistoryInit
<1>3. sent \in [Motor -> [TargetOp -> Target]]
  BY <1>1, CallerAssumption DEF HistoryInit
<1>4. \A c \in Caller : call[c].op = "none"
  BY <1>1 DEF HistoryInit, Init, NoCall
<1>5. SettersPermitted /\ SettersKnowWhatWasSent
  BY <1>4 DEF SettersPermitted, SettersKnowWhatWasSent, HasStored, TargetOp
<1>6. OthersAreSent
  BY <1>1 DEF HistoryInit, Init, OthersAreSent
<1>7. QED BY <1>2, <1>3, <1>5, <1>6 DEF CacheInv

\* Beginning a call stores nothing yet.
LEMMA BeginCacheInv ==
    ASSUME CacheInv, NEW c \in Caller, Begin(c), sent' = sent
    PROVE  SettersPermitted' /\ SettersKnowWhatWasSent' /\ OthersAreSent'
<1>1. pc[c] = "idle" /\ requested' = requested /\ saved' = saved
  <2>1. ASSUME NEW k, Prepare(c, k) \/ PrepareManagement(c, k)
        PROVE  pc[c] = "idle" /\ requested' = requested /\ saved' = saved
    BY <2>1 DEF Prepare, PrepareManagement, motorVars, MayCall
  <2>2. ASSUME NEW m, EnterOta(c, m) \/ ExitOtaAndRestore(c, m)
                        \/ ExitOtaWithoutRestoring(c, m)
        PROVE  pc[c] = "idle" /\ requested' = requested /\ saved' = saved
    BY <2>2 DEF EnterOta, ExitOtaAndRestore, ExitOtaWithoutRestoring, callVars, MayCall
  <2>3. QED BY <2>1, <2>2, Zenon DEF Begin
<1>2. \A d \in Caller \ {c} : pc'[d] = pc[d] /\ call'[d] = call[d]
  <2>1. ASSUME NEW k, Prepare(c, k) \/ PrepareManagement(c, k)
        PROVE  \A d \in Caller \ {c} : pc'[d] = pc[d] /\ call'[d] = call[d]
    BY <2>1 DEF Prepare, PrepareManagement, Goto, CacheInv, TypeOK
  <2>2. ASSUME NEW m, EnterOta(c, m) \/ ExitOtaAndRestore(c, m)
        PROVE  \A d \in Caller \ {c} : pc'[d] = pc[d] /\ call'[d] = call[d]
    BY <2>2 DEF EnterOta, ExitOtaAndRestore, CallSetReportConfig, Goto, CacheInv, TypeOK
  <2>3. ASSUME NEW m, ExitOtaWithoutRestoring(c, m)
        PROVE  \A d \in Caller \ {c} : pc'[d] = pc[d] /\ call'[d] = call[d]
    BY <2>3 DEF ExitOtaWithoutRestoring, callVars
  <2>4. QED BY <2>1, <2>2, <2>3, Zenon DEF Begin
<1>3. ~HasStored(c)' /\ (call'[c].op \in TargetOp => call'[c].op \in Ops[c])
  <2>1. CASE \E k \in MotorCalls : Prepare(c, k)
    <3>1. PICK k \in MotorCalls : Prepare(c, k)
      BY <2>1
    <3>2. DEFINE kk == [k EXCEPT !.node_id = addr[k.motor].node_id]
    <3>3. k \in Call /\ k.op \in Ops[c]
      BY <3>1, CallsType DEF Prepare, MayCall
    <3>4. kk.op = k.op
      BY <3>3 DEF Call
    <3>5. call' = [call EXCEPT ![c] = kk]
      BY <3>1 DEF Prepare
    <3>6. HIDE DEF kk
    <3>7. call'[c].op = k.op
      BY <3>4, <3>5 DEF CacheInv, TypeOK
    <3>8. k.op \in TargetOp => pc'[c] = "store"
      BY <3>1 DEF Prepare, Goto, IsStoring, CacheInv, TypeOK
    <3>9. QED BY <3>3, <3>7, <3>8 DEF HasStored
  <2>2. CASE \E k \in ManagementCalls : PrepareManagement(c, k)
    <3>1. PICK k \in ManagementCalls : PrepareManagement(c, k)
      BY <2>2
    <3>2. DEFINE kk == [k EXCEPT !.node_id = MANAGEMENT_NODE_ID]
    <3>3. k \in Call /\ k.op \notin TargetOp
      BY CallsType, TargetCallsOnly
    <3>4. kk.op = k.op
      BY <3>3 DEF Call
    <3>5. call' = [call EXCEPT ![c] = kk]
      BY <3>1 DEF PrepareManagement
    <3>6. HIDE DEF kk
    <3>7. call'[c].op = k.op
      BY <3>4, <3>5 DEF CacheInv, TypeOK
    <3>8. QED BY <3>3, <3>7 DEF HasStored
  <2>3. ASSUME NEW m \in Motor, EnterOta(c, m)
        PROVE  call'[c].op = "set_ota_state"
    <3>1. DEFINE k == [CallOf("set_ota_state", m) EXCEPT
                         !.active = TRUE,
                         !.config = [enabled |-> FALSE,
                                     period |-> ClampPeriod(report[m].period)]]
    <3>2. k.op = "set_ota_state"
      BY CallOfType DEF Op, Call
    <3>3. call' = [call EXCEPT ![c] = k]
      BY <2>3 DEF EnterOta, CallSetReportConfig
    <3>4. HIDE DEF k
    <3>5. QED BY <3>2, <3>3 DEF CacheInv, TypeOK
  <2>4. ASSUME NEW m \in Motor, ExitOtaAndRestore(c, m)
        PROVE  call'[c].op = "set_ota_state"
    <3>1. DEFINE k == [CallOf("set_ota_state", m) EXCEPT
                         !.config = [ota[m].before EXCEPT !.period = ClampPeriod(@)]]
    <3>2. k.op = "set_ota_state"
      BY CallOfType DEF Op, Call
    <3>3. call' = [call EXCEPT ![c] = k]
      BY <2>4 DEF ExitOtaAndRestore, CallSetReportConfig
    <3>4. HIDE DEF k
    <3>5. QED BY <3>2, <3>3 DEF CacheInv, TypeOK
  <2>5. ASSUME NEW m \in Motor, ExitOtaWithoutRestoring(c, m)
        PROVE  pc'[c] = "idle" /\ call'[c] = call[c]
    BY <1>1, <2>5 DEF ExitOtaWithoutRestoring, callVars
  <2>6. CASE \E m \in Motor : \/ EnterOta(c, m)
                              \/ ExitOtaAndRestore(c, m)
                              \/ ExitOtaWithoutRestoring(c, m)
    BY <2>3, <2>4, <2>5, <2>6 DEF HasStored, TargetOp, CacheInv, SettersPermitted
  <2>7. QED BY <2>1, <2>2, <2>6, Zenon DEF Begin
<1>4. ~HasStored(c)
  BY <1>1 DEF HasStored
<1>5. QED BY <1>1, <1>2, <1>3, <1>4, BystanderStep

\* A setter stores its target, and saves the one that has been sent.
LEMMA StoreTargetCacheInv ==
    ASSUME CacheInv, OneSetterPerTarget, NEW c \in Caller, StoreTarget(c), sent' = sent
    PROVE  SettersPermitted' /\ SettersKnowWhatWasSent' /\ OthersAreSent'
<1> DEFINE m == call[c].motor
           op == call[c].op
<1>1. m \in Motor /\ op \in TargetOp /\ saved[c] \in Saved
      /\ requested \in [Motor -> [TargetOp -> Target]]
  BY DEF CacheInv, TypeOK, Call, StoreTarget
<1>2. requested[m][op] = sent[m][op]
  <2>1. \A d \in Caller : ~IsSetting(d, m, op)
    <3>1. \A d \in Caller \ {c} : ~IsSetting(d, m, op)
      BY <1>1 DEF CacheInv, SettersPermitted, OneSetterPerTarget, IsSetting, HasStored
    <3>2. ~IsSetting(c, m, op)
      BY DEF StoreTarget, IsSetting, HasStored
    <3>3. QED BY <3>1, <3>2
  <2>2. QED BY <1>1, <2>1 DEF CacheInv, OthersAreSent
<1>3. requested' = [requested EXCEPT ![m][op] = call[c].target]
  BY DEF StoreTarget
<1>4. requested'[m][op] = call[c].target
  BY <1>1, <1>3
<1>5. \A n \in Motor, o \in TargetOp :
        <<n, o>> # <<m, op>> => requested'[n][o] = requested[n][o]
  BY <1>1, <1>3
<1>6. saved'[c].target = requested[m][op]
  BY <1>1 DEF StoreTarget, CacheInv, TypeOK, Saved
<1>7. call' = call /\ pc'[c] = "send"
      /\ \A d \in Caller \ {c} : pc'[d] = pc[d] /\ saved'[d] = saved[d]
  BY DEF StoreTarget, Goto, CacheInv, TypeOK
<1>8. HasStored(c)'
  BY <1>1, <1>7 DEF HasStored
<1>9. /\ CachedFor(call[c])' = call'[c].target
      /\ saved'[c].target = SentBy(call[c])'
  BY <1>2, <1>4, <1>6, <1>7 DEF CachedFor, SentBy
<1> HIDE DEF m, op
<1>10. m = call[c].motor /\ op = call[c].op
  BY DEF m, op
<1>11. QED BY <1>1, <1>5, <1>7, <1>8, <1>9, <1>10, SetterStep

\* A setter puts back the target that was sent last.
LEMMA RollbackTargetCacheInv ==
    ASSUME CacheInv, OneSetterPerTarget, NEW c \in Caller, RollbackTarget(c), sent' = sent
    PROVE  SettersPermitted' /\ SettersKnowWhatWasSent' /\ OthersAreSent'
<1> DEFINE m == call[c].motor
           op == call[c].op
<1>1. m \in Motor /\ op \in TargetOp
      /\ requested \in [Motor -> [TargetOp -> Target]]
  BY DEF CacheInv, TypeOK, Call, RollbackTarget
<1>2. requested' = [requested EXCEPT ![m][op] = saved[c].target]
  BY DEF RollbackTarget
<1>3. saved[c].target = sent[m][op]
  <2>1. HasStored(c) /\ pc[c] = "rollback"
    BY DEF RollbackTarget, HasStored
  <2>2. QED BY <2>1 DEF CacheInv, SettersKnowWhatWasSent, SentBy
<1>4. requested'[m][op] = sent'[m][op]
  BY <1>1, <1>2, <1>3
<1>5. \A n \in Motor, o \in TargetOp :
        <<n, o>> # <<m, op>> => requested'[n][o] = requested[n][o]
  BY <1>1, <1>2
<1>6. call'[c].op = "none"
      /\ \A d \in Caller \ {c} :
           pc'[d] = pc[d] /\ call'[d] = call[d] /\ saved'[d] = saved[d]
  BY DEF RollbackTarget, Return, Goto, NoCall, CacheInv, TypeOK
<1>7. ~HasStored(c)' /\ call'[c].op \notin TargetOp
  BY <1>6 DEF HasStored, TargetOp
<1> HIDE DEF m, op
<1>8. m = call[c].motor /\ op = call[c].op
  BY DEF m, op
<1>9. QED BY <1>1, <1>4, <1>5, <1>6, <1>7, <1>8, SetterStep

\* The outcome of a setter's send is booked: it returns, or goes on to its
\* roll-back.
LEMMA RecordCacheInv ==
    ASSUME CacheInv, OneSetterPerTarget, NEW c \in Caller,
           RecordSent(c) \/ RecordRefused(c), call[c].op \in TargetOp, sent' = sent
    PROVE  SettersPermitted' /\ SettersKnowWhatWasSent' /\ OthersAreSent'
<1> DEFINE m == call[c].motor
           op == call[c].op
<1>1. m \in Motor /\ op \in TargetOp /\ requested' = requested
  BY DEF CacheInv, TypeOK, Call, RecordSent, RecordRefused
<1>2. \A d \in Caller \ {c} :
        pc'[d] = pc[d] /\ call'[d] = call[d] /\ saved'[d] = saved[d]
  BY DEF RecordSent, RecordRefused, Return, Goto, CacheInv, TypeOK
<1>3. HasStored(c) /\ pc[c] = "record"
  BY DEF RecordSent, RecordRefused, HasStored
<1>4. IF call[c].accepted THEN requested[m][op] = sent[m][op]
                          ELSE saved[c].target = sent[m][op]
  BY <1>3 DEF CacheInv, SettersKnowWhatWasSent, CachedFor, SentBy
<1>5. CASE RecordSent(c)
  <2>1. call'[c].op = "none"
    BY <1>5 DEF RecordSent, Return, NoCall, CacheInv, TypeOK, TargetOp
  <2>2. ~HasStored(c)' /\ call'[c].op \notin TargetOp
    BY <2>1 DEF HasStored, TargetOp
  <2>3. requested'[m][op] = sent'[m][op]
    BY <1>1, <1>4, <1>5 DEF RecordSent
  <2> HIDE DEF m, op
  <2>4. m = call[c].motor /\ op = call[c].op
    BY DEF m, op
  <2>5. QED BY <1>1, <1>2, <2>2, <2>3, <2>4, SetterStep
<1>6. CASE RecordRefused(c)
  <2>1. pc'[c] = "rollback" /\ call' = call /\ saved' = saved
    BY <1>6 DEF RecordRefused, IsStoring, Goto, CacheInv, TypeOK
  <2>2. HasStored(c)'
    BY <2>1 DEF HasStored
  <2>3. saved'[c].target = SentBy(call[c])'
    BY <1>4, <1>6, <2>1 DEF RecordRefused, SentBy
  <2> HIDE DEF m, op
  <2>4. m = call[c].motor /\ op = call[c].op
    BY DEF m, op
  <2>5. QED BY <1>1, <1>2, <2>1, <2>2, <2>3, <2>4, SetterStep
<1>7. QED BY <1>5, <1>6

\* The steps of a call: those of the setters, and the others, which leave the
\* targets alone.
LEMMA ContinueCacheInv ==
    ASSUME CacheInv, OneSetterPerTarget, NEW c \in Caller, Continue(c), sent' = sent
    PROVE  SettersPermitted' /\ SettersKnowWhatWasSent' /\ OthersAreSent'
<1>1. CASE StoreTarget(c)
  BY <1>1, StoreTargetCacheInv
<1>2. CASE RollbackTarget(c)
  BY <1>2, RollbackTargetCacheInv
<1>3. CASE (RecordSent(c) \/ RecordRefused(c)) /\ call[c].op \in TargetOp
  BY <1>3, RecordCacheInv
<1>4. ASSUME requested' = requested, ~HasStored(c), ~HasStored(c)',
             call'[c].op \in {call[c].op, "none"},
             \A d \in Caller \ {c} :
               pc'[d] = pc[d] /\ call'[d] = call[d] /\ saved'[d] = saved[d]
      PROVE  SettersPermitted' /\ SettersKnowWhatWasSent' /\ OthersAreSent'
  <2>1. call'[c].op \in TargetOp => call'[c].op \in Ops[c]
    BY <1>4 DEF CacheInv, SettersPermitted, TargetOp
  <2>2. QED BY <1>4, <2>1, BystanderStep
<1>5. CASE \/ StoreReportConfig(c) \/ StoreNodeId(c) \/ RefuseNodeId(c)
           \/ RollbackReportConfig(c) \/ RollbackNodeId(c)
           \/ RecordManagementSent(c) \/ RecordManagementRefused(c)
           \/ (RecordSent(c) \/ RecordRefused(c)) /\ call[c].op \notin TargetOp
           \/ ApplyReset(c) \/ UndoOta(c) \/ PrepareOta(c)
  <2>1. requested' = requested
    BY <1>5 DEF StoreReportConfig, StoreNodeId, RefuseNodeId, RollbackReportConfig,
         RollbackNodeId, RecordManagementSent, RecordManagementRefused, RecordSent,
         RecordRefused, ApplyReset, UndoOta, PrepareOta, motorVars
  <2>2. \A d \in Caller \ {c} :
          pc'[d] = pc[d] /\ call'[d] = call[d] /\ saved'[d] = saved[d]
    BY <1>5 DEF StoreReportConfig, StoreNodeId, RefuseNodeId, RollbackReportConfig,
         RollbackNodeId, RecordManagementSent, RecordManagementRefused, RecordSent,
         RecordRefused, ApplyReset, UndoOta, PrepareOta, Return, Goto, CacheInv, TypeOK
  <2>3. ~HasStored(c)
    BY <1>5 DEF StoreReportConfig, StoreNodeId, RefuseNodeId, RollbackReportConfig,
         RollbackNodeId, RecordManagementSent, RecordManagementRefused, RecordSent,
         RecordRefused, ApplyReset, UndoOta, PrepareOta, HasStored, TargetOp,
         ManagementOp
  <2>4. \/ call'[c].op = "none"
        \/ call'[c].op = call[c].op /\ (call[c].op \in TargetOp => pc'[c] = "store")
    <3>1. CASE PrepareOta(c)
      BY <3>1 DEF PrepareOta, Goto, CacheInv, TypeOK, Call
    <3>2. CASE StoreReportConfig(c) \/ StoreNodeId(c)
      BY <3>2 DEF StoreReportConfig, StoreNodeId, TargetOp
    <3>3. CASE Return(c)
      BY <3>3 DEF Return, NoCall, CacheInv, TypeOK
    <3>4. CASE RollbackReportConfig(c) /\ ~Return(c)
      BY <3>4 DEF RollbackReportConfig, TargetOp
    <3>5. CASE (RecordSent(c) \/ RecordRefused(c)) /\ call[c].op \notin TargetOp
               /\ ~Return(c)
      BY <3>5 DEF RecordSent, RecordRefused
    <3>6. QED BY <1>5, <3>1, <3>2, <3>3, <3>4, <3>5
              DEF RefuseNodeId, RollbackNodeId, RecordManagementSent,
                  RecordManagementRefused, ApplyReset, UndoOta
  <2>5. ~HasStored(c)' /\ call'[c].op \in {call[c].op, "none"}
    BY <2>4 DEF HasStored, TargetOp
  <2>6. QED BY <1>4, <2>1, <2>2, <2>3, <2>5
<1>6. QED BY <1>1, <1>2, <1>3, <1>5 DEF Continue

\* A setter's send: the history follows what the transport accepts.
LEMMA SendCacheInv ==
    ASSUME CacheInv, OneSetterPerTarget, NEW c \in Caller, NEW accepted \in BOOLEAN,
           SendAndRemember(c, accepted)
    PROVE  SettersPermitted' /\ SettersKnowWhatWasSent' /\ OthersAreSent'
<1> DEFINE m == call[c].motor
           op == call[c].op
<1>1. m \in Motor /\ requested' = requested /\ pc[c] = "send" /\ call[c] \in Call
      /\ saved' = saved
  BY DEF CacheInv, TypeOK, Call, SendAndRemember, Send, motorVars
<1>2. /\ pc'[c] = "record" /\ call'[c] = [call[c] EXCEPT !.accepted = accepted]
      /\ \A d \in Caller \ {c} : pc'[d] = pc[d] /\ call'[d] = call[d]
  BY DEF SendAndRemember, Send, Goto, CacheInv, TypeOK
<1>3. call'[c].op = op /\ call'[c].motor = m /\ call'[c].accepted = accepted
  BY <1>1, <1>2 DEF Call
<1>4. CASE op \notin TargetOp
  <2>1. sent' = sent
    BY <1>4 DEF SendAndRemember
  <2>2. ~HasStored(c) /\ ~HasStored(c)'
    BY <1>3, <1>4 DEF HasStored
  <2>3. QED BY <1>1, <1>2, <1>3, <1>4, <2>1, <2>2, BystanderStep
<1>5. CASE op \in TargetOp
  <2>1. requested[m][op] = call[c].target /\ saved[c].target = sent[m][op]
    BY <1>1, <1>5 DEF CacheInv, SettersKnowWhatWasSent, HasStored, CachedFor, SentBy
  <2>2. sent' = IF accepted THEN [sent EXCEPT ![m][op] = call[c].target] ELSE sent
    BY <1>5 DEF SendAndRemember
  <2>3. \A n \in Motor, o \in TargetOp :
          <<n, o>> # <<m, op>> => sent'[n][o] = sent[n][o]
    BY <1>1, <1>5, <2>2 DEF CacheInv
  <2>4. sent'[m][op] = IF accepted THEN call[c].target ELSE sent[m][op]
    BY <1>1, <1>5, <2>2 DEF CacheInv
  <2>5. IF call'[c].accepted
        THEN CachedFor(call[c])' = SentBy(call[c])'
        ELSE saved'[c].target = SentBy(call[c])'
    BY <1>1, <1>3, <2>1, <2>4 DEF CachedFor, SentBy
  <2>6. HasStored(c)'
    BY <1>2, <1>3, <1>5 DEF HasStored
  <2> HIDE DEF m, op
  <2>7. m = call[c].motor /\ op = call[c].op
    BY DEF m, op
  <2>8. \A d \in Caller \ {c} :
          pc'[d] = pc[d] /\ call'[d] = call[d] /\ saved'[d] = saved[d]
    BY <1>1, <1>2
  <2>9. pc'[c] = "record" /\ requested' = requested
    BY <1>1, <1>2
  <2>10. QED BY <1>1, <1>3, <1>5, <2>3, <2>5, <2>6, <2>7, <2>8, <2>9, SetterStep
<1>6. QED BY <1>4, <1>5

\* Whenever no setter of a target is under way, the cached target is the last
\* one the transport accepted, whatever the other threads and the received
\* frames do, and whatever sends were refused, for any number of motors: the
\* roll-back of a setter never overwrites what has been sent.
THEOREM CachedTargetsWereSent ==
    ASSUME OneSetterPerTarget
    PROVE  HistorySpec => []CacheMatchesTheWire
<1>1. HistoryInit => CacheInv
  BY InitCacheInv
<1>2. CacheInv /\ [HistoryNext]_historyVars => CacheInv'
  <2>1. SUFFICES ASSUME CacheInv, [HistoryNext]_historyVars PROVE CacheInv'
    OBVIOUS
  <2>2. TypeOK'
    BY <2>1, HistoryStepIsAStep, NextTypeOK DEF CacheInv
  <2>3. CASE \E c \in Caller : \E accepted \in BOOLEAN : SendAndRemember(c, accepted)
    BY <2>1, <2>2, <2>3, SendCacheInv, SentType DEF CacheInv
  <2>4. CASE \E c \in Caller : CallStep(c)
    <3>1. sent' = sent /\ \E c \in Caller : Begin(c) \/ Continue(c)
      BY <2>4, CallStepIsACall
    <3>2. SettersPermitted' /\ SettersKnowWhatWasSent' /\ OthersAreSent'
      BY <2>1, <3>1, BeginCacheInv, ContinueCacheInv
    <3>3. QED BY <2>1, <2>2, <3>1, <3>2 DEF CacheInv
  <2>5. CASE \E f \in RxFrame : ReceiveStep(f)
    <3>1. sent' = sent /\ \E f \in RxFrame : HandleCanFrame(f)
      BY <2>5, ReceiveStepIsAFrame
    <3>2. UNCHANGED <<requested, pc, call, saved>>
      BY <3>1 DEF HandleCanFrame, HandleAck, HandleReport, HandleManagementReport,
                  HandleManagementAck, motorVars, callVars
    <3>3. QED BY <2>1, <2>2, <3>1, <3>2
              DEF CacheInv, SettersPermitted, SettersKnowWhatWasSent, OthersAreSent,
                  HasStored, IsSetting, SentBy, CachedFor
  <2>6. CASE UNCHANGED historyVars
    BY <2>1, <2>2, <2>6
       DEF historyVars, vars, motorVars, callVars, CacheInv, SettersPermitted,
           SettersKnowWhatWasSent, OthersAreSent, HasStored, IsSetting, SentBy,
           CachedFor
  <2>7. QED BY <2>1, <2>3, <2>4, <2>5, <2>6 DEF HistoryNext
<1>3. CacheInv => CacheMatchesTheWire
  BY DEF CacheInv, OthersAreSent, IsSetting, HasStored, CacheMatchesTheWire, InFlight
<1>4. QED BY <1>1, <1>2, <1>3, PTL DEF HistorySpec

-----------------------------------------------------------------------------
(***************************************************************************)
(* Leaving OTA gives a motor back the configuration it had.                *)
(*                                                                         *)
(* From the entry of a motor until its configuration has been given back,  *)
(* the one the driver has saved is the one owed to it.  The call that      *)
(* gives it back carries it, and the cache holds it while it is sent; if   *)
(* the send fails, the motor is back in OTA with the saved one still valid.*)
(***************************************************************************)

\* The hypothesis of the theorem: one thread configures reports and OTA.
ConfigOp == {"set_ota_state", "set_report_config"}

OneThreadConfiguresReports ==
    \A c, d \in Caller :
      Ops[c] \cap ConfigOp # {} /\ Ops[d] \cap ConfigOp # {} => c = d

\* Thread c is in a call that configures the reports of motor m.
IsConfiguring(c, m) ==
    pc[c] # "idle" /\ call[c].motor = m /\ call[c].op \in ConfigOp

ConfiguringPermitted ==
    \A c \in Caller :
      pc[c] # "idle" /\ call[c].op \in ConfigOp => call[c].op \in Ops[c]

\* The steps of set_ota_state and of reset_can_config that no other call takes.
LocationsFit ==
    \A c \in Caller :
      /\ pc[c] \in {"prepare", "undo_ota"} => call[c].op = "set_ota_state"
      /\ pc[c] = "apply_reset" => call[c].op = "reset_can_config"

Owes(m) == owed[m].due /\ owed[m].known
Restored(r) == [r EXCEPT !.period = ClampPeriod(@)]

\* On the way into OTA the motor is in it; on the way out it is not, and the
\* call carries what is owed.
OtaCallReady(c, m) ==
    IF call[c].active
    THEN ota[m].active
    ELSE /\ ~ota[m].active
         /\ call[c].config = Restored(owed[m].config)
         /\ pc[c] \in {"send", "record"} => report[m] = call[c].config

\* A set_report_config that goes on after its store cancels the debt.
CallReady(c, m) ==
    /\ call[c].op = "set_report_config" => pc[c] = "store"
    /\ call[c].op = "set_ota_state" => OtaCallReady(c, m)

DebtInv(m) ==
    Owes(m) =>
      /\ ota[m].before = owed[m].config
      /\ ota[m].active => ota[m].restore_valid
      /\ \A c \in Caller : IsConfiguring(c, m) => CallReady(c, m)
      /\ (~ota[m].active /\ \A c \in Caller : ~IsConfiguring(c, m)) =>
           report[m] = Restored(owed[m].config)

OtaInv ==
    /\ TypeOK
    /\ ConfiguringPermitted
    /\ LocationsFit
    /\ \A m \in Motor : DebtInv(m)

\* The step cancels the debt to motor m: it undoes an entry, stores a new
\* configuration or reads another one back.
Cancels(m) ==
    \/ \E c \in Caller :
         /\ call[c].motor = m
         /\ \/ UndoOta(c) /\ call[c].active
            \/ StoreReportConfig(c) /\ call[c].op = "set_report_config"
    \/ \E f \in RxFrame : HandleAck(f) /\ report'[m] # report[m]

\* The three things that become of a debt.
LEMMA DebtStep ==
    ASSUME Remember, NEW m \in Motor
    PROVE  \/ \E c \in Caller :
                /\ EnterOta(c, m)
                /\ owed'[m] = [due |-> TRUE, known |-> "report_config" \in info[m].valid,
                               config |-> report[m]]
           \/ owed'[m] = NotOwed
           \/ /\ owed'[m] = owed[m]
              /\ \A c \in Caller : ~EnterOta(c, m)
              /\ ~Cancels(m)
<1>1. owed'[m] = OwedAfterStep(m)
  BY DEF Remember
<1>2. CASE \E c \in Caller : EnterOta(c, m)
  <2>1. owed'[m] = [due |-> TRUE, known |-> "report_config" \in info[m].valid,
                    config |-> report[m]] \/ owed'[m] = NotOwed
    BY <1>1, <1>2 DEF OwedAfterStep
  <2>2. QED BY <1>2, <2>1
<1>3. CASE (\A c \in Caller : ~EnterOta(c, m)) /\ Cancels(m)
  BY <1>1, <1>3 DEF OwedAfterStep, Cancels
<1>4. CASE (\A c \in Caller : ~EnterOta(c, m)) /\ ~Cancels(m)
  BY <1>1, <1>4 DEF OwedAfterStep, Cancels
<1>5. QED BY <1>2, <1>3, <1>4

\* A step of thread c, if it keeps the debt and only its own call configures
\* motor m, or if it leaves the configuration of m alone.
LEMMA DebtKept ==
    ASSUME OtaInv, NEW c \in Caller, NEW m \in Motor, owed'[m] = owed[m],
           \A d \in Caller \ {c} : pc'[d] = pc[d] /\ call'[d] = call[d],
           \/ ota'[m] = ota[m] /\ report'[m] = report[m]
           \/ \A d \in Caller \ {c} : ~IsConfiguring(d, m),
           Owes(m) =>
             /\ ota'[m].before = ota[m].before
             /\ ota'[m].active => ota'[m].restore_valid
             /\ IsConfiguring(c, m)' => CallReady(c, m)'
             /\ ~ota'[m].active /\ ~IsConfiguring(c, m)' =>
                  \/ report'[m] = Restored(owed[m].config)
                  \/ /\ ota'[m] = ota[m] /\ report'[m] = report[m]
                     /\ ~IsConfiguring(c, m)
    PROVE  DebtInv(m)'
<1>1. SUFFICES ASSUME Owes(m)'
               PROVE  /\ ota'[m].before = owed'[m].config
                      /\ ota'[m].active => ota'[m].restore_valid
                      /\ \A d \in Caller : IsConfiguring(d, m)' => CallReady(d, m)'
                      /\ (~ota'[m].active /\ \A d \in Caller : ~IsConfiguring(d, m)') =>
                           report'[m] = Restored(owed'[m].config)
  BY DEF DebtInv
<1>2. Owes(m)
  BY <1>1 DEF Owes
<1>3. /\ ota[m].before = owed[m].config
      /\ \A d \in Caller : IsConfiguring(d, m) => CallReady(d, m)
      /\ (~ota[m].active /\ \A d \in Caller : ~IsConfiguring(d, m)) =>
           report[m] = Restored(owed[m].config)
  BY <1>2 DEF OtaInv, DebtInv
<1>4. \A d \in Caller \ {c} : IsConfiguring(d, m)' <=> IsConfiguring(d, m)
  BY DEF IsConfiguring
<1>5. ota'[m].before = owed'[m].config /\ (ota'[m].active => ota'[m].restore_valid)
  BY <1>2, <1>3
<1>6. ASSUME NEW d \in Caller, IsConfiguring(d, m)'
      PROVE  CallReady(d, m)'
  <2>1. CASE d = c
    BY <1>2, <1>6, <2>1
  <2>2. CASE d # c
    <3>1. IsConfiguring(d, m) /\ ota'[m] = ota[m] /\ report'[m] = report[m]
      BY <1>4, <1>6, <2>2
    <3>2. CallReady(d, m)
      BY <1>3, <3>1
    <3>3. pc'[d] = pc[d] /\ call'[d] = call[d]
      BY <2>2
    <3>4. QED BY <3>1, <3>2, <3>3 DEF CallReady, OtaCallReady
  <2>3. QED BY <2>1, <2>2
<1>7. ASSUME ~ota'[m].active, \A d \in Caller : ~IsConfiguring(d, m)'
      PROVE  report'[m] = Restored(owed'[m].config)
  <2>1. CASE report'[m] = Restored(owed[m].config)
    BY <2>1
  <2>2. CASE ota'[m] = ota[m] /\ report'[m] = report[m] /\ ~IsConfiguring(c, m)
    <3>1. \A d \in Caller : ~IsConfiguring(d, m)
      BY <1>4, <1>7, <2>2
    <3>2. QED BY <1>3, <1>7, <2>2, <3>1
  <2>3. QED BY <1>2, <1>7, <2>1, <2>2
<1>8. QED BY <1>5, <1>6, <1>7

\* A step of a thread that configures the reports of m neither before nor after
\* it, and leaves them alone.
LEMMA BystanderDebt ==
    ASSUME OtaInv, NEW c \in Caller, NEW m \in Motor, owed'[m] = owed[m],
           \A d \in Caller \ {c} : pc'[d] = pc[d] /\ call'[d] = call[d],
           ota'[m] = ota[m], report'[m] = report[m],
           ~IsConfiguring(c, m), ~IsConfiguring(c, m)'
    PROVE  DebtInv(m)'
<1>1. Owes(m) => (ota'[m].active => ota'[m].restore_valid)
  BY DEF OtaInv, DebtInv
<1>2. QED BY <1>1, DebtKept

\* Only the calling thread configures anything.
LEMMA ConfiguresAlone ==
    ASSUME OneThreadConfiguresReports, ConfiguringPermitted,
           NEW c \in Caller, Ops[c] \cap ConfigOp # {}
    PROVE  \A m \in Motor : \A d \in Caller \ {c} : ~IsConfiguring(d, m)
BY DEF OneThreadConfiguresReports, ConfiguringPermitted, IsConfiguring

\* What set_ota_state calls set_report_config with.
LEMMA OtaCalls ==
    ASSUME NEW m \in Motor, NEW r
    PROVE  LET k == CallOf("set_ota_state", m) IN
           /\ [k EXCEPT !.active = TRUE, !.config = r].op = "set_ota_state"
           /\ [k EXCEPT !.active = TRUE, !.config = r].motor = m
           /\ [k EXCEPT !.active = TRUE, !.config = r].active
           /\ [k EXCEPT !.config = r].op = "set_ota_state"
           /\ [k EXCEPT !.config = r].motor = m
           /\ ~[k EXCEPT !.config = r].active
           /\ [k EXCEPT !.config = r].config = r
<1>1. /\ CallOf("set_ota_state", m) \in Call
      /\ CallOf("set_ota_state", m).op = "set_ota_state"
      /\ CallOf("set_ota_state", m).motor = m
  BY CallOfType DEF Op
<1>2. ~CallOf("set_ota_state", m).active
  BY DEF CallOf, NoCall
<1>3. QED BY <1>1, <1>2 DEF Call

\* The call an entry begins.
LEMMA EnterOtaCall ==
    ASSUME TypeOK, NEW c \in Caller, NEW m \in Motor, EnterOta(c, m)
    PROVE  /\ pc[c] = "idle" /\ pc'[c] \in {"prepare", "undo_ota"}
           /\ "set_ota_state" \in Ops[c]
           /\ call'[c].op = "set_ota_state" /\ call'[c].motor = m /\ call'[c].active
           /\ \A d \in Caller \ {c} : pc'[d] = pc[d] /\ call'[d] = call[d]
           /\ report' = report
           /\ ota' = [ota EXCEPT ![m] =
                        [active |-> TRUE, before |-> report[m],
                         restore_valid |-> "report_config" \in info[m].valid]]
<1> DEFINE r == [enabled |-> FALSE, period |-> ClampPeriod(report[m].period)]
           k == [CallOf("set_ota_state", m) EXCEPT !.active = TRUE, !.config = r]
<1>1. CallSetReportConfig(c, k)
  BY DEF EnterOta
<1>2. k.op = "set_ota_state" /\ k.motor = m /\ k.active
  BY OtaCalls
<1> HIDE DEF k
<1>3. /\ call'[c] = k /\ pc'[c] \in {"prepare", "undo_ota"}
      /\ \A d \in Caller \ {c} : pc'[d] = pc[d] /\ call'[d] = call[d]
  BY <1>1 DEF CallSetReportConfig, Goto, TypeOK
<1>4. QED BY <1>2, <1>3 DEF EnterOta, MayCall

\* The call an exit begins, if there is something to restore.
LEMMA ExitOtaCall ==
    ASSUME TypeOK, NEW c \in Caller, NEW m \in Motor, ExitOtaAndRestore(c, m)
    PROVE  /\ pc[c] = "idle" /\ pc'[c] \in {"prepare", "undo_ota"}
           /\ "set_ota_state" \in Ops[c]
           /\ call'[c].op = "set_ota_state" /\ call'[c].motor = m /\ ~call'[c].active
           /\ call'[c].config = Restored(ota[m].before)
           /\ \A d \in Caller \ {c} : pc'[d] = pc[d] /\ call'[d] = call[d]
           /\ report' = report
           /\ ota' = [ota EXCEPT ![m].active = FALSE, ![m].restore_valid = FALSE]
<1> DEFINE r == Restored(ota[m].before)
           k == [CallOf("set_ota_state", m) EXCEPT !.config = r]
<1>1. CallSetReportConfig(c, k)
  BY DEF ExitOtaAndRestore, Restored
<1> HIDE DEF r
<1>2. k.op = "set_ota_state" /\ k.motor = m /\ ~k.active /\ k.config = r
  BY OtaCalls
<1> HIDE DEF k
<1>3. /\ call'[c] = k /\ pc'[c] \in {"prepare", "undo_ota"}
      /\ \A d \in Caller \ {c} : pc'[d] = pc[d] /\ call'[d] = call[d]
  BY <1>1 DEF CallSetReportConfig, Goto, TypeOK
<1>4. QED BY <1>2, <1>3 DEF ExitOtaAndRestore, MayCall, r

\* Any other call begins by taking a copy of its arguments.
LEMMA PreparedCall ==
    ASSUME TypeOK, NEW c \in Caller, NEW k,
           Prepare(c, k) \/ PrepareManagement(c, k)
    PROVE  /\ pc[c] = "idle" /\ pc'[c] \in {"store", "send"} /\ k.op \in Ops[c]
           /\ call'[c].op = k.op /\ k.op # "set_ota_state"
           /\ k.op = "set_report_config" => pc'[c] = "store"
           /\ \A d \in Caller \ {c} : pc'[d] = pc[d] /\ call'[d] = call[d]
           /\ report' = report /\ ota' = ota
<1>1. CASE Prepare(c, k)
  <2> DEFINE kk == [k EXCEPT !.node_id = addr[k.motor].node_id]
  <2>1. k \in Call /\ k.op \in MotorOp
    BY <1>1, CallsType, CallOps DEF Prepare
  <2>2. kk.op = k.op
    BY <2>1 DEF Call
  <2>3. call' = [call EXCEPT ![c] = kk]
    BY <1>1 DEF Prepare
  <2> HIDE DEF kk
  <2>4. call'[c].op = k.op /\ \A d \in Caller \ {c} : call'[d] = call[d]
    BY <2>2, <2>3 DEF TypeOK
  <2>5. /\ pc[c] = "idle" /\ k.op \in Ops[c] /\ report' = report /\ ota' = ota
        /\ pc'[c] = (IF IsStoring(k.op) THEN "store" ELSE "send")
        /\ \A d \in Caller \ {c} : pc'[d] = pc[d]
    BY <1>1 DEF Prepare, MayCall, Goto, motorVars, TypeOK
  <2>6. QED BY <2>1, <2>4, <2>5 DEF MotorOp, IsStoring
<1>2. CASE PrepareManagement(c, k)
  <2> DEFINE kk == [k EXCEPT !.node_id = MANAGEMENT_NODE_ID]
  <2>1. k \in Call /\ k.op \in ManagementOp
    BY <1>2, CallsType, ManagementCallOps DEF PrepareManagement
  <2>2. kk.op = k.op
    BY <2>1 DEF Call
  <2>3. call' = [call EXCEPT ![c] = kk]
    BY <1>2 DEF PrepareManagement
  <2> HIDE DEF kk
  <2>4. call'[c].op = k.op /\ \A d \in Caller \ {c} : call'[d] = call[d]
    BY <2>2, <2>3 DEF TypeOK
  <2>5. /\ pc[c] = "idle" /\ k.op \in Ops[c] /\ report' = report /\ ota' = ota
        /\ pc'[c] = "send" /\ \A d \in Caller \ {c} : pc'[d] = pc[d]
    BY <1>2 DEF PrepareManagement, MayCall, Goto, motorVars, TypeOK
  <2>6. QED BY <2>1, <2>4, <2>5 DEF ManagementOp
<1>3. QED BY <1>1, <1>2

\* A call of one thread, the others where they were.
LEMMA CallStepFits ==
    ASSUME OtaInv, NEW c \in Caller,
           \A d \in Caller \ {c} : pc'[d] = pc[d] /\ call'[d] = call[d],
           pc'[c] # "idle" /\ call'[c].op \in ConfigOp => call'[c].op \in Ops[c],
           pc'[c] \in {"prepare", "undo_ota"} => call'[c].op = "set_ota_state",
           pc'[c] = "apply_reset" => call'[c].op = "reset_can_config"
    PROVE  ConfiguringPermitted' /\ LocationsFit'
BY DEF OtaInv, ConfiguringPermitted, LocationsFit

LEMMA BeginFits ==
    ASSUME OtaInv, NEW c \in Caller, Begin(c)
    PROVE  ConfiguringPermitted' /\ LocationsFit'
<1>1. TypeOK
  BY DEF OtaInv
<1>2. ASSUME NEW k, Prepare(c, k) \/ PrepareManagement(c, k)
      PROVE  ConfiguringPermitted' /\ LocationsFit'
  BY <1>1, <1>2, PreparedCall, CallStepFits
<1>3. ASSUME NEW m \in Motor, EnterOta(c, m)
      PROVE  ConfiguringPermitted' /\ LocationsFit'
  BY <1>1, <1>3, EnterOtaCall, CallStepFits
<1>4. ASSUME NEW m \in Motor, ExitOtaAndRestore(c, m)
      PROVE  ConfiguringPermitted' /\ LocationsFit'
  BY <1>1, <1>4, ExitOtaCall, CallStepFits
<1>5. ASSUME NEW m \in Motor, ExitOtaWithoutRestoring(c, m)
      PROVE  ConfiguringPermitted' /\ LocationsFit'
  BY <1>5 DEF ExitOtaWithoutRestoring, callVars, OtaInv, ConfiguringPermitted, LocationsFit
<1>6. QED BY <1>2, <1>3, <1>4, <1>5, Zenon DEF Begin

\* Entering OTA saves what is owed from then on.
LEMMA EnteredDebt ==
    ASSUME OtaInv, OneThreadConfiguresReports, NEW c \in Caller, NEW m \in Motor,
           EnterOta(c, m),
           owed'[m] = [due |-> TRUE, known |-> "report_config" \in info[m].valid,
                       config |-> report[m]]
    PROVE  DebtInv(m)'
<1>1. /\ pc[c] = "idle" /\ "set_ota_state" \in Ops[c]
      /\ call'[c].op = "set_ota_state" /\ call'[c].active
      /\ \A d \in Caller \ {c} : pc'[d] = pc[d] /\ call'[d] = call[d]
      /\ ota' = [ota EXCEPT ![m] =
                   [active |-> TRUE, before |-> report[m],
                    restore_valid |-> "report_config" \in info[m].valid]]
  BY EnterOtaCall DEF OtaInv
<1>2. ota'[m] = [active |-> TRUE, before |-> report[m],
                 restore_valid |-> "report_config" \in info[m].valid]
  BY <1>1 DEF OtaInv, TypeOK
<1>3. \A d \in Caller \ {c} : ~IsConfiguring(d, m)
  BY <1>1, ConfiguresAlone DEF OtaInv, ConfigOp
<1>4. \A d \in Caller \ {c} : ~IsConfiguring(d, m)'
  BY <1>1, <1>3 DEF IsConfiguring
<1>5. CallReady(c, m)'
  BY <1>1, <1>2 DEF CallReady, OtaCallReady
<1>6. QED BY <1>2, <1>4, <1>5 DEF DebtInv, Owes

\* The other ways of beginning a call keep the debt.
LEMMA BeginDebt ==
    ASSUME OtaInv, OneThreadConfiguresReports, NEW c \in Caller, NEW m \in Motor,
           Begin(c), ~EnterOta(c, m), owed'[m] = owed[m]
    PROVE  DebtInv(m)'
<1>1. TypeOK
  BY DEF OtaInv
<1>2. ASSUME NEW k, Prepare(c, k) \/ PrepareManagement(c, k)
      PROVE  DebtInv(m)'
  <2>1. /\ pc[c] = "idle" /\ call'[c].op # "set_ota_state"
        /\ call'[c].op = "set_report_config" => pc'[c] = "store"
        /\ \A d \in Caller \ {c} : pc'[d] = pc[d] /\ call'[d] = call[d]
        /\ report' = report /\ ota' = ota
    BY <1>1, <1>2, PreparedCall
  <2>2. ~IsConfiguring(c, m) /\ CallReady(c, m)'
    BY <2>1 DEF IsConfiguring, CallReady
  <2>3. Owes(m) => (ota'[m].active => ota'[m].restore_valid)
    BY <2>1 DEF OtaInv, DebtInv
  <2>4. QED BY <2>1, <2>2, <2>3, DebtKept
<1>3. ASSUME NEW n \in Motor, EnterOta(c, n)
      PROVE  DebtInv(m)'
  <2>1. n # m
    BY <1>3
  <2>2. /\ pc[c] = "idle" /\ call'[c].motor = n /\ report' = report
        /\ ota'[m] = ota[m]
        /\ \A d \in Caller \ {c} : pc'[d] = pc[d] /\ call'[d] = call[d]
    BY <1>1, <1>3, <2>1, EnterOtaCall DEF TypeOK
  <2>3. ~IsConfiguring(c, m) /\ ~IsConfiguring(c, m)'
    BY <2>1, <2>2 DEF IsConfiguring
  <2>4. QED BY <2>2, <2>3, BystanderDebt
<1>4. ASSUME NEW n \in Motor, ExitOtaAndRestore(c, n)
      PROVE  DebtInv(m)'
  <2>1. /\ pc[c] = "idle" /\ pc'[c] \in {"prepare", "undo_ota"}
        /\ "set_ota_state" \in Ops[c]
        /\ call'[c].op = "set_ota_state" /\ call'[c].motor = n /\ ~call'[c].active
        /\ call'[c].config = Restored(ota[n].before)
        /\ \A d \in Caller \ {c} : pc'[d] = pc[d] /\ call'[d] = call[d]
        /\ report' = report
        /\ ota' = [ota EXCEPT ![n].active = FALSE, ![n].restore_valid = FALSE]
    BY <1>1, <1>4, ExitOtaCall
  <2>2. ~IsConfiguring(c, m)
    BY <2>1 DEF IsConfiguring
  <2>3. CASE n # m
    <3>1. ota'[m] = ota[m] /\ ~IsConfiguring(c, m)'
      BY <1>1, <2>1, <2>3 DEF TypeOK, IsConfiguring
    <3>2. QED BY <2>1, <2>2, <3>1, BystanderDebt
  <2>4. CASE n = m
    <3>1. ~ota'[m].active /\ ota'[m].before = ota[m].before
      BY <1>1, <2>1, <2>4 DEF TypeOK, Ota
    <3>2. \A d \in Caller \ {c} : ~IsConfiguring(d, m)
      BY <2>1, ConfiguresAlone DEF OtaInv, ConfigOp
    <3>3. IsConfiguring(c, m)'
      BY <2>1, <2>4 DEF IsConfiguring, ConfigOp
    <3>4. Owes(m) => CallReady(c, m)'
      <4>1. Owes(m) => ota[m].before = owed[m].config
        BY DEF OtaInv, DebtInv
      <4>2. QED BY <2>1, <2>4, <3>1, <4>1 DEF CallReady, OtaCallReady
    <3>5. QED BY <2>1, <3>1, <3>2, <3>3, <3>4, DebtKept
  <2>5. QED BY <2>3, <2>4
<1>5. ASSUME NEW n \in Motor, ExitOtaWithoutRestoring(c, n)
      PROVE  DebtInv(m)'
  <2>1. /\ pc' = pc /\ call' = call /\ report' = report /\ pc[c] = "idle"
        /\ ota[n].active /\ ~ota[n].restore_valid
        /\ ota' = [ota EXCEPT ![n].active = FALSE]
    BY <1>5 DEF ExitOtaWithoutRestoring, callVars, MayCall
  <2>2. ~IsConfiguring(c, m) /\ ~IsConfiguring(c, m)'
    BY <2>1 DEF IsConfiguring
  <2>3. CASE n # m
    <3>1. ota'[m] = ota[m]
      BY <1>1, <2>1, <2>3 DEF TypeOK
    <3>2. QED BY <2>1, <2>2, <3>1, BystanderDebt
  <2>4. CASE n = m
    <3>1. ~Owes(m)
      BY <2>1, <2>4 DEF OtaInv, DebtInv
    <3>2. QED BY <3>1 DEF DebtInv, Owes
  <2>5. QED BY <2>3, <2>4
<1>6. QED BY <1>2, <1>3, <1>4, <1>5, Zenon DEF Begin

\* A step of a call moves its thread only; what configures the reports stays
\* the same call until it returns.
LEMMA ContinueCall ==
    ASSUME OtaInv, NEW c \in Caller, Continue(c)
    PROVE  /\ \A d \in Caller \ {c} : pc'[d] = pc[d] /\ call'[d] = call[d]
           /\ pc[c] # "idle"
           /\ \/ pc'[c] = "idle"
              \/ /\ pc'[c] \in {"send", "store", "rollback", "undo_ota", "apply_reset"}
                 /\ call'[c].op = call[c].op /\ call'[c].motor = call[c].motor
                 /\ call'[c].active = call[c].active
                 /\ call'[c].config = call[c].config
                 /\ pc'[c] = "undo_ota" => call[c].op = "set_ota_state"
                 /\ pc'[c] = "apply_reset" => call[c].op = "reset_can_config"
<1>1. TypeOK
  BY DEF OtaInv
<1>2. CASE PrepareOta(c)
  BY <1>1, <1>2 DEF PrepareOta, Goto, TypeOK, Call
<1>3. CASE StoreTarget(c) \/ StoreReportConfig(c) \/ StoreNodeId(c)
  BY <1>1, <1>3 DEF StoreTarget, StoreReportConfig, StoreNodeId, Goto, TypeOK
<1>4. CASE RecordSent(c) \/ RecordRefused(c) \/ RollbackReportConfig(c)
  BY <1>1, <1>4 DEF RecordSent, RecordRefused, RollbackReportConfig, Return, Goto, TypeOK
<1>5. CASE \/ RefuseNodeId(c) \/ RecordManagementSent(c) \/ RecordManagementRefused(c)
           \/ RollbackTarget(c) \/ RollbackNodeId(c) \/ ApplyReset(c) \/ UndoOta(c)
  BY <1>1, <1>5 DEF RefuseNodeId, RecordManagementSent, RecordManagementRefused,
     RollbackTarget, RollbackNodeId, ApplyReset, UndoOta, Return, Goto, TypeOK
<1>6. QED BY <1>2, <1>3, <1>4, <1>5 DEF Continue

LEMMA ContinueFits ==
    ASSUME OtaInv, NEW c \in Caller, Continue(c)
    PROVE  ConfiguringPermitted' /\ LocationsFit'
<1>1. pc[c] # "idle" /\ call[c].op \in ConfigOp => call[c].op \in Ops[c]
  BY DEF OtaInv, ConfiguringPermitted
<1>2. QED BY <1>1, ContinueCall, CallStepFits

\* The set_report_config a debt allows has not stored yet.
LEMMA ConfiguringReady ==
    ASSUME OtaInv, NEW c \in Caller, NEW m \in Motor, IsConfiguring(c, m), Owes(m)
    PROVE  CallReady(c, m)
BY DEF OtaInv, DebtInv

\* Storing the configuration that is given back, or switching reports off on
\* the way in.
LEMMA StoreReportConfigDebt ==
    ASSUME OtaInv, OneThreadConfiguresReports, NEW c \in Caller, NEW m \in Motor,
           StoreReportConfig(c), IsConfiguring(c, m), ~Cancels(m), owed'[m] = owed[m]
    PROVE  DebtInv(m)'
<1>1. /\ pc'[c] = "send" /\ call' = call /\ ota' = ota
      /\ \A d \in Caller \ {c} : pc'[d] = pc[d]
      /\ report'[m] = call[c].config
  BY DEF StoreReportConfig, Goto, OtaInv, TypeOK, IsConfiguring
<1>2. call[c].op = "set_ota_state"
  BY DEF Cancels, IsConfiguring, ConfigOp
<1>3. \A d \in Caller \ {c} : ~IsConfiguring(d, m)
  BY ConfiguresAlone DEF OtaInv, IsConfiguring, ConfiguringPermitted
<1>4. IsConfiguring(c, m)'
  BY <1>1 DEF IsConfiguring
<1>5. ASSUME Owes(m)
      PROVE  CallReady(c, m)' /\ (ota[m].active => ota[m].restore_valid)
  <2>1. OtaCallReady(c, m)
    BY <1>2, <1>5, ConfiguringReady DEF CallReady
  <2>2. call'[c] = call[c] /\ ota'[m] = ota[m] /\ owed'[m] = owed[m]
    BY <1>1
  <2>3. OtaCallReady(c, m)'
    BY <1>1, <2>1, <2>2 DEF OtaCallReady
  <2>4. QED BY <1>2, <1>5, <2>2, <2>3 DEF CallReady, OtaInv, DebtInv
<1>6. QED BY <1>1, <1>3, <1>4, <1>5, DebtKept

\* Once the send is booked the configuration has been given back, or the
\* motor is in OTA.
LEMMA RecordReportConfigDebt ==
    ASSUME OtaInv, NEW c \in Caller, NEW m \in Motor,
           RecordSent(c) \/ RecordRefused(c), IsConfiguring(c, m), owed'[m] = owed[m]
    PROVE  DebtInv(m)'
<1>1. /\ pc[c] = "record" /\ ota' = ota /\ report' = report
      /\ \A d \in Caller \ {c} : pc'[d] = pc[d] /\ call'[d] = call[d]
  BY DEF RecordSent, RecordRefused, Return, Goto, OtaInv, TypeOK
<1>2. pc'[c] = "idle" \/ (pc'[c] = "rollback" /\ call'[c] = call[c])
  BY DEF RecordSent, RecordRefused, Return, Goto, OtaInv, TypeOK, IsConfiguring,
         ConfigOp, IsStoring
<1>3. Owes(m) => call[c].op = "set_ota_state" /\ OtaCallReady(c, m)
  BY <1>1, ConfiguringReady DEF CallReady, IsConfiguring, ConfigOp
<1>4. Owes(m) => (ota[m].active => ota[m].restore_valid)
  BY DEF OtaInv, DebtInv
<1>5. ASSUME Owes(m), IsConfiguring(c, m)'
      PROVE  CallReady(c, m)'
  <2>1. pc'[c] = "rollback" /\ call'[c] = call[c]
    BY <1>2, <1>5 DEF IsConfiguring
  <2>2. ota'[m] = ota[m] /\ owed'[m] = owed[m]
    BY <1>1
  <2>3. QED BY <1>3, <1>5, <2>1, <2>2 DEF CallReady, OtaCallReady
<1>6. ASSUME Owes(m), ~ota'[m].active
      PROVE  report'[m] = Restored(owed[m].config)
  BY <1>1, <1>3, <1>6 DEF OtaCallReady
<1>7. QED BY <1>1, <1>4, <1>5, <1>6, DebtKept

\* A set_report_config that fails has no debt to keep; set_ota_state goes on
\* to put the motor back into OTA.
LEMMA RollbackReportConfigDebt ==
    ASSUME OtaInv, OneThreadConfiguresReports, NEW c \in Caller, NEW m \in Motor,
           RollbackReportConfig(c), IsConfiguring(c, m), owed'[m] = owed[m]
    PROVE  DebtInv(m)'
<1>1. /\ pc[c] = "rollback" /\ ota' = ota
      /\ \A d \in Caller \ {c} : pc'[d] = pc[d] /\ call'[d] = call[d]
  BY DEF RollbackReportConfig, Return, Goto, OtaInv, TypeOK
<1>2. CASE ~Owes(m)
  BY <1>2 DEF DebtInv, Owes
<1>3. CASE Owes(m)
  <2>1. call[c].op = "set_ota_state" /\ OtaCallReady(c, m)
    BY <1>1, <1>3, ConfiguringReady DEF CallReady, IsConfiguring, ConfigOp
  <2>2. pc'[c] = "undo_ota" /\ call'[c] = call[c]
    BY <2>1 DEF RollbackReportConfig, Goto, OtaInv, TypeOK
  <2>3. \A d \in Caller \ {c} : ~IsConfiguring(d, m)
    BY ConfiguresAlone DEF OtaInv, IsConfiguring, ConfiguringPermitted
  <2>4. IsConfiguring(c, m)'
    BY <2>2 DEF IsConfiguring
  <2>5. ota'[m] = ota[m] /\ owed'[m] = owed[m]
    BY <1>1
  <2>6. CallReady(c, m)'
    BY <2>1, <2>2, <2>5 DEF CallReady, OtaCallReady
  <2>7. ota'[m].active => ota'[m].restore_valid
    BY <1>3, <2>5 DEF OtaInv, DebtInv
  <2>8. QED BY <1>1, <2>3, <2>4, <2>5, <2>6, <2>7, DebtKept
<1>4. QED BY <1>2, <1>3

\* A failed exit leaves the motor in OTA, with the configuration still to be
\* given back.
LEMMA UndoOtaDebt ==
    ASSUME OtaInv, OneThreadConfiguresReports, NEW c \in Caller, NEW m \in Motor,
           UndoOta(c), IsConfiguring(c, m), ~Cancels(m), owed'[m] = owed[m]
    PROVE  DebtInv(m)'
<1>1. /\ pc'[c] = "idle" /\ report' = report
      /\ \A d \in Caller \ {c} : pc'[d] = pc[d] /\ call'[d] = call[d]
  BY DEF UndoOta, Return, Goto, OtaInv, TypeOK
<1>2. call[c].motor = m /\ ~call[c].active
  BY DEF Cancels, IsConfiguring
<1>3. ota'[m].active /\ ota'[m].restore_valid /\ ota'[m].before = ota[m].before
  BY <1>2 DEF UndoOta, OtaInv, TypeOK, Ota
<1>4. \A d \in Caller \ {c} : ~IsConfiguring(d, m)
  BY ConfiguresAlone DEF OtaInv, IsConfiguring, ConfiguringPermitted
<1>5. ~IsConfiguring(c, m)'
  BY <1>1 DEF IsConfiguring
<1>6. QED BY <1>1, <1>3, <1>4, <1>5, DebtKept

\* Every step of a call keeps the debt.
LEMMA ContinueDebt ==
    ASSUME OtaInv, OneThreadConfiguresReports, NEW c \in Caller, NEW m \in Motor,
           Continue(c), ~Cancels(m), owed'[m] = owed[m]
    PROVE  DebtInv(m)'
<1>1. TypeOK
  BY DEF OtaInv
<1>2. CASE ~IsConfiguring(c, m)
  <2>1. ~IsConfiguring(c, m)'
    BY <1>2, ContinueCall DEF IsConfiguring
  <2>2. CASE UndoOta(c) \/ StoreReportConfig(c) \/ RollbackReportConfig(c)
    <3>1. call[c].op \in ConfigOp /\ pc[c] # "idle"
      BY <2>2 DEF UndoOta, StoreReportConfig, RollbackReportConfig, OtaInv,
                  LocationsFit, ConfigOp
    <3>2. call[c].motor # m
      BY <1>2, <3>1 DEF IsConfiguring
    <3>3. ota'[m] = ota[m] /\ report'[m] = report[m]
      BY <1>1, <2>2, <3>2 DEF UndoOta, StoreReportConfig, RollbackReportConfig, TypeOK
    <3>4. QED BY <1>2, <2>1, <3>3, ContinueCall, BystanderDebt
  <2>3. CASE ~(UndoOta(c) \/ StoreReportConfig(c) \/ RollbackReportConfig(c))
    <3>1. ota' = ota /\ report' = report
      BY <2>3 DEF Continue, StoreTarget, StoreNodeId, RefuseNodeId, RecordSent,
         RecordRefused, RecordManagementSent, RecordManagementRefused, RollbackTarget,
         RollbackNodeId, ApplyReset, PrepareOta, motorVars
    <3>2. QED BY <1>2, <2>1, <3>1, ContinueCall, BystanderDebt
  <2>4. QED BY <2>2, <2>3
<1>3. CASE IsConfiguring(c, m)
  <2>1. call[c].op \in ConfigOp
    BY <1>3 DEF IsConfiguring
  <2>2. \/ StoreReportConfig(c) \/ RecordSent(c) \/ RecordRefused(c)
        \/ RollbackReportConfig(c) \/ UndoOta(c) \/ PrepareOta(c)
    BY <2>1 DEF Continue, StoreTarget, StoreNodeId, RefuseNodeId, RecordManagementSent,
       RecordManagementRefused, RollbackTarget, RollbackNodeId, ApplyReset, ConfigOp,
       TargetOp, ManagementOp, OtaInv, LocationsFit
  <2>3. CASE PrepareOta(c)
    <3>1. /\ pc[c] = "prepare" /\ pc'[c] = "store" /\ ota' = ota /\ report' = report
      BY <1>1, <2>3 DEF PrepareOta, Goto, motorVars, TypeOK
    <3>2. /\ call'[c].op = call[c].op /\ call'[c].motor = call[c].motor
          /\ call'[c].active = call[c].active /\ call'[c].config = call[c].config
      BY <3>1, ContinueCall
    <3>3. ASSUME Owes(m)
          PROVE  CallReady(c, m)' /\ (ota'[m].active => ota'[m].restore_valid)
      <4>1. CallReady(c, m)
        BY <1>3, <3>3, ConfiguringReady
      <4>2. ota'[m] = ota[m] /\ owed'[m] = owed[m]
        BY <3>1
      <4>3. QED BY <3>1, <3>2, <3>3, <4>1, <4>2
                DEF CallReady, OtaCallReady, OtaInv, DebtInv
    <3>4. IsConfiguring(c, m)'
      BY <1>3, <3>1, <3>2 DEF IsConfiguring
    <3>5. QED BY <3>1, <3>3, <3>4, ContinueCall, DebtKept
  <2>4. QED BY <1>3, <2>2, <2>3, StoreReportConfigDebt, RecordReportConfigDebt,
               RollbackReportConfigDebt, UndoOtaDebt
<1>4. QED BY <1>2, <1>3

\* A send keeps the call, and what is cached, as they are.
LEMMA SendDebt ==
    ASSUME OtaInv, NEW c \in Caller, NEW accepted \in BOOLEAN,
           SendAndRemember(c, accepted)
    PROVE  /\ ConfiguringPermitted' /\ LocationsFit'
           /\ \A m \in Motor : DebtInv(m)'
<1>1. call[c] \in Call
  BY DEF OtaInv, TypeOK
<1>2. /\ pc[c] = "send" /\ pc'[c] = "record"
      /\ call'[c] = [call[c] EXCEPT !.accepted = accepted]
      /\ \A d \in Caller \ {c} : pc'[d] = pc[d] /\ call'[d] = call[d]
      /\ ota' = ota /\ report' = report /\ owed' = owed
  BY DEF SendAndRemember, Send, Goto, motorVars, OtaInv, TypeOK
<1>3. /\ call'[c].op = call[c].op /\ call'[c].motor = call[c].motor
      /\ call'[c].active = call[c].active /\ call'[c].config = call[c].config
  BY <1>1, <1>2 DEF Call
<1>4. call[c].op \in ConfigOp => call[c].op \in Ops[c]
  BY <1>2 DEF OtaInv, ConfiguringPermitted
<1>5. ConfiguringPermitted' /\ LocationsFit'
  BY <1>2, <1>3, <1>4, CallStepFits
<1>6. ASSUME NEW m \in Motor PROVE DebtInv(m)'
  <2>1. ota'[m] = ota[m] /\ report'[m] = report[m] /\ owed'[m] = owed[m]
    BY <1>2
  <2>2. IsConfiguring(c, m)' <=> IsConfiguring(c, m)
    BY <1>2, <1>3 DEF IsConfiguring
  <2>3. ASSUME Owes(m), IsConfiguring(c, m)
        PROVE  CallReady(c, m)'
    <3>1. CallReady(c, m)
      BY <2>3, ConfiguringReady
    <3>2. QED BY <1>2, <1>3, <2>1, <3>1 DEF CallReady, OtaCallReady
  <2>4. Owes(m) => (ota'[m].active => ota'[m].restore_valid)
    BY <2>1 DEF OtaInv, DebtInv
  <2>5. QED BY <1>2, <2>1, <2>2, <2>3, <2>4, DebtKept
<1>7. QED BY <1>5, <1>6

\* A received frame, or nothing at all, moves no call; a read-back that differs
\* cancels the debt.
LEMMA FrameDebt ==
    ASSUME OtaInv, UNCHANGED <<ota, callVars>>
    PROVE  /\ ConfiguringPermitted' /\ LocationsFit'
           /\ \A m \in Motor :
                report'[m] = report[m] /\ owed'[m] = owed[m] => DebtInv(m)'
<1>1. pc' = pc /\ call' = call /\ ota' = ota
  BY DEF callVars
<1>2. ConfiguringPermitted' /\ LocationsFit'
  BY <1>1 DEF OtaInv, ConfiguringPermitted, LocationsFit
<1>3. ASSUME NEW m \in Motor, report'[m] = report[m], owed'[m] = owed[m]
      PROVE  DebtInv(m)'
  <2>1. \A c \in Caller : /\ IsConfiguring(c, m)' <=> IsConfiguring(c, m)
                          /\ CallReady(c, m)' <=> CallReady(c, m)
    BY <1>1, <1>3 DEF IsConfiguring, CallReady, OtaCallReady
  <2>2. DebtInv(m)
    BY DEF OtaInv
  <2>3. QED BY <1>1, <1>3, <2>1, <2>2 DEF DebtInv, Owes
<1>4. QED BY <1>2, <1>3

\* A step that remembers keeps every debt, if it does so where the debt stays
\* what it was.
LEMMA RememberedDebt ==
    ASSUME OtaInv, OneThreadConfiguresReports, Remember, NEW m \in Motor,
           (\A c \in Caller : ~EnterOta(c, m)) /\ ~Cancels(m) /\ owed'[m] = owed[m]
             => DebtInv(m)'
    PROVE  DebtInv(m)'
<1>1. CASE owed'[m] = NotOwed
  BY <1>1 DEF DebtInv, Owes, NotOwed
<1>2. CASE \E c \in Caller :
             /\ EnterOta(c, m)
             /\ owed'[m] = [due |-> TRUE, known |-> "report_config" \in info[m].valid,
                            config |-> report[m]]
  BY <1>2, EnteredDebt
<1>3. QED BY <1>1, <1>2, DebtStep

\* Leaving OTA restores the reporting configuration the motor had on entry, if
\* it had been read back by then, whatever sends were refused on the way in or
\* out and whatever arrived meanwhile, for any number of motors and threads.
THEOREM KnownReportingIsRestored ==
    ASSUME OneThreadConfiguresReports
    PROVE  HistorySpec => []OtaRestoresKnownReporting
<1>1. HistoryInit => OtaInv
  <2>1. SUFFICES ASSUME HistoryInit PROVE OtaInv
    OBVIOUS
  <2>2. TypeOK
    BY <2>1, InitTypeOK DEF HistoryInit
  <2>3. ConfiguringPermitted /\ LocationsFit
    BY <2>1 DEF HistoryInit, Init, ConfiguringPermitted, LocationsFit
  <2>4. \A m \in Motor : DebtInv(m)
    BY <2>1 DEF HistoryInit, NotOwed, DebtInv, Owes
  <2>5. QED BY <2>2, <2>3, <2>4 DEF OtaInv
<1>2. OtaInv /\ [HistoryNext]_historyVars => OtaInv'
  <2>1. SUFFICES ASSUME OtaInv, [HistoryNext]_historyVars
                 PROVE  /\ ConfiguringPermitted' /\ LocationsFit'
                        /\ \A m \in Motor : DebtInv(m)'
    BY HistoryStepIsAStep, NextTypeOK DEF OtaInv
  <2>2. CASE \E c \in Caller : \E accepted \in BOOLEAN : SendAndRemember(c, accepted)
    BY <2>1, <2>2, SendDebt
  <2>3. ASSUME NEW c \in Caller, CallStep(c)
        PROVE  /\ ConfiguringPermitted' /\ LocationsFit'
               /\ \A m \in Motor : DebtInv(m)'
    <3>1. Remember /\ (Begin(c) \/ Continue(c))
      BY <2>3, CallStepIsACall
    <3>2. ConfiguringPermitted' /\ LocationsFit'
      BY <2>1, <3>1, BeginFits, ContinueFits
    <3>3. ASSUME NEW m \in Motor PROVE DebtInv(m)'
      BY <2>1, <3>1, RememberedDebt, BeginDebt, ContinueDebt
    <3>4. QED BY <3>2, <3>3
  <2>4. ASSUME NEW f \in RxFrame, ReceiveStep(f)
        PROVE  /\ ConfiguringPermitted' /\ LocationsFit'
               /\ \A m \in Motor : DebtInv(m)'
    <3>1. Remember /\ HandleCanFrame(f)
      BY <2>4, ReceiveStepIsAFrame
    <3>2. UNCHANGED <<ota, callVars>>
      BY <3>1 DEF HandleCanFrame, HandleAck, HandleReport, HandleManagementReport,
                  HandleManagementAck, motorVars
    <3>3. ASSUME NEW m \in Motor, ~Cancels(m)
          PROVE  report'[m] = report[m]
      BY <3>1, <3>3 DEF Cancels, HandleCanFrame, HandleReport, HandleManagementReport,
                        HandleManagementAck, motorVars
    <3>4. ASSUME NEW m \in Motor PROVE DebtInv(m)'
      BY <2>1, <3>1, <3>2, <3>3, FrameDebt, RememberedDebt
    <3>5. QED BY <2>1, <3>2, <3>4, FrameDebt
  <2>5. CASE UNCHANGED historyVars
    <3>1. UNCHANGED <<ota, callVars>> /\ report' = report /\ owed' = owed
      BY <2>5 DEF historyVars, vars, motorVars
    <3>2. QED BY <2>1, <3>1, FrameDebt
  <2>6. QED BY <2>1, <2>2, <2>3, <2>4, <2>5 DEF HistoryNext
<1>3. OtaInv => OtaRestoresKnownReporting
  BY DEF OtaInv, DebtInv, Owes, IsConfiguring, ConfigOp, Restored,
         OtaRestoresKnownReporting, Settled, InFlight
<1>4. QED BY <1>1, <1>2, <1>3, PTL DEF HistorySpec
=============================================================================
