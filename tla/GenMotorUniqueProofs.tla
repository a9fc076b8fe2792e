------------------------ MODULE GenMotorUniqueProofs ------------------------
(***************************************************************************)
(* No two motor objects claim one node ID, for any number of motors and    *)
(* threads and any traffic, as long as one thread changes node IDs and     *)
(* none configures motors by UID.  The run two_id_callers shows that the   *)
(* hypothesis is needed.                                                   *)
(***************************************************************************)
EXTENDS GenMotorProofs

\* The hypothesis of the theorem.
OneThreadChangesNodeIds ==
    /\ \A c \in Caller : "configure_by_uid" \notin Ops[c]
    /\ \A c, d \in Caller :
         "set_node_id" \in Ops[c] /\ "set_node_id" \in Ops[d] => c = d

-----------------------------------------------------------------------------
(* The invariant.                                                            *)
(*                                                                           *)
(* NodeIdsUnique is not inductive alone: the roll-back of a refused          *)
(* set_node_id revives the claim that was pending before it, without looking *)
(* at the table.  So the claim a call has saved must still be free when the  *)
(* call puts it back: nobody else grants claims meanwhile, and the other     *)
(* steps only give claims up.                                                *)

\* A thread is in a call it may make.
CallsPermitted ==
    \A c \in Caller :
      /\ call[c].op = "set_node_id" => "set_node_id" \in Ops[c]
      /\ call[c].op # "configure_by_uid"

\* A saved claim belongs to a set_node_id under way, and no other motor object
\* has it.
SavedClaimsFree ==
    \A c \in Caller : saved[c].pending_node_id_change =>
      /\ pc[c] # "idle"
      /\ call[c].op = "set_node_id"
      /\ \A m \in Motor \ {call[c].motor} :
           saved[c].requested_node_id \in Claims(m)
             => saved[c].requested_node_id = MANAGEMENT_NODE_ID

\* The acknowledgement of a configure_by_uid is not awaited.
NoConfigureAwaited ==
    management.pending_valid => management.pending_cmd # MANAGEMENT_CONFIGURE_ID

UniqueInv ==
    /\ TypeOK
    /\ NodeIdsUnique
    /\ CallsPermitted
    /\ SavedClaimsFree
    /\ NoConfigureAwaited

-----------------------------------------------------------------------------
(* Claims. *)

\* The claims of a motor object with address a.
ClaimedBy(a) ==
    {a.node_id} \cup (IF a.pending_node_id_change THEN {a.requested_node_id} ELSE {})

LEMMA ClaimsAre == \A m \in Motor : /\ Claims(m) = ClaimedBy(addr[m])
                                    /\ Claims(m)' = ClaimedBy(addr'[m])
BY DEF Claims, ClaimedBy

\* No update but a request and a roll-back adds a claim to a business node ID.
LEMMA UpdatedClaims ==
    ASSUME NEW a \in Address
    PROVE  /\ \A n : ClaimedBy(AfterNodeIdRequest(a, n)) \subseteq ClaimedBy(a) \cup {n}
           /\ \A s : ClaimedBy(AfterNodeIdRollback(a, s)) \subseteq
                       ClaimedBy(a) \cup (IF s.pending_node_id_change
                                          THEN {s.requested_node_id} ELSE {})
           /\ ClaimedBy(Unconfigured(a)) = {MANAGEMENT_NODE_ID}
           /\ \A f : ClaimedBy(AfterNodeIdAck(a, f)) \subseteq ClaimedBy(a)
<1>1. \A n : ClaimedBy(AfterNodeIdRequest(a, n)) \subseteq ClaimedBy(a) \cup {n}
  BY DEF ClaimedBy, AfterNodeIdRequest, Address
<1>2. \A s : ClaimedBy(AfterNodeIdRollback(a, s)) \subseteq
               ClaimedBy(a) \cup (IF s.pending_node_id_change
                                  THEN {s.requested_node_id} ELSE {})
  BY DEF ClaimedBy, AfterNodeIdRollback, Address
<1>3. ClaimedBy(Unconfigured(a)) = {MANAGEMENT_NODE_ID}
  BY DEF ClaimedBy, Unconfigured, Address
<1>4. \A f : ClaimedBy(AfterNodeIdAck(a, f)) \subseteq ClaimedBy(a)
  BY DEF ClaimedBy, AfterNodeIdAck, Address
<1>5. QED BY <1>1, <1>2, <1>3, <1>4

\* A step that gives motor m the address a, whose claims no other motor object
\* has, keeps the claims apart and adds to those of m at most the claims of a.
LEMMA ClaimsUpdate ==
    ASSUME TypeOK, NodeIdsUnique, NEW m \in Motor, NEW a,
           addr' = [addr EXCEPT ![m] = a],
           \A k \in Motor \ {m} :
             ClaimedBy(a) \cap ClaimedBy(addr[k]) \subseteq {MANAGEMENT_NODE_ID}
    PROVE  NodeIdsUnique'
<1>1. addr'[m] = a /\ \A k \in Motor \ {m} : addr'[k] = addr[k]
  BY DEF TypeOK
<1>2. \A k1, k2 \in Motor :
        k1 # k2 => ClaimedBy(addr'[k1]) \cap ClaimedBy(addr'[k2])
                     \subseteq {MANAGEMENT_NODE_ID}
  <2>1. TAKE k1, k2 \in Motor
  <2>2. HAVE k1 # k2
  <2>3. CASE k1 = m
    BY <1>1, <2>2, <2>3
  <2>4. CASE k2 = m
    BY <1>1, <2>2, <2>4
  <2>5. CASE k1 # m /\ k2 # m
    <3>1. Claims(k1) \cap Claims(k2) \subseteq {MANAGEMENT_NODE_ID}
      BY <2>2 DEF NodeIdsUnique
    <3>2. QED BY <1>1, <2>5, <3>1, ClaimsAre
  <2>6. QED BY <2>3, <2>4, <2>5
<1>3. QED BY <1>2, ClaimsAre DEF NodeIdsUnique

\* What gives up claims, the shared management ID apart, keeps them unique.
LEMMA ClaimsGivenUp ==
    ASSUME TypeOK, NodeIdsUnique, NEW m \in Motor, NEW a,
           addr' = [addr EXCEPT ![m] = a],
           ClaimedBy(a) \subseteq ClaimedBy(addr[m]) \cup {MANAGEMENT_NODE_ID}
    PROVE  /\ NodeIdsUnique'
           /\ \A k \in Motor : Claims(k)' \subseteq Claims(k) \cup {MANAGEMENT_NODE_ID}
<1>1. \A k \in Motor \ {m} :
        ClaimedBy(a) \cap ClaimedBy(addr[k]) \subseteq {MANAGEMENT_NODE_ID}
  <2>1. TAKE k \in Motor \ {m}
  <2>2. ClaimedBy(addr[m]) \cap ClaimedBy(addr[k]) \subseteq {MANAGEMENT_NODE_ID}
    BY ClaimsAre DEF NodeIdsUnique
  <2>3. QED BY <2>2
<1>2. NodeIdsUnique'
  BY <1>1, ClaimsUpdate
<1>3. ASSUME NEW k \in Motor
      PROVE  Claims(k)' \subseteq Claims(k) \cup {MANAGEMENT_NODE_ID}
  <2>1. CASE k = m
    <3>1. addr'[m] = a
      BY DEF TypeOK
    <3>2. QED BY <2>1, <3>1, ClaimsAre
  <2>2. CASE k # m
    <3>1. addr'[k] = addr[k]
      BY <2>2 DEF TypeOK
    <3>2. QED BY <3>1, ClaimsAre
  <2>3. QED BY <2>1, <2>2
<1>4. QED BY <1>2, <1>3

\* Saved claims stay free while the others only give claims up.
LEMMA SavedClaimsKept ==
    ASSUME SavedClaimsFree,
           \A m \in Motor : Claims(m)' \subseteq Claims(m) \cup {MANAGEMENT_NODE_ID},
           \A c \in Caller : saved'[c].pending_node_id_change =>
             /\ saved[c].pending_node_id_change
             /\ saved'[c].requested_node_id = saved[c].requested_node_id
             /\ pc'[c] # "idle"
             /\ call'[c].op = call[c].op
             /\ call'[c].motor = call[c].motor
    PROVE  SavedClaimsFree'
<1>1. SUFFICES ASSUME NEW c \in Caller, saved'[c].pending_node_id_change
               PROVE  /\ pc'[c] # "idle"
                      /\ call'[c].op = "set_node_id"
                      /\ \A m \in Motor \ {call'[c].motor} :
                           saved'[c].requested_node_id \in Claims(m)'
                             => saved'[c].requested_node_id = MANAGEMENT_NODE_ID
  BY DEF SavedClaimsFree
<1>2. /\ call[c].op = "set_node_id"
      /\ \A m \in Motor \ {call[c].motor} :
           saved[c].requested_node_id \in Claims(m)
             => saved[c].requested_node_id = MANAGEMENT_NODE_ID
  BY <1>1 DEF SavedClaimsFree
<1>3. QED BY <1>1, <1>2

\* A step that leaves the addresses alone keeps claims as they are.
LEMMA ClaimsUnchanged ==
    ASSUME addr' = addr
    PROVE  /\ \A m \in Motor : Claims(m)' = Claims(m)
           /\ NodeIdsUnique => NodeIdsUnique'
<1>1. \A m \in Motor : Claims(m)' = Claims(m)
  BY DEF Claims
<1>2. QED BY <1>1 DEF NodeIdsUnique

-----------------------------------------------------------------------------
(* The steps. *)

\* Returning from a call.
LEMMA ReturnUniqueInv ==
    ASSUME TypeOK, CallsPermitted, NEW c \in Caller, Return(c)
    PROVE  /\ CallsPermitted'
           /\ \A d \in Caller : saved'[d].pending_node_id_change =>
                /\ saved[d].pending_node_id_change
                /\ saved'[d].requested_node_id = saved[d].requested_node_id
                /\ pc'[d] = pc[d]
                /\ call'[d] = call[d]
BY DEF TypeOK, CallsPermitted, Return, Goto, NoCall, NoSaved

\* The driver starts with distinct node IDs and no change pending.
LEMMA InitUniqueInv == Init => UniqueInv
<1>1. SUFFICES ASSUME Init PROVE UniqueInv
  OBVIOUS
<1>2. TypeOK
  BY <1>1, InitTypeOK
<1>3. NodeIdsUnique
  <2>1. \A m \in Motor : Claims(m) = {DefaultNodeId[m]}
    BY <1>1 DEF Init, Claims
  <2>2. QED BY <2>1, DevicetreeAssumption DEF NodeIdsUnique
<1>4. CallsPermitted /\ SavedClaimsFree
  BY <1>1 DEF Init, CallsPermitted, SavedClaimsFree, NoCall, NoSaved
<1>5. NoConfigureAwaited
  BY <1>1 DEF Init, NoConfigureAwaited
<1>6. QED BY <1>2, <1>3, <1>4, <1>5 DEF UniqueInv

\* A call begins when nothing is saved, and is one the thread may make.
LEMMA BeginUniqueInv ==
    ASSUME UniqueInv, OneThreadChangesNodeIds, NEW c \in Caller, Begin(c)
    PROVE  UniqueInv'
<1> USE DEF UniqueInv
<1>1. TypeOK'
  BY BeginTypeOK
<1>2. addr' = addr /\ saved' = saved /\ management' = management /\ pc[c] = "idle"
  <2>1. ASSUME NEW k, Prepare(c, k) \/ PrepareManagement(c, k)
        PROVE  addr' = addr /\ saved' = saved /\ management' = management
               /\ pc[c] = "idle"
    BY <2>1 DEF Prepare, PrepareManagement, motorVars, MayCall
  <2>2. ASSUME NEW m, EnterOta(c, m) \/ ExitOtaAndRestore(c, m)
                        \/ ExitOtaWithoutRestoring(c, m)
        PROVE  addr' = addr /\ saved' = saved /\ management' = management
               /\ pc[c] = "idle"
    BY <2>2 DEF EnterOta, ExitOtaAndRestore, ExitOtaWithoutRestoring, callVars, MayCall
  <2>3. QED BY <2>1, <2>2, Zenon DEF Begin
<1>3. \A d \in Caller \ {c} : pc'[d] = pc[d] /\ call'[d] = call[d]
  <2>1. ASSUME NEW k, Prepare(c, k) \/ PrepareManagement(c, k)
        PROVE  \A d \in Caller \ {c} : pc'[d] = pc[d] /\ call'[d] = call[d]
    BY <2>1 DEF Prepare, PrepareManagement, Goto, TypeOK
  <2>2. ASSUME NEW m, EnterOta(c, m) \/ ExitOtaAndRestore(c, m)
        PROVE  \A d \in Caller \ {c} : pc'[d] = pc[d] /\ call'[d] = call[d]
    BY <2>2 DEF EnterOta, ExitOtaAndRestore, CallSetReportConfig, Goto, TypeOK
  <2>3. ASSUME NEW m, ExitOtaWithoutRestoring(c, m)
        PROVE  \A d \in Caller \ {c} : pc'[d] = pc[d] /\ call'[d] = call[d]
    BY <2>3 DEF ExitOtaWithoutRestoring, callVars
  <2>4. QED BY <2>1, <2>2, <2>3, Zenon DEF Begin
<1>4. /\ call'[c].op = "set_node_id" => "set_node_id" \in Ops[c]
      /\ call'[c].op # "configure_by_uid"
  <2>1. CASE \E k \in MotorCalls : Prepare(c, k)
    <3>1. PICK k \in MotorCalls : Prepare(c, k)
      BY <2>1
    <3>2. DEFINE kk == [k EXCEPT !.node_id = addr[k.motor].node_id]
    <3>3. k \in Call /\ k.op \in Ops[c]
      BY <3>1, CallsType DEF Prepare, MayCall
    <3>4. kk.op = k.op
      BY <3>3 DEF Call
    <3>5. call' = [call EXCEPT ![c] = kk]
      BY <3>1 DEF Prepare
    <3>6. HIDE DEF kk
    <3>7. call'[c].op = k.op
      BY <3>4, <3>5 DEF TypeOK
    <3>8. QED BY <3>3, <3>7, CallOps DEF MotorOp, ManagementOp
  <2>2. CASE \E k \in ManagementCalls : PrepareManagement(c, k)
    <3>1. PICK k \in ManagementCalls : PrepareManagement(c, k)
      BY <2>2
    <3>2. DEFINE kk == [k EXCEPT !.node_id = MANAGEMENT_NODE_ID]
    <3>3. k \in Call /\ k.op \in Ops[c]
      BY <3>1, CallsType DEF PrepareManagement, MayCall
    <3>4. kk.op = k.op
      BY <3>3 DEF Call
    <3>5. call' = [call EXCEPT ![c] = kk]
      BY <3>1 DEF PrepareManagement
    <3>6. HIDE DEF kk
    <3>7. call'[c].op = k.op
      BY <3>4, <3>5 DEF TypeOK
    <3>8. k.op # "configure_by_uid"
      BY <3>3 DEF OneThreadChangesNodeIds
    <3>9. QED BY <3>3, <3>7, <3>8
  <2>3. ASSUME NEW m \in Motor, EnterOta(c, m) \/ ExitOtaAndRestore(c, m)
        PROVE  call'[c].op = "set_ota_state"
    <3>1. CASE EnterOta(c, m)
      <4>1. DEFINE k == [CallOf("set_ota_state", m) EXCEPT
                           !.active = TRUE,
                           !.config = [enabled |-> FALSE,
                                       period |-> ClampPeriod(report[m].period)]]
      <4>2. k.op = "set_ota_state"
        BY CallOfType DEF Op, Call
      <4>3. call' = [call EXCEPT ![c] = k]
        BY <3>1 DEF EnterOta, CallSetReportConfig
      <4>4. HIDE DEF k
      <4>5. QED BY <4>2, <4>3 DEF TypeOK
    <3>2. CASE ExitOtaAndRestore(c, m)
      <4>1. DEFINE k == [CallOf("set_ota_state", m) EXCEPT
                           !.config = [ota[m].before EXCEPT !.period = ClampPeriod(@)]]
      <4>2. k.op = "set_ota_state"
        BY CallOfType DEF Op, Call
      <4>3. call' = [call EXCEPT ![c] = k]
        BY <3>2 DEF ExitOtaAndRestore, CallSetReportConfig
      <4>4. HIDE DEF k
      <4>5. QED BY <4>2, <4>3 DEF TypeOK
    <3>3. QED BY <2>3, <3>1, <3>2
  <2>4. ASSUME NEW m \in Motor, ExitOtaWithoutRestoring(c, m)
        PROVE  call'[c] = call[c]
    BY <2>4 DEF ExitOtaWithoutRestoring, callVars
  <2>5. CASE \E m \in Motor : \/ EnterOta(c, m)
                              \/ ExitOtaAndRestore(c, m)
                              \/ ExitOtaWithoutRestoring(c, m)
    BY <2>3, <2>4, <2>5 DEF CallsPermitted
  <2>6. QED BY <2>1, <2>2, <2>5, Zenon DEF Begin
<1>5. CallsPermitted'
  BY <1>3, <1>4 DEF CallsPermitted
<1>6. \A d \in Caller : saved[d].pending_node_id_change => d # c
  BY <1>2 DEF SavedClaimsFree
<1>7. SavedClaimsFree'
  <2>1. \A d \in Caller : saved'[d].pending_node_id_change =>
          /\ saved[d].pending_node_id_change
          /\ saved'[d].requested_node_id = saved[d].requested_node_id
          /\ pc'[d] # "idle"
          /\ call'[d].op = call[d].op
          /\ call'[d].motor = call[d].motor
    BY <1>2, <1>3, <1>6 DEF SavedClaimsFree
  <2>2. \A m \in Motor : Claims(m)' \subseteq Claims(m) \cup {MANAGEMENT_NODE_ID}
    BY <1>2, ClaimsUnchanged
  <2>3. QED BY <2>1, <2>2, SavedClaimsKept
<1>8. NodeIdsUnique'
  BY <1>2, ClaimsUnchanged
<1>9. QED BY <1>1, <1>2, <1>5, <1>7, <1>8 DEF NoConfigureAwaited

\* A request is granted when nobody else claims the ID, and the pair it saves
\* is the motor's own.
LEMMA StoreNodeIdUniqueInv ==
    ASSUME UniqueInv, OneThreadChangesNodeIds, NEW c \in Caller, StoreNodeId(c)
    PROVE  UniqueInv'
<1> DEFINE m == call[c].motor
           n == call[c].new_node_id
           a == AfterNodeIdRequest(addr[m], n)
<1> USE DEF UniqueInv
<1>1. TypeOK'
  BY ContinueTypeOK DEF Continue
<1>2. m \in Motor /\ addr[m] \in Address /\ saved[c] \in Saved
  BY DEF TypeOK, Call
<1>3. addr' = [addr EXCEPT ![m] = a]
  BY DEF StoreNodeId
<1>4. ClaimedBy(a) \subseteq ClaimedBy(addr[m]) \cup {n}
  BY <1>2, UpdatedClaims
<1>5. \A k \in Motor \ {m} : n \notin ClaimedBy(addr[k])
  BY ClaimsAre DEF StoreNodeId, NodeIdIsReserved
<1>6. \A k \in Motor \ {m} :
        ClaimedBy(addr[m]) \cap ClaimedBy(addr[k]) \subseteq {MANAGEMENT_NODE_ID}
  BY <1>2, ClaimsAre DEF NodeIdsUnique
<1>7. NodeIdsUnique'
  <2> HIDE DEF a, n
  <2>1. \A k \in Motor \ {m} :
          ClaimedBy(a) \cap ClaimedBy(addr[k]) \subseteq {MANAGEMENT_NODE_ID}
    BY <1>4, <1>5, <1>6
  <2>2. QED BY <1>2, <1>3, <2>1, ClaimsUpdate
<1>8. call' = call /\ management' = management /\ pc'[c] = "send"
  BY DEF StoreNodeId, Goto, TypeOK
<1>9. \A d \in Caller : saved'[d].pending_node_id_change => d = c
  <2>1. \A d \in Caller \ {c} : saved'[d] = saved[d]
    BY DEF StoreNodeId, TypeOK
  <2>2. call[c].op = "set_node_id"
    BY DEF StoreNodeId
  <2>3. QED BY <2>1, <2>2 DEF SavedClaimsFree, CallsPermitted, OneThreadChangesNodeIds
<1>10. /\ saved'[c].pending_node_id_change = addr[m].pending_node_id_change
       /\ saved'[c].requested_node_id = addr[m].requested_node_id
  BY <1>2 DEF StoreNodeId, TypeOK, Saved
<1>11. SavedClaimsFree'
  <2>1. SUFFICES ASSUME saved'[c].pending_node_id_change,
                        NEW k \in Motor \ {m},
                        saved'[c].requested_node_id \in Claims(k)'
                 PROVE  saved'[c].requested_node_id = MANAGEMENT_NODE_ID
    BY <1>8, <1>9 DEF SavedClaimsFree, StoreNodeId
  <2>2. saved'[c].requested_node_id \in ClaimedBy(addr[m])
    BY <1>10, <2>1 DEF ClaimedBy
  <2>3. Claims(k)' = ClaimedBy(addr[k])
    BY <1>3, ClaimsAre DEF TypeOK
  <2>4. QED BY <1>6, <2>1, <2>2, <2>3
<1>12. QED BY <1>1, <1>7, <1>8, <1>11 DEF CallsPermitted, NoConfigureAwaited

\* A roll-back revives a claim nobody else has taken meanwhile.
LEMMA RollbackNodeIdUniqueInv ==
    ASSUME UniqueInv, OneThreadChangesNodeIds, NEW c \in Caller, RollbackNodeId(c)
    PROVE  UniqueInv'
<1> DEFINE m == call[c].motor
           s == saved[c]
           a == AfterNodeIdRollback(addr[m], s)
<1> USE DEF UniqueInv
<1>1. TypeOK'
  BY ContinueTypeOK DEF Continue
<1>2. m \in Motor /\ addr[m] \in Address /\ s \in Saved
  BY DEF TypeOK, Call
<1>3. addr' = [addr EXCEPT ![m] = a]
  BY DEF RollbackNodeId
<1>4. ClaimedBy(a) \subseteq ClaimedBy(addr[m]) \cup
        (IF s.pending_node_id_change THEN {s.requested_node_id} ELSE {})
  BY <1>2, UpdatedClaims
<1>5. \A k \in Motor \ {m} :
        ClaimedBy(addr[m]) \cap ClaimedBy(addr[k]) \subseteq {MANAGEMENT_NODE_ID}
  BY <1>2, ClaimsAre DEF NodeIdsUnique
<1>6. s.pending_node_id_change =>
        \A k \in Motor \ {m} :
          s.requested_node_id \in ClaimedBy(addr[k])
            => s.requested_node_id = MANAGEMENT_NODE_ID
  BY ClaimsAre DEF SavedClaimsFree
<1>7. NodeIdsUnique'
  <2> HIDE DEF a, s
  <2>1. \A k \in Motor \ {m} :
          ClaimedBy(a) \cap ClaimedBy(addr[k]) \subseteq {MANAGEMENT_NODE_ID}
    BY <1>4, <1>5, <1>6
  <2>2. QED BY <1>2, <1>3, <2>1, ClaimsUpdate
<1>8. Return(c) /\ management' = management
  BY DEF RollbackNodeId
<1>9. \A d \in Caller : ~saved'[d].pending_node_id_change
  <2>1. saved' = [saved EXCEPT ![c] = NoSaved]
    BY <1>8 DEF Return
  <2>2. \A d \in Caller \ {c} : saved'[d] = saved[d]
    BY <2>1 DEF TypeOK
  <2>3. saved'[c] = NoSaved
    BY <2>1 DEF TypeOK
  <2>4. call[c].op = "set_node_id"
    BY DEF RollbackNodeId
  <2>5. QED BY <2>2, <2>3, <2>4
            DEF SavedClaimsFree, CallsPermitted, OneThreadChangesNodeIds, NoSaved
<1>10. SavedClaimsFree'
  BY <1>9 DEF SavedClaimsFree
<1>11. CallsPermitted'
  BY <1>8, ReturnUniqueInv
<1>12. QED BY <1>1, <1>7, <1>8, <1>10, <1>11 DEF NoConfigureAwaited

\* A reset gives up what the motor object claimed.
LEMMA ApplyResetUniqueInv ==
    ASSUME UniqueInv, NEW c \in Caller, ApplyReset(c)
    PROVE  UniqueInv'
<1> DEFINE m == call[c].motor
           a == Unconfigured(addr[m])
<1> USE DEF UniqueInv
<1>1. TypeOK'
  BY ContinueTypeOK DEF Continue
<1>2. m \in Motor /\ addr[m] \in Address
  BY DEF TypeOK, Call
<1>3. addr' = [addr EXCEPT ![m] = a]
  BY DEF ApplyReset
<1>4. ClaimedBy(a) \subseteq ClaimedBy(addr[m]) \cup {MANAGEMENT_NODE_ID}
  BY <1>2, UpdatedClaims
<1>5. /\ NodeIdsUnique'
      /\ \A k \in Motor : Claims(k)' \subseteq Claims(k) \cup {MANAGEMENT_NODE_ID}
  <2> HIDE DEF a
  <2> QED BY <1>2, <1>3, <1>4, ClaimsGivenUp
<1>6. Return(c) /\ management' = management
  BY DEF ApplyReset
<1>7. CallsPermitted'
  BY <1>6, ReturnUniqueInv
<1>8. SavedClaimsFree'
  BY <1>5, <1>6, ReturnUniqueInv, SavedClaimsKept DEF SavedClaimsFree
<1>9. QED BY <1>1, <1>5, <1>6, <1>7, <1>8 DEF NoConfigureAwaited

\* The other steps of a call change no address and save no claim.
LEMMA ContinueUniqueInv ==
    ASSUME UniqueInv, OneThreadChangesNodeIds, NEW c \in Caller, Continue(c)
    PROVE  UniqueInv'
<1> USE DEF UniqueInv
<1>1. CASE StoreNodeId(c)
  BY <1>1, StoreNodeIdUniqueInv
<1>2. CASE RollbackNodeId(c)
  BY <1>2, RollbackNodeIdUniqueInv
<1>3. CASE ApplyReset(c)
  BY <1>3, ApplyResetUniqueInv
<1>4. TypeOK'
  BY ContinueTypeOK
<1>5. ASSUME addr' = addr, CallsPermitted', NoConfigureAwaited',
             \A d \in Caller : saved'[d].pending_node_id_change =>
               /\ saved[d].pending_node_id_change
               /\ saved'[d].requested_node_id = saved[d].requested_node_id
               /\ pc'[d] # "idle"
               /\ call'[d].op = call[d].op
               /\ call'[d].motor = call[d].motor
      PROVE  UniqueInv'
  <2>1. NodeIdsUnique'
        /\ \A m \in Motor : Claims(m)' \subseteq Claims(m) \cup {MANAGEMENT_NODE_ID}
    BY <1>5, ClaimsUnchanged
  <2>2. SavedClaimsFree'
    BY <1>5, <2>1, SavedClaimsKept
  <2>3. QED BY <1>4, <1>5, <2>1, <2>2
<1>6. CASE StoreTarget(c) \/ StoreReportConfig(c)
  <2>1. addr' = addr /\ call' = call /\ management' = management
    BY <1>6 DEF StoreTarget, StoreReportConfig
  <2>2. \A d \in Caller : pc'[d] = pc[d] \/ pc'[d] = "send"
    BY <1>6 DEF StoreTarget, StoreReportConfig, Goto, TypeOK
  <2>3. \A d \in Caller :
          /\ saved'[d].pending_node_id_change = saved[d].pending_node_id_change
          /\ saved'[d].requested_node_id = saved[d].requested_node_id
    <3>1. CASE StoreTarget(c)
      BY <3>1 DEF StoreTarget, TypeOK, Saved
    <3>2. CASE StoreReportConfig(c)
      BY <3>2 DEF StoreReportConfig, TypeOK, Saved
    <3>3. QED BY <1>6, <3>1, <3>2
  <2>4. \A d \in Caller : saved'[d].pending_node_id_change =>
          saved[d].pending_node_id_change /\ pc'[d] # "idle"
    BY <2>2, <2>3 DEF SavedClaimsFree
  <2>5. CallsPermitted' /\ NoConfigureAwaited'
    BY <2>1 DEF CallsPermitted, NoConfigureAwaited
  <2>6. QED BY <1>5, <2>1, <2>3, <2>4, <2>5
<1>7. CASE PrepareOta(c)
  <2>1. addr' = addr /\ saved' = saved /\ management' = management
    BY <1>7 DEF PrepareOta, motorVars
  <2>2. \A d \in Caller : /\ call'[d].op = call[d].op
                          /\ call'[d].motor = call[d].motor
    BY <1>7 DEF PrepareOta, TypeOK, Call
  <2>3. \A d \in Caller : pc'[d] = pc[d] \/ pc'[d] = "store"
    BY <1>7 DEF PrepareOta, Goto, TypeOK
  <2>4. CallsPermitted' /\ NoConfigureAwaited'
    BY <2>1, <2>2 DEF CallsPermitted, NoConfigureAwaited
  <2>5. \A d \in Caller : saved'[d].pending_node_id_change => pc'[d] # "idle"
    BY <2>1, <2>3 DEF SavedClaimsFree
  <2>6. QED BY <1>5, <2>1, <2>2, <2>4, <2>5
<1>8. CASE \/ RefuseNodeId(c) \/ RecordSent(c) \/ RecordRefused(c)
           \/ RecordManagementSent(c) \/ RecordManagementRefused(c)
           \/ RollbackTarget(c) \/ RollbackReportConfig(c) \/ UndoOta(c)
  <2>1. addr' = addr
    BY <1>8 DEF RefuseNodeId, RecordSent, RecordRefused, RecordManagementSent,
                RecordManagementRefused, RollbackTarget, RollbackReportConfig, UndoOta,
                motorVars
  <2>2. \/ Return(c)
        \/ /\ UNCHANGED <<call, saved>>
           /\ pc' = [pc EXCEPT ![c] = pc'[c]]
           /\ pc'[c] # "idle"
    BY <1>8 DEF RefuseNodeId, RecordSent, RecordRefused, RecordManagementSent,
                RecordManagementRefused, RollbackTarget, RollbackReportConfig, UndoOta,
                Goto, TypeOK
  <2>3. \A d \in Caller : saved'[d].pending_node_id_change =>
          /\ saved[d].pending_node_id_change
          /\ saved'[d].requested_node_id = saved[d].requested_node_id
          /\ pc'[d] # "idle"
          /\ call'[d].op = call[d].op
          /\ call'[d].motor = call[d].motor
    <3>1. CASE Return(c)
      BY <3>1, ReturnUniqueInv DEF SavedClaimsFree
    <3>2. CASE /\ UNCHANGED <<call, saved>>
               /\ pc' = [pc EXCEPT ![c] = pc'[c]]
               /\ pc'[c] # "idle"
      <4>1. \A d \in Caller : pc'[d] = pc[d] \/ pc'[d] # "idle"
        BY <3>2 DEF TypeOK
      <4>2. QED BY <3>2, <4>1 DEF SavedClaimsFree
    <3>3. QED BY <2>2, <3>1, <3>2
  <2>4. CallsPermitted'
    BY <2>2, ReturnUniqueInv DEF CallsPermitted
  <2>5. NoConfigureAwaited'
    <3>1. CASE RecordManagementSent(c)
      <4>1. call[c].op = "identify_by_uid"
        BY <3>1 DEF RecordManagementSent, ManagementOp, CallsPermitted
      <4>2. Command(call[c].op) # MANAGEMENT_CONFIGURE_ID
        BY <4>1 DEF Command, MANAGEMENT_IDENTIFY, MANAGEMENT_CONFIGURE_ID
      <4>3. management'.pending_cmd = Command(call[c].op)
        BY <3>1 DEF RecordManagementSent, TypeOK, Management
      <4>4. QED BY <4>2, <4>3 DEF NoConfigureAwaited
    <3>2. CASE ~RecordManagementSent(c)
      <4>1. management' = management
        BY <1>8, <3>2 DEF RefuseNodeId, RecordSent, RecordRefused,
              RecordManagementRefused, RollbackTarget, RollbackReportConfig, UndoOta
      <4>2. QED BY <4>1 DEF NoConfigureAwaited
    <3>3. QED BY <3>1, <3>2
  <2>6. QED BY <1>5, <2>1, <2>3, <2>4, <2>5
<1>9. QED BY <1>1, <1>2, <1>3, <1>6, <1>7, <1>8 DEF Continue

\* The answer of the transport touches no address and no saved claim.
LEMMA SendUniqueInv ==
    ASSUME UniqueInv, NEW c \in Caller, NEW accepted \in BOOLEAN, Send(c, accepted)
    PROVE  UniqueInv'
<1> USE DEF UniqueInv
<1>1. TypeOK'
  BY SendTypeOK
<1>2. addr' = addr /\ saved' = saved /\ management' = management
  BY DEF Send, motorVars
<1>3. \A d \in Caller : call'[d].op = call[d].op /\ call'[d].motor = call[d].motor
  BY DEF Send, TypeOK, Call
<1>4. \A d \in Caller : pc'[d] = pc[d] \/ pc'[d] = "record"
  BY DEF Send, Goto, TypeOK
<1>5. CallsPermitted' /\ NoConfigureAwaited'
  BY <1>2, <1>3 DEF CallsPermitted, NoConfigureAwaited
<1>6. \A d \in Caller : saved'[d].pending_node_id_change => pc'[d] # "idle"
  BY <1>2, <1>4 DEF SavedClaimsFree
<1>7. NodeIdsUnique'
      /\ \A m \in Motor : Claims(m)' \subseteq Claims(m) \cup {MANAGEMENT_NODE_ID}
  BY <1>2, ClaimsUnchanged
<1>8. SavedClaimsFree'
  BY <1>2, <1>3, <1>6, <1>7, SavedClaimsKept
<1>9. QED BY <1>1, <1>5, <1>7, <1>8

\* A received frame gives no motor object a node ID it has not claimed.
LEMMA HandleCanFrameUniqueInv ==
    ASSUME UniqueInv, NEW f \in Frame, HandleCanFrame(f)
    PROVE  UniqueInv'
<1> USE DEF UniqueInv
<1>1. TypeOK'
  BY HandleCanFrameTypeOK
<1>2. pc' = pc /\ call' = call /\ saved' = saved
  BY DEF HandleCanFrame, HandleAck, HandleReport, HandleManagementReport,
         HandleManagementAck, callVars
<1>3. CallsPermitted'
  BY <1>2 DEF CallsPermitted
<1>4. NoConfigureAwaited'
  <2>1. CASE HandleAck(f) \/ HandleReport(f)
    BY <2>1 DEF HandleAck, HandleReport, NoConfigureAwaited
  <2>2. CASE HandleManagementReport(f) \/ HandleManagementAck(f)
    BY <2>2 DEF HandleManagementReport, HandleManagementAck, NoConfigureAwaited,
                TypeOK, Management
  <2>3. QED BY <2>1, <2>2 DEF HandleCanFrame
<1>5. /\ NodeIdsUnique'
      /\ \A k \in Motor : Claims(k)' \subseteq Claims(k) \cup {MANAGEMENT_NODE_ID}
  <2>1. CASE HandleAck(f)
    <3>1. DEFINE m == FindByAnyNode(DecodeFrameId(f.id).node_id)
    <3>2. m \in Motor
      BY <2>1, FindByAnyNodeType DEF HandleAck
    <3>3. addr' = [addr EXCEPT ![m] = AfterNodeIdAck(addr[m], f)]
      BY <2>1 DEF HandleAck
    <3>4. HIDE DEF m
    <3>5. ClaimedBy(AfterNodeIdAck(addr[m], f)) \subseteq ClaimedBy(addr[m])
      BY <3>2, UpdatedClaims DEF TypeOK
    <3>6. QED BY <3>2, <3>3, <3>5, ClaimsGivenUp
  <2>2. CASE HandleManagementAck(f)
    <3>1. ~Configures(f)
      BY <2>2 DEF HandleManagementAck, Configures, Acknowledges, NoConfigureAwaited
    <3>2. addr' = [addr EXCEPT ![0] = addr[0]]
      BY <2>2, <3>1 DEF HandleManagementAck, AfterConfigureAck
    <3>3. addr' = addr
      BY <3>2 DEF TypeOK
    <3>4. QED BY <3>3, ClaimsUnchanged
  <2>3. CASE HandleReport(f) \/ HandleManagementReport(f)
    <3>1. addr' = addr
      BY <2>3 DEF HandleReport, HandleManagementReport, motorVars
    <3>2. QED BY <3>1, ClaimsUnchanged
  <2>4. QED BY <2>1, <2>2, <2>3 DEF HandleCanFrame
<1>6. SavedClaimsFree'
  BY <1>2, <1>5, SavedClaimsKept DEF SavedClaimsFree
<1>7. QED BY <1>1, <1>3, <1>4, <1>5, <1>6

\* A step of something else changes nothing of the driver.
LEMMA StutterUniqueInv ==
    ASSUME UniqueInv, UNCHANGED vars
    PROVE  UniqueInv'
<1>1. TypeOK'
  BY NextTypeOK DEF UniqueInv
<1>2. addr' = addr /\ saved' = saved /\ call' = call /\ pc' = pc
      /\ management' = management
  BY DEF vars, motorVars, callVars
<1>3. NodeIdsUnique'
      /\ \A k \in Motor : Claims(k)' \subseteq Claims(k) \cup {MANAGEMENT_NODE_ID}
  BY <1>2, ClaimsUnchanged DEF UniqueInv
<1>4. SavedClaimsFree'
  BY <1>2, <1>3, SavedClaimsKept DEF UniqueInv, SavedClaimsFree
<1>5. QED BY <1>1, <1>2, <1>3, <1>4 DEF UniqueInv, CallsPermitted, NoConfigureAwaited

\* No node ID is claimed by two motor objects, pending changes and roll-backs
\* included, when one thread at most calls gen_motor_set_node_id and none
\* gen_motor_configure_by_uid: any number of other threads, resets among them,
\* and any acknowledgement, late, repeated or unasked for, leave the claims of
\* different objects apart.
THEOREM NodeIdsStayUnique ==
    ASSUME OneThreadChangesNodeIds
    PROVE  Spec => []NodeIdsUnique
<1>1. Init => UniqueInv
  BY InitUniqueInv
<1>2. UniqueInv /\ [Next]_vars => UniqueInv'
  <2>1. SUFFICES ASSUME UniqueInv, [Next]_vars PROVE UniqueInv'
    OBVIOUS
  <2>2. CASE Next
    BY <2>1, <2>2, BeginUniqueInv, ContinueUniqueInv, SendUniqueInv,
       HandleCanFrameUniqueInv, FirmwareAssumption, OneThreadChangesNodeIds DEF Next
  <2>3. CASE UNCHANGED vars
    BY <2>1, <2>3, StutterUniqueInv
  <2>4. QED BY <2>1, <2>2, <2>3
<1>3. UniqueInv => NodeIdsUnique
  BY DEF UniqueInv
<1>4. QED BY <1>1, <1>2, <1>3, PTL DEF Spec
=============================================================================
