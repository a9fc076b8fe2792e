------------------------- MODULE GenMotorInitProofs -------------------------
(***************************************************************************)
(* The start of the driver registers all of its filters or none, for any   *)
(* number of filters, slots and filters of the controller, and whatever    *)
(* the other users of the transport do meanwhile.                          *)
(*                                                                         *)
(* The loop variable says which filters of the driver are registered: in   *)
(* both loops those before it, and none after it.  The transport adds that *)
(* a client that is not registered has nothing in the slot table, and has  *)
(* no filter of the controller unless it is about to get or to lose one.   *)
(*                                                                         *)
(* A driver that has the transport to itself also gets its own frames      *)
(* only, the roll-back included.                                           *)
(***************************************************************************)
EXTENDS GenMotorInit, CanProtocolProofs

\* A client without a filter of the controller names none.
NoFilterNoHandle == \A c \in Client : ~OwnsHwFilter(c) => client[c].hw = NoHwFilter

TableInv ==
    /\ FilterInv
    /\ SlotsHaveOwners
    /\ NoFilterNoHandle

InitPc == {"start", "register", "adding", "rollback", "removing", "mark", "done", "failed"}

\* Where gen_motor_init stands.
LoopTypeOK ==
    /\ init \in [pc : InitPc, i : 1..(Len(Filters) + 1)]
    /\ handles \in [DOMAIN Filters -> Slot \cup {NoHandle}]
    /\ init.pc \in {"adding", "removing"} => init.i \in DOMAIN Filters
    /\ init.pc \in {"mark", "done"} => init.i = Len(Filters) + 1
    /\ init.pc \in {"start", "failed"} => init.i = 1
    /\ ready => init.pc = "done"

\* The loop is at filter n, and a call of the transport about it is under way.
AtWork(n) == n = init.i /\ init.pc \in {"adding", "removing"}

\* The filters before the loop variable are registered, the others are not.
LoopInv ==
    \A n \in DOMAIN Filters :
      IF n < init.i
      THEN Registered(Filters[n]) /\ handles[n] = client[Filters[n]].slot
      ELSE AtWork(n) \/ client[Filters[n]].pc = "idle"

StartInv ==
    /\ TableInv
    /\ LoopTypeOK
    /\ LoopInv

-----------------------------------------------------------------------------
(* The transport. *)

LEMMA FiltersAreClients ==
    /\ Len(Filters) \in Nat /\ DOMAIN Filters = 1..Len(Filters)
    /\ \A n \in DOMAIN Filters : Filters[n] \in Client /\ Filters[n] \in Own
    /\ Own \subseteq Client
<1>1. Filters \in Seq(Client)
  BY GenMotorInitAssumption
<1>2. /\ Len(Filters) \in Nat /\ DOMAIN Filters = 1..Len(Filters)
      /\ \A n \in DOMAIN Filters : Filters[n] \in Client
  BY <1>1
<1>3. QED BY <1>2 DEF Own

\* A step of the driver over the transport is a step of the transport, or
\* leaves it alone.
LEMMA StartStepIsATransportStep ==
    ASSUME LoopTypeOK, [DriverNext]_allVars
    PROVE  [Next]_vars
<1>1. CASE RegisterNext
  <2>1. init.i \in DOMAIN Filters
    BY <1>1, FiltersAreClients DEF RegisterNext, LoopTypeOK
  <2>2. QED BY <1>1, <2>1, FiltersAreClients DEF RegisterNext, Next
<1>2. CASE RollBackNext
  <2>1. init.i - 1 \in DOMAIN Filters
    BY <1>2, FiltersAreClients DEF RollBackNext, LoopTypeOK
  <2>2. QED BY <1>2, <2>1, FiltersAreClients DEF RollBackNext, Next
<1>3. CASE \/ Begin \/ NoSlotLeft \/ AllRegistered \/ Added \/ Refused
           \/ Removed \/ RolledBack \/ MarkInitialized
  BY <1>3 DEF Begin, NoSlotLeft, AllRegistered, Added, Refused, Removed, RolledBack,
              MarkInitialized
<1>4. CASE Transport
  BY <1>4 DEF Transport, Next
<1>5. CASE UNCHANGED allVars
  BY <1>5 DEF allVars
<1>6. QED BY <1>1, <1>2, <1>3, <1>4, <1>5 DEF DriverNext, Driver

\* What a filter change does to the client that makes it, and to the slots.
LEMMA FilterChangeIs ==
    ASSUME TypeOK, NEW c \in Client, AddFindSlot(c) \/ RemoveClear(c) \/ FilterStep(c)
    PROVE  /\ \A d \in Client \ {c} : client'[d] = client[d]
           /\ FilterStep(c) => client[c].pc \in {"set_slot", "install", "publish", "unhook"}
           /\ \/ /\ slots' = slots /\ ~Registered(c) /\ ~Registered(c)'
                 /\ \/ ~OwnsHwFilter(c) /\ client'[c].hw = client[c].hw
                    \/ OwnsHwFilter(c)' /\ client'[c].pc = "publish"
                    \/ client[c].pc = "unhook" /\ client'[c].hw = NoHwFilter
              \/ /\ AddPublish(c) /\ Registered(c)' /\ OwnsHwFilter(c)'
                 /\ ~Registered(c)
                 /\ client'[c].slot = client[c].slot
                 /\ \A s \in Slot : s # client[c].slot => slots'[s] = slots[s]
              \/ /\ RemoveClear(c) /\ Registered(c) /\ OwnsHwFilter(c)'
                 /\ client'[c].pc = "unhook"
                 /\ slots' = [slots EXCEPT ![client[c].slot] = EmptySlot]
<1>1. /\ client \in [Client -> ClientState] /\ client[c] \in ClientState
      /\ slots \in [Slot -> SlotEntry] /\ client[c].slot \in Slot
  BY DEF TypeOK, ClientState
<1>2. CASE AddFindSlot(c)
  BY <1>1, <1>2 DEF AddFindSlot, FilterStep, AddSetContextSlot, AddInstall, AddInstallFails,
     AddPublish, RemoveUnhook, ClientState, Registered, OwnsHwFilter
<1>3. CASE RemoveClear(c)
  BY <1>1, <1>3 DEF RemoveClear, FilterStep, AddSetContextSlot, AddInstall, AddInstallFails,
     AddPublish, RemoveUnhook, ClientState, Registered, OwnsHwFilter
<1>4. CASE AddSetContextSlot(c) \/ AddInstallFails(c)
  BY <1>1, <1>4 DEF AddSetContextSlot, AddInstallFails, ClientGoto, ClientState,
     Registered, OwnsHwFilter
<1>5. CASE \E h \in HwFilter : AddInstall(c, h)
  BY <1>1, <1>5 DEF AddInstall, ClientState, Registered, OwnsHwFilter
<1>6. CASE AddPublish(c)
  BY <1>1, <1>6 DEF AddPublish, ClientGoto, ClientState, Registered, OwnsHwFilter
<1>7. CASE RemoveUnhook(c)
  BY <1>1, <1>7 DEF RemoveUnhook, IdleClient, ClientState, Registered, OwnsHwFilter
<1>8. QED BY <1>2, <1>3, <1>4, <1>5, <1>6, <1>7 DEF FilterStep

\* The slot that is cleared has no other owner.
LEMMA NextTableInv ==
    ASSUME TableInv, [Next]_vars
    PROVE  TableInv'
<1>1. FilterInv' /\ TypeOK
  BY NextFilterInv DEF TableInv, FilterInv
<1>2. ASSUME NEW c \in Client, AddFindSlot(c) \/ RemoveClear(c) \/ FilterStep(c)
      PROVE  SlotsHaveOwners' /\ NoFilterNoHandle'
  <2>1. \A d \in Client \ {c} : client'[d] = client[d]
    BY <1>1, <1>2, FilterChangeIs
  <2>2. \A d \in Client \ {c} : /\ (Registered(d)' <=> Registered(d))
                               /\ (OwnsHwFilter(d)' <=> OwnsHwFilter(d))
    BY <2>1 DEF Registered, OwnsHwFilter
  <2>3. CASE /\ slots' = slots /\ ~Registered(c) /\ ~Registered(c)'
             /\ \/ ~OwnsHwFilter(c) /\ client'[c].hw = client[c].hw
                \/ OwnsHwFilter(c)' /\ client'[c].pc = "publish"
                \/ client[c].pc = "unhook" /\ client'[c].hw = NoHwFilter
    <3>1. SlotsHaveOwners'
      BY <2>1, <2>2, <2>3 DEF TableInv, SlotsHaveOwners
    <3>2. NoFilterNoHandle'
      BY <2>1, <2>2, <2>3 DEF TableInv, NoFilterNoHandle
    <3>3. QED BY <3>1, <3>2
  <2>4. CASE /\ AddPublish(c) /\ Registered(c)' /\ OwnsHwFilter(c)'
             /\ ~Registered(c)
             /\ client'[c].slot = client[c].slot
             /\ \A s \in Slot : s # client[c].slot => slots'[s] = slots[s]
    <3>1. SlotsHaveOwners'
      BY <2>1, <2>2, <2>4 DEF TableInv, SlotsHaveOwners
    <3>2. NoFilterNoHandle'
      BY <2>1, <2>2, <2>4 DEF TableInv, NoFilterNoHandle
    <3>3. QED BY <3>1, <3>2
  <2>5. CASE /\ RemoveClear(c) /\ Registered(c) /\ OwnsHwFilter(c)'
             /\ client'[c].pc = "unhook"
             /\ slots' = [slots EXCEPT ![client[c].slot] = EmptySlot]
    <3>1. ASSUME NEW s \in Slot, slots'[s].used
          PROVE  \E d \in Client : Registered(d)' /\ client'[d].slot = s
      <4>1. slots[s].used /\ s # client[c].slot
        BY <1>1, <2>5, <3>1 DEF EmptySlot, TypeOK
      <4>2. PICK d \in Client : Registered(d) /\ client[d].slot = s
        BY <4>1 DEF TableInv, SlotsHaveOwners
      <4>3. QED BY <2>1, <2>2, <4>1, <4>2
    <3>2. NoFilterNoHandle'
      BY <2>1, <2>2, <2>5 DEF TableInv, NoFilterNoHandle
    <3>3. QED BY <3>1, <3>2 DEF SlotsHaveOwners
  <2>6. QED BY <1>1, <1>2, <2>3, <2>4, <2>5, FilterChangeIs
<1>3. ASSUME \/ Initialize \/ UNCHANGED vars
             \/ \E i \in Id, h \in HwFilter : RxCallback(i, h)
             \/ RxGet \/ RxLookup \/ RxCall
             \/ \E t \in Sender : PutAccepted(t) \/ PutTimeout(t)
             \/ \E t \in Sender, i \in Id : Send(t, i)
             \/ TxGet \/ TxCheck \/ TxSent \/ TxFailed
      PROVE  SlotsHaveOwners' /\ NoFilterNoHandle'
  <2>1. UNCHANGED <<slots, client>>
    BY <1>3 DEF Initialize, vars, tableVars, RxCallback, RxGet, RxLookup, RxCall, PutAccepted,
                PutTimeout, Send, TxGet, TxCheck, TxSent, TxFailed
  <2>2. QED BY <2>1 DEF TableInv, SlotsHaveOwners, NoFilterNoHandle, Registered, OwnsHwFilter
<1>4. QED BY <1>1, <1>2, <1>3 DEF Next, TableInv

\* The steps of the transport leave a client of the driver alone while no call
\* about it is under way.
LEMMA OwnClientsStay ==
    ASSUME TypeOK, Transport, NEW c \in Own, client[c].pc \in {"idle", "registered"}
    PROVE  client'[c] = client[c]
<1>1. c \in Client
  BY FiltersAreClients
<1>2. ASSUME NEW d \in Client \ Own, AddFindSlot(d) \/ RemoveClear(d)
      PROVE  client'[c] = client[c]
  <2>1. c # d /\ d \in Client
    BY <1>2
  <2>2. QED BY <1>1, <1>2, <2>1, FilterChangeIs
<1>3. ASSUME NEW d \in Client, FilterStep(d)
      PROVE  client'[c] = client[c]
  <2>1. c # d
    BY <1>3, FilterChangeIs
  <2>2. QED BY <1>1, <1>3, <2>1, FilterChangeIs
<1>4. ASSUME \/ Initialize
             \/ \E i \in Id, h \in HwFilter : RxCallback(i, h)
             \/ RxGet \/ RxLookup \/ RxCall
             \/ \E t \in Sender : PutAccepted(t) \/ PutTimeout(t)
             \/ \E t \in Sender, i \in Id : Send(t, i)
             \/ TxGet \/ TxCheck \/ TxSent \/ TxFailed
      PROVE  client' = client
  BY <1>4 DEF Initialize, tableVars, RxCallback, RxGet, RxLookup, RxCall, PutAccepted,
              PutTimeout, Send, TxGet, TxCheck, TxSent, TxFailed
<1>5. QED BY <1>2, <1>3, <1>4 DEF Transport

-----------------------------------------------------------------------------
(* The driver. *)

LEMMA InitStartInv == DriverInit => StartInv
<1>1. SUFFICES ASSUME DriverInit PROVE StartInv
  OBVIOUS
<1>2. /\ \A c \in Client : client[c].pc = "idle" /\ client[c].hw = NoHwFilter
      /\ \A s \in Slot : ~slots[s].used
  BY <1>1 DEF DriverInit, Init, IdleClient, EmptySlot
<1>3. TableInv
  BY <1>1, <1>2, InitFilterInv DEF DriverInit, TableInv, SlotsHaveOwners, NoFilterNoHandle
<1>4. LoopTypeOK
  BY <1>1, FiltersAreClients, FirstSlot DEF DriverInit, LoopTypeOK, InitPc
<1>5. LoopInv
  <2>1. init.i = 1
    BY <1>1 DEF DriverInit
  <2>2. \A n \in DOMAIN Filters : ~(n < 1) /\ Filters[n] \in Client
    BY FiltersAreClients
  <2>3. QED BY <1>2, <2>1, <2>2 DEF LoopInv
<1>6. QED BY <1>3, <1>4, <1>5 DEF StartInv

LEMMA TransportLoop ==
    ASSUME StartInv, Transport \/ UNCHANGED allVars
    PROVE  LoopTypeOK' /\ LoopInv'
<1>1. UNCHANGED initVars
  BY DEF Transport, allVars
<1>2. \A n \in DOMAIN Filters :
        client[Filters[n]].pc \in {"idle", "registered"} =>
          client'[Filters[n]] = client[Filters[n]]
  <2>1. CASE Transport
    BY <2>1, OwnClientsStay, FiltersAreClients DEF StartInv, TableInv, FilterInv
  <2>2. CASE UNCHANGED allVars
    BY <2>2 DEF allVars, vars, tableVars
  <2>3. QED BY <2>1, <2>2
<1>3. LoopTypeOK'
  BY <1>1 DEF initVars, StartInv, LoopTypeOK
<1>4. LoopInv'
  BY <1>1, <1>2 DEF initVars, StartInv, LoopInv, AtWork, Registered
<1>5. QED BY <1>3, <1>4

LEMMA DriverLoop ==
    ASSUME StartInv, Driver
    PROVE  LoopTypeOK' /\ LoopInv'
<1>1. /\ init \in [pc : InitPc, i : 1..(Len(Filters) + 1)]
      /\ handles \in [DOMAIN Filters -> Slot \cup {NoHandle}]
      /\ client \in [Client -> ClientState]
      /\ Len(Filters) \in Nat /\ DOMAIN Filters = 1..Len(Filters)
      /\ TypeOK
  BY FiltersAreClients DEF StartInv, LoopTypeOK, TableInv, FilterInv, TypeOK
<1>2. CASE Begin
  BY <1>1, <1>2, FiltersAreClients DEF StartInv, LoopTypeOK, LoopInv, AtWork, Begin, Goto,
     InitPc, vars, tableVars, Registered
<1>3. CASE RegisterNext
  <2>1. init.i \in DOMAIN Filters /\ Filters[init.i] \in Client
    BY <1>1, <1>3, FiltersAreClients DEF RegisterNext
  <2>2. /\ \A d \in Client \ {Filters[init.i]} : client'[d] = client[d]
        /\ init' = [init EXCEPT !.pc = "adding"] /\ handles' = handles /\ ready' = ready
        /\ init.pc = "register"
    BY <1>1, <1>3, <2>1, FilterChangeIs DEF RegisterNext, Goto
  <2>3. init'.pc = "adding" /\ init'.i = init.i
    BY <1>1, <2>2
  <2>4. LoopTypeOK'
    BY <1>1, <2>1, <2>2, <2>3 DEF StartInv, LoopTypeOK, InitPc
  <2>5. \A n \in DOMAIN Filters : n # init.i => client'[Filters[n]] = client[Filters[n]]
    BY <2>1, <2>2, FiltersAreClients, GenMotorInitAssumption
  <2>6. LoopInv'
    BY <1>1, <2>2, <2>3, <2>5 DEF StartInv, LoopInv, AtWork, Registered
  <2>7. QED BY <2>4, <2>6
<1>4. CASE NoSlotLeft \/ AllRegistered \/ RolledBack \/ MarkInitialized
  BY <1>1, <1>4 DEF StartInv, LoopTypeOK, LoopInv, AtWork, NoSlotLeft, AllRegistered,
     RolledBack, MarkInitialized, Goto, InitPc, vars, tableVars, Registered
<1>5. CASE Added
  <2>1. init.i \in DOMAIN Filters /\ Filters[init.i] \in Client
    BY <1>1, <1>5, FiltersAreClients DEF Added, StartInv, LoopTypeOK
  <2>2. client[Filters[init.i]].slot \in Slot
    BY <1>1, <2>1 DEF ClientState
  <2>3. /\ init'.pc = "register" /\ init'.i = init.i + 1 /\ ready' = ready /\ client' = client
        /\ init' \in [pc : InitPc, i : 1..(Len(Filters) + 1)]
        /\ handles' = [handles EXCEPT ![init.i] = client[Filters[init.i]].slot]
        /\ Registered(Filters[init.i]) /\ init.pc = "adding"
    BY <1>1, <1>5, <2>1 DEF Added, vars, tableVars, InitPc
  <2>4. LoopTypeOK'
    BY <1>1, <2>1, <2>2, <2>3 DEF StartInv, LoopTypeOK
  <2>5. LoopInv'
    BY <1>1, <2>1, <2>3 DEF StartInv, LoopInv, AtWork, Registered
  <2>6. QED BY <2>4, <2>5
<1>6. CASE Refused
  BY <1>1, <1>6 DEF StartInv, LoopTypeOK, LoopInv, AtWork, Refused, Goto, InitPc,
     vars, tableVars, Registered
<1>7. CASE RollBackNext
  <2>1. init.i - 1 \in DOMAIN Filters /\ Filters[init.i - 1] \in Client
    BY <1>1, <1>7, FiltersAreClients DEF RollBackNext
  <2>2. /\ \A d \in Client \ {Filters[init.i - 1]} : client'[d] = client[d]
        /\ init'.pc = "removing" /\ init'.i = init.i - 1
        /\ init' \in [pc : InitPc, i : 1..(Len(Filters) + 1)]
        /\ handles' = handles /\ ready' = ready /\ init.pc = "rollback"
    BY <1>1, <1>7, <2>1, FilterChangeIs DEF RollBackNext, InitPc
  <2>3. LoopTypeOK'
    BY <1>1, <2>1, <2>2 DEF StartInv, LoopTypeOK
  <2>4. \A n \in DOMAIN Filters : n # init.i - 1 => client'[Filters[n]] = client[Filters[n]]
    BY <2>1, <2>2, FiltersAreClients, GenMotorInitAssumption
  <2>5. LoopInv'
    BY <1>1, <2>1, <2>2, <2>4 DEF StartInv, LoopInv, AtWork, Registered
  <2>6. QED BY <2>3, <2>5
<1>8. CASE Removed
  BY <1>1, <1>8 DEF StartInv, LoopTypeOK, LoopInv, AtWork, Removed, Goto, InitPc,
     vars, tableVars, Registered
<1>9. QED BY <1>2, <1>3, <1>4, <1>5, <1>6, <1>7, <1>8 DEF Driver

LEMMA NextStartInv ==
    ASSUME StartInv, [DriverNext]_allVars
    PROVE  StartInv'
<1>1. TableInv'
  BY StartStepIsATransportStep, NextTableInv DEF StartInv
<1>2. QED BY <1>1, TransportLoop, DriverLoop DEF DriverNext, StartInv

\* What the loop invariant means when the loops have ended.
LEMMA StartInvMeans == StartInv => InitIsAllOrNothing
<1>1. SUFFICES ASSUME StartInv PROVE InitIsAllOrNothing
  OBVIOUS
<1>2. ASSUME init.pc = "failed"
      PROVE  Leftovers = {} /\ \A c \in Own : client[c].pc = "idle"
  <2>1. \A n \in DOMAIN Filters : client[Filters[n]].pc = "idle"
    BY <1>1, <1>2, FiltersAreClients DEF StartInv, LoopTypeOK, LoopInv, AtWork
  <2>2. \A c \in Own : client[c].pc = "idle" /\ c \in Client
    BY <2>1, FiltersAreClients DEF Own
  <2>3. ASSUME NEW s \in Slot, slots[s].used, slots[s].handler \in Own
        PROVE  FALSE
    <3>1. PICK c \in Client : Registered(c) /\ client[c].slot = s
      BY <1>1, <2>3 DEF StartInv, TableInv, SlotsHaveOwners
    <3>2. slots[s] = [used |-> TRUE, hw |-> client[c].hw, handler |-> c]
      BY <1>1, <3>1, Zenon DEF StartInv, TableInv, FilterInv, RegistrationsConsistent
    <3>3. slots[s].handler = c
      BY <3>2
    <3>4. QED BY <2>2, <2>3, <3>1, <3>3 DEF Registered
  <2>4. \A c \in Own : client[c].hw = NoHwFilter
    BY <1>1, <2>2 DEF StartInv, TableInv, NoFilterNoHandle, OwnsHwFilter
  <2>5. \A h \in HwFilter, c \in Own : client[c].hw # h
    BY <2>4, CanProtocolAssumption
  <2>6. QED BY <2>2, <2>3, <2>5 DEF Leftovers
<1>3. ASSUME ready, NEW n \in DOMAIN Filters
      PROVE  /\ handles[n] # NoHandle
             /\ slots[handles[n]].used
             /\ slots[handles[n]].handler = Filters[n]
             /\ context[handles[n]] = [dev |-> TRUE, slot |-> handles[n]]
  <2>1. PICK c \in Client : c = Filters[n]
    BY FiltersAreClients
  <2>2. Registered(c) /\ handles[n] = client[c].slot
    BY <1>1, <1>3, <2>1, FiltersAreClients DEF StartInv, LoopTypeOK, LoopInv
  <2>3. /\ slots[handles[n]] = [used |-> TRUE, hw |-> client[c].hw, handler |-> c]
        /\ context[handles[n]] = [dev |-> TRUE, slot |-> handles[n]]
    BY <1>1, <2>2, Zenon DEF StartInv, TableInv, FilterInv, RegistrationsConsistent
  <2>4. handles[n] \in Slot
    BY <1>1, <2>2 DEF StartInv, TableInv, FilterInv, TypeOK, ClientState
  <2>5. handles[n] # NoHandle
    BY <2>4, GenMotorInitAssumption
  <2>6. slots[handles[n]].used /\ slots[handles[n]].handler = c
    BY <2>3
  <2>7. QED BY <2>1, <2>3, <2>5, <2>6
<1>4. QED BY <1>2, <1>3 DEF InitIsAllOrNothing

\* gen_motor_register_filters registers every filter and keeps its handle, or
\* it leaves nothing behind, whichever of its calls the transport refuses and
\* whoever else registers and removes filters meanwhile.
THEOREM StartIsAllOrNothing == DriverSpec => []InitIsAllOrNothing
<1>1. DriverInit => StartInv
  BY InitStartInv
<1>2. StartInv /\ [DriverNext]_allVars => StartInv'
  BY NextStartInv
<1>3. StartInv => InitIsAllOrNothing
  BY StartInvMeans
<1>4. QED BY <1>1, <1>2, <1>3, PTL DEF DriverSpec

\* The driver uses the transport as any of its clients does, so what is proved
\* of the transport holds while the driver starts.
THEOREM StartUsesTheTransport == DriverSpec => Spec
<1>1. DriverInit => StartInv /\ Init
  BY InitStartInv DEF DriverInit
<1>2. StartInv /\ [DriverNext]_allVars => StartInv' /\ [Next]_vars
  BY NextStartInv, StartStepIsATransportStep DEF StartInv
<1>3. QED BY <1>1, <1>2, PTL DEF DriverSpec, Spec

-----------------------------------------------------------------------------
(***************************************************************************)
(* When the driver is the only user of the receive side, filters are       *)
(* first only added and then, if one is refused, only removed: a slot that *)
(* has been cleared is not used again, and a frame that waits for it finds *)
(* no handler.                                                             *)
(***************************************************************************)

RollingBack == init.pc \in {"rollback", "removing", "failed"}

DriverDispatchInv ==
    /\ StartInv
    /\ ~RollingBack => DispatchInv
    /\ RollingBack => RemovalInv

\* The driver does not come back from the roll-back.
LEMMA RollBackGoesOn ==
    ASSUME LoopTypeOK, RollingBack, [DriverNext]_allVars
    PROVE  RollingBack'
<1>1. init \in [pc : InitPc, i : 1..(Len(Filters) + 1)]
  BY DEF LoopTypeOK
<1>2. CASE Transport \/ UNCHANGED allVars
  <2>1. init' = init
    BY <1>2 DEF Transport, initVars, allVars
  <2>2. QED BY <2>1 DEF RollingBack
<1>3. CASE Driver
  BY <1>1, <1>3 DEF Driver, Begin, RegisterNext, NoSlotLeft, AllRegistered, Added, Refused,
     RollBackNext, Removed, RolledBack, MarkInitialized, Goto, RollingBack
<1>4. QED BY <1>2, <1>3 DEF DriverNext

\* Filters are added before the roll-back and removed in it.
LEMMA AddedThenRemoved ==
    ASSUME Client = Own, StartInv, [DriverNext]_allVars, NEW c \in Client
    PROVE  /\ RollingBack => ~AddFindSlot(c)
           /\ ~RollingBack => ~RemoveClear(c)
<1>1. /\ client \in [Client -> ClientState] /\ TypeOK
      /\ init \in [pc : InitPc, i : 1..(Len(Filters) + 1)]
  BY DEF StartInv, TableInv, FilterInv, TypeOK, LoopTypeOK
<1>2. /\ AddFindSlot(c) => client[c].pc = "idle" /\ client'[c].pc = "set_slot"
      /\ RemoveClear(c) => client[c].pc = "registered" /\ client'[c].pc = "unhook"
  <2>1. client[c] \in ClientState
    BY <1>1
  <2>2. CASE AddFindSlot(c)
    BY <1>1, <2>1, <2>2 DEF AddFindSlot, RemoveClear, ClientState
  <2>3. CASE RemoveClear(c)
    BY <1>1, <2>1, <2>3 DEF AddFindSlot, RemoveClear, ClientState
  <2>4. QED BY <2>2, <2>3
<1>3. CASE Transport
  <2>1. client[c].pc \in {"idle", "registered"} => client'[c] = client[c]
    BY <1>1, <1>3, OwnClientsStay
  <2>2. QED BY <1>2, <2>1
<1>4. CASE RegisterNext
  <2>1. init.i \in DOMAIN Filters /\ Filters[init.i] \in Client
    BY <1>1, <1>4, FiltersAreClients DEF RegisterNext
  <2>2. client'[c].pc # "unhook" \/ client'[c] = client[c]
    BY <1>1, <1>4, <2>1 DEF RegisterNext, AddFindSlot, ClientState
  <2>3. ~RollingBack
    BY <1>4 DEF RegisterNext, RollingBack
  <2>4. QED BY <1>2, <2>2, <2>3
<1>5. CASE RollBackNext
  <2>1. init.i - 1 \in DOMAIN Filters /\ Filters[init.i - 1] \in Client
    BY <1>1, <1>5, FiltersAreClients DEF RollBackNext
  <2>2. client'[c].pc # "set_slot" \/ client'[c] = client[c]
    BY <1>1, <1>5, <2>1 DEF RollBackNext, RemoveClear, ClientState
  <2>3. RollingBack
    BY <1>5 DEF RollBackNext, RollingBack
  <2>4. QED BY <1>2, <2>2, <2>3
<1>6. CASE Driver /\ ~RegisterNext /\ ~RollBackNext
  <2>1. client' = client
    BY <1>6 DEF Driver, Begin, NoSlotLeft, AllRegistered, Added, Refused, Removed,
                RolledBack, MarkInitialized, vars, tableVars
  <2>2. QED BY <1>2, <2>1
<1>7. CASE UNCHANGED allVars
  BY <1>2, <1>7 DEF allVars, vars, tableVars
<1>8. QED BY <1>3, <1>4, <1>5, <1>6, <1>7 DEF DriverNext

\* The roll-back begins where no call that adds a filter is under way.
LEMMA RollBackBegins ==
    ASSUME Client = Own, StartInv', LoopTypeOK, DispatchInv',
           [DriverNext]_allVars, ~RollingBack, RollingBack'
    PROVE  RemovalInv'
<1>1. init \in [pc : InitPc, i : 1..(Len(Filters) + 1)]
  BY DEF LoopTypeOK
<1>2. Begin \/ NoSlotLeft \/ Refused
  BY <1>1 DEF DriverNext, Driver, Transport, Begin, RegisterNext, NoSlotLeft, AllRegistered,
     Added, Refused, RollBackNext, Removed, RolledBack, MarkInitialized, Goto, RollingBack,
     allVars, initVars
<1>3. UNCHANGED vars /\ init'.pc # "adding" /\ init'.pc # "removing"
  BY <1>1, <1>2 DEF Begin, NoSlotLeft, Refused, Goto
<1>4. \A c \in Client : client'[c].pc \in {"idle", "registered"}
  <2>1. \A n \in DOMAIN Filters : client'[Filters[n]].pc \in {"idle", "registered"}
    BY <1>3 DEF StartInv, LoopInv, AtWork, Registered
  <2>2. QED BY <2>1 DEF Own
<1>5. NobodyAdds'
  BY <1>4 DEF NobodyAdds
<1>6. (DispatchInv /\ NobodyAdds => RemovalInv)'
  BY DispatchBecomesRemoval, PTL
<1>7. QED BY <1>5, <1>6

LEMMA NextDriverDispatchInv ==
    ASSUME Client = Own, DriverDispatchInv, [DriverNext]_allVars
    PROVE  DriverDispatchInv'
<1>1. StartInv /\ StartInv'
  BY NextStartInv DEF DriverDispatchInv
<1>2. [Next]_vars
  BY StartStepIsATransportStep DEF DriverDispatchInv, StartInv
<1>3. CASE RollingBack
  <2>1. \A c \in Client : ~AddFindSlot(c)
    BY <1>1, <1>3, AddedThenRemoved
  <2>2. RollingBack'
    BY <1>1, <1>3, RollBackGoesOn DEF StartInv
  <2>3. RemovalInv'
    BY <1>2, <1>3, <2>1, NextRemovalInv DEF DriverDispatchInv
  <2>4. QED BY <1>1, <2>2, <2>3 DEF DriverDispatchInv
<1>4. CASE ~RollingBack
  <2>1. DispatchInv /\ DispatchInv'
    <3>1. \A c \in Client : ~RemoveClear(c)
      BY <1>1, <1>4, AddedThenRemoved
    <3>2. QED BY <1>2, <1>4, <3>1, NextDispatchInv DEF DriverDispatchInv
  <2>2. QED BY <1>1, <1>4, <2>1, RollBackBegins DEF DriverDispatchInv, StartInv
<1>5. QED BY <1>3, <1>4

\* If the driver is the only user of the receive side, each of its handlers is
\* only called with frames its own filter admits: while gen_motor_register_filters
\* adds them, while it takes them back, and with what is still queued then.
THEOREM DriverGetsItsFrames ==
    ASSUME Client = Own
    PROVE  DriverSpec => []HandlerGetsItsFrames
<1>1. DriverInit => DriverDispatchInv
  BY InitStartInv, InitDispatchInv DEF DriverInit, DriverDispatchInv, RollingBack
<1>2. DriverDispatchInv /\ [DriverNext]_allVars => DriverDispatchInv'
  BY NextDriverDispatchInv
<1>3. DriverDispatchInv => HandlerGetsItsFrames
  BY DEF DriverDispatchInv, DispatchInv, RemovalInv
<1>4. QED BY <1>1, <1>2, <1>3, PTL DEF DriverSpec
=============================================================================
