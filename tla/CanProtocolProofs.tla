------------------------- MODULE CanProtocolProofs --------------------------
(***************************************************************************)
(* Proofs about CanProtocol, for any number of clients, slots, controller  *)
(* filters and sending threads and any queue lengths.                      *)
(*                                                                         *)
(* RegistrationsConsistent is not inductive alone.  What makes it so is    *)
(* the use of the mutex: a client that adds a filter holds it from the     *)
(* search of a free slot to the publication of the slot, so the slot it    *)
(* has chosen stays free, and its context stays its own.                   *)
(***************************************************************************)
EXTENDS CanProtocol, SequenceTheorems, WellFoundedInduction, TLAPS

\* A client that is adding a filter holds the mutex, and the slot it has
\* chosen is still free.
AddersHoldTheMutex ==
    \A c \in Client : client[c].pc \in {"set_slot", "install", "publish"} =>
      /\ lock = c
      /\ ~slots[client[c].slot].used
      /\ context[client[c].slot].dev
      /\ client[c].pc # "set_slot" => context[client[c].slot].slot = client[c].slot

\* A client that owns a filter of the controller knows it by its right name,
\* and until the removal it is the filter the client asked for.
OwnedFiltersInstalled ==
    \A c \in Client : OwnsHwFilter(c) =>
      /\ client[c].hw \in HwFilter
      /\ hw[client[c].hw].installed
      /\ client[c].pc = "publish" =>
           hw[client[c].hw] = [installed |-> TRUE, ids |-> Wants[c],
                               slot |-> client[c].slot]

FilterInv ==
    /\ TypeOK
    /\ RegistrationsConsistent
    /\ AddersHoldTheMutex
    /\ OwnedFiltersInstalled

\* A free slot is found whenever there is one.
LEMMA FindFreeSlotType ==
    ASSUME FreeSlots # {}
    PROVE  FindFreeSlot \in Slot /\ ~slots[FindFreeSlot].used
<1> DEFINE Less == {ss \in Nat \X Nat : ss[1] < ss[2]}
<1>1. FreeSlots \subseteq Nat /\ FreeSlots \subseteq Slot
  BY CanProtocolAssumption DEF FreeSlots, Slot
<1>2. IsWellFoundedOn(Less, Nat)
  BY NatLessThanWellFounded, Zenon DEF OpToRel
<1>3. PICK s \in FreeSlots : \A t \in FreeSlots : <<t, s>> \notin Less
  <2> HIDE DEF Less
  <2> QED BY <1>1, <1>2, WFMin
<1>4. \A t \in FreeSlots : s <= t
  <2>1. ASSUME NEW t \in FreeSlots, t < s
        PROVE  <<t, s>> \in Less
    <3>1. <<t, s>> \in Nat \X Nat
      BY <1>1
    <3>2. <<t, s>>[1] = t /\ <<t, s>>[2] = s
      OBVIOUS
    <3>3. QED BY <2>1, <3>1, <3>2
  <2> HIDE DEF Less
  <2>2. \A t \in FreeSlots : ~(t < s)
    BY <1>3, <2>1
  <2>3. \A t \in FreeSlots : t \in Nat /\ s \in Nat
    BY <1>1
  <2>4. QED BY <2>2, <2>3
<1>5. FindFreeSlot \in FreeSlots
  BY <1>4 DEF FindFreeSlot
<1>6. QED BY <1>1, <1>5 DEF FreeSlots

\* The first slot exists.
LEMMA FirstSlot == 0 \in Slot
BY CanProtocolAssumption DEF Slot

LEMMA NoFrameType == NoFrame \in Id
BY CanProtocolAssumption DEF NoFrame

-----------------------------------------------------------------------------
\* The start-up state is well typed.
LEMMA InitTypeOK == Init => TypeOK
<1>1. SUFFICES ASSUME Init PROVE TypeOK
  OBVIOUS
<1>2. slots \in [Slot -> SlotEntry] /\ context \in [Slot -> Context]
  BY <1>1, FirstSlot DEF Init, EmptySlot, SlotEntry, NoContext, Context
<1>3. hw \in [HwFilter -> HwEntry] /\ client \in [Client -> ClientState]
  BY <1>1, FirstSlot DEF Init, FreeHwFilter, HwEntry, IdleClient, ClientState
<1>4. /\ rxq \in Seq(Event) /\ Len(rxq) <= RxQueueLen
      /\ txq \in Seq(Id) /\ Len(txq) <= TxQueueLen
      /\ bus \in Seq(Id)
  BY <1>1, CanProtocolAssumption DEF Init
<1>5. rx \in RxThread /\ tx \in TxThread /\ sender \in [Sender -> SenderState]
  BY <1>1, FirstSlot, NoFrameType DEF Init, RxThread, Event, TxThread, SenderState
<1>6. QED BY <1>1, <1>2, <1>3, <1>4, <1>5 DEF Init, TypeOK

\* Changes of the filter table keep the types.
LEMMA FilterTypeOK ==
    ASSUME TypeOK, NEW c \in Client,
           AddFindSlot(c) \/ RemoveClear(c) \/ FilterStep(c)
    PROVE  TypeOK'
<1>1. client[c] \in ClientState /\ client[c].slot \in Slot
      /\ Wants[c] \in SUBSET Id
  BY CanProtocolAssumption DEF TypeOK, ClientState
<1>2. CASE AddFindSlot(c)
  <2>1. FindFreeSlot \in Slot
    BY <1>2, FindFreeSlotType DEF AddFindSlot
  <2>2. context' \in [Slot -> Context]
    BY <1>2, <2>1 DEF AddFindSlot, TypeOK, Context
  <2>3. client' \in [Client -> ClientState]
    BY <1>1, <1>2, <2>1 DEF AddFindSlot, TypeOK, ClientState
  <2>4. QED BY <1>2, <2>2, <2>3 DEF AddFindSlot, TypeOK, rxVars, txVars
<1>3. CASE AddSetContextSlot(c)
  <2>1. context' \in [Slot -> Context]
    BY <1>1, <1>3 DEF AddSetContextSlot, TypeOK, Context
  <2>2. client' \in [Client -> ClientState]
    BY <1>1, <1>3 DEF AddSetContextSlot, ClientGoto, TypeOK, ClientState
  <2>3. QED BY <1>3, <2>1, <2>2 DEF AddSetContextSlot, TypeOK, rxVars, txVars
<1>4. ASSUME NEW h \in HwFilter, AddInstall(c, h) PROVE TypeOK'
  <2>1. hw' \in [HwFilter -> HwEntry]
    BY <1>1, <1>4 DEF AddInstall, TypeOK, HwEntry
  <2>2. client' \in [Client -> ClientState]
    BY <1>1, <1>4 DEF AddInstall, TypeOK, ClientState
  <2>3. QED BY <1>4, <2>1, <2>2 DEF AddInstall, TypeOK, rxVars, txVars
<1>5. CASE AddInstallFails(c)
  <2>1. client' \in [Client -> ClientState]
    BY <1>1, <1>5 DEF AddInstallFails, ClientGoto, TypeOK, ClientState
  <2>2. QED BY <1>5, <2>1 DEF AddInstallFails, TypeOK, rxVars, txVars
<1>6. CASE AddPublish(c)
  <2>1. slots' \in [Slot -> SlotEntry]
    BY <1>1, <1>6 DEF AddPublish, TypeOK, SlotEntry, ClientState
  <2>2. client' \in [Client -> ClientState]
    BY <1>1, <1>6 DEF AddPublish, ClientGoto, TypeOK, ClientState
  <2>3. QED BY <1>6, <2>1, <2>2 DEF AddPublish, TypeOK, rxVars, txVars
<1>7. CASE RemoveClear(c)
  <2>1. slots[client[c].slot].hw \in HwFilter \cup {NoHwFilter}
    BY <1>1 DEF TypeOK, SlotEntry
  <2>2. client' \in [Client -> ClientState]
    BY <1>1, <1>7, <2>1 DEF RemoveClear, TypeOK, ClientState
  <2>3. slots' \in [Slot -> SlotEntry] /\ context' \in [Slot -> Context]
    BY <1>1, <1>7, FirstSlot
    DEF RemoveClear, TypeOK, SlotEntry, EmptySlot, Context, NoContext
  <2>4. QED BY <1>7, <2>2, <2>3 DEF RemoveClear, TypeOK, rxVars, txVars
<1>8. CASE RemoveUnhook(c)
  <2>1. hw' \in [HwFilter -> HwEntry]
    BY <1>8, FirstSlot DEF RemoveUnhook, TypeOK, HwEntry, FreeHwFilter
  <2>2. client' \in [Client -> ClientState]
    BY <1>8, FirstSlot DEF RemoveUnhook, TypeOK, ClientState, IdleClient
  <2>3. QED BY <1>8, <2>1, <2>2 DEF RemoveUnhook, TypeOK, rxVars, txVars
<1>9. QED BY <1>2, <1>3, <1>4, <1>5, <1>6, <1>7, <1>8 DEF FilterStep

\* Receiving keeps the types: the queue never holds more than it has room for.
LEMMA ReceiveTypeOK ==
    ASSUME TypeOK,
           \/ \E i \in Id, h \in HwFilter : RxCallback(i, h)
           \/ RxGet \/ RxLookup \/ RxCall
    PROVE  TypeOK'
<1>1. rx \in RxThread /\ rx.event \in Event /\ rx.event.slot \in Slot
  BY DEF TypeOK, RxThread, Event
<1>2. ASSUME NEW i \in Id, NEW h \in HwFilter, RxCallback(i, h) PROVE TypeOK'
  <2>1. [frame |-> i, slot |-> context[hw[h].slot].slot] \in Event
    BY DEF TypeOK, HwEntry, Context, Event
  <2>2. DEFINE e == [frame |-> i, slot |-> context[hw[h].slot].slot]
  <2>3. rxq' = Append(rxq, e)
    BY <1>2 DEF RxCallback
  <2>4. HIDE DEF e
  <2>5. rxq' \in Seq(Event) /\ Len(rxq') = Len(rxq) + 1
    BY <2>1, <2>3 DEF TypeOK, e
  <2>6. Len(rxq') <= RxQueueLen
    BY <1>2, <2>5, CanProtocolAssumption DEF RxCallback, TypeOK
  <2>7. QED BY <1>2, <2>5, <2>6 DEF RxCallback, TypeOK, tableVars, txVars
<1>3. CASE RxGet
  <2>1. Head(rxq) \in Event /\ Tail(rxq) \in Seq(Event) /\ Len(Tail(rxq)) = Len(rxq) - 1
        /\ Len(rxq) \in Nat
    BY <1>3 DEF RxGet, TypeOK
  <2>2. rx' \in RxThread
    BY <1>1, <1>3, <2>1 DEF RxGet, RxThread
  <2>3. rxq' \in Seq(Event) /\ Len(rxq') <= RxQueueLen
    BY <1>3, <2>1, CanProtocolAssumption DEF RxGet, TypeOK
  <2>4. QED BY <1>3, <2>2, <2>3 DEF RxGet, TypeOK, tableVars, txVars
<1>4. CASE RxLookup
  <2>1. slots[rx.event.slot].handler \in Client \cup {NoClient}
    BY <1>1 DEF TypeOK, SlotEntry
  <2>2. rx' \in RxThread
    BY <1>1, <1>4, <2>1 DEF RxLookup, RxThread
  <2>3. QED BY <1>4, <2>2 DEF RxLookup, TypeOK, tableVars, txVars
<1>5. CASE RxCall
  <2>1. rx' \in RxThread
    BY <1>1, <1>5 DEF RxCall, RxThread
  <2>2. QED BY <1>5, <2>1 DEF RxCall, TypeOK, tableVars, txVars
<1>6. QED BY <1>2, <1>3, <1>4, <1>5

\* Sending keeps the types.
LEMMA SendTypeOK ==
    ASSUME TypeOK,
           \/ \E t \in Sender : PutAccepted(t) \/ PutTimeout(t)
           \/ \E t \in Sender, i \in Id : Send(t, i)
           \/ TxGet \/ TxCheck \/ TxSent \/ TxFailed
    PROVE  TypeOK'
<1>1. tx \in TxThread /\ tx.frame \in Id
  BY DEF TypeOK, TxThread
<1>2. ASSUME NEW t \in Sender, NEW i \in Id, Send(t, i) PROVE TypeOK'
  <2>1. sender' \in [Sender -> SenderState]
    BY <1>2 DEF Send, TypeOK, SenderState
  <2>2. QED BY <1>2, <2>1 DEF Send, TypeOK, tableVars, rxVars
<1>3. ASSUME NEW t \in Sender, PutAccepted(t) PROVE TypeOK'
  <2>1. sender[t].frame \in Id /\ sender' \in [Sender -> SenderState]
    BY <1>3 DEF PutAccepted, TypeOK, SenderState
  <2>2. txq' \in Seq(Id) /\ Len(txq') = Len(txq) + 1 /\ Len(txq) \in Nat
    BY <1>3, <2>1 DEF PutAccepted, TypeOK
  <2>3. Len(txq') <= TxQueueLen
    BY <1>3, <2>2, CanProtocolAssumption DEF PutAccepted
  <2>4. QED BY <1>3, <2>1, <2>2, <2>3 DEF PutAccepted, TypeOK, tableVars, rxVars
<1>4. ASSUME NEW t \in Sender, PutTimeout(t) PROVE TypeOK'
  <2>1. sender' \in [Sender -> SenderState]
    BY <1>4 DEF PutTimeout, TypeOK, SenderState
  <2>2. QED BY <1>4, <2>1 DEF PutTimeout, TypeOK, tableVars, rxVars
<1>5. CASE TxGet
  <2>1. Head(txq) \in Id /\ Tail(txq) \in Seq(Id) /\ Len(Tail(txq)) = Len(txq) - 1
        /\ Len(txq) \in Nat
    BY <1>5 DEF TxGet, TypeOK
  <2>2. txq' \in Seq(Id) /\ Len(txq') <= TxQueueLen
    BY <1>5, <2>1, CanProtocolAssumption DEF TxGet, TypeOK
  <2>3. QED BY <1>5, <2>1, <2>2 DEF TxGet, TypeOK, TxThread, tableVars, rxVars
<1>6. CASE TxCheck
  BY <1>1, <1>6 DEF TxCheck, TypeOK, TxThread, tableVars, rxVars
<1>7. CASE TxSent
  <2>1. bus' \in Seq(Id)
    BY <1>1, <1>7 DEF TxSent, TypeOK
  <2>2. tx' \in TxThread
    BY <1>1, <1>7 DEF TxSent, TxThread
  <2>3. QED BY <1>7, <2>1, <2>2 DEF TxSent, TypeOK, tableVars, rxVars
<1>8. CASE TxFailed
  BY <1>1, <1>8 DEF TxFailed, TypeOK, TxThread, tableVars, rxVars
<1>9. QED BY <1>2, <1>3, <1>4, <1>5, <1>6, <1>7, <1>8

\* Every step keeps the types.
LEMMA NextTypeOK == TypeOK /\ [Next]_vars => TypeOK'
<1>1. SUFFICES ASSUME TypeOK, [Next]_vars PROVE TypeOK'
  OBVIOUS
<1>2. CASE Initialize
  BY <1>1, <1>2 DEF Initialize, TypeOK, tableVars, rxVars, txVars
<1>3. CASE UNCHANGED vars
  BY <1>1, <1>3 DEF TypeOK, vars, tableVars, rxVars, txVars
<1>4. QED BY <1>1, <1>2, <1>3, FilterTypeOK, ReceiveTypeOK, SendTypeOK DEF Next

\* The tables, queues and threads keep their types; in particular neither queue
\* ever holds more than the devicetree gives it room for.
THEOREM TransportTypeCorrect == Spec => []TypeOK
<1>1. Init => TypeOK
  BY InitTypeOK
<1>2. TypeOK /\ [Next]_vars => TypeOK'
  BY NextTypeOK
<1>3. QED BY <1>1, <1>2, PTL DEF Spec

-----------------------------------------------------------------------------
(* The slot table, the contexts and the controller stay in step.             *)

\* The start-up state satisfies the invariant: nothing is registered.
LEMMA InitFilterInv == Init => FilterInv
<1>1. SUFFICES ASSUME Init PROVE FilterInv
  OBVIOUS
<1>2. TypeOK
  BY <1>1, InitTypeOK
<1>3. \A c \in Client : client[c].pc = "idle"
  BY <1>1 DEF Init, IdleClient
<1>4. \A h \in HwFilter : ~hw[h].installed
  BY <1>1 DEF Init, FreeHwFilter
<1>5. QED BY <1>2, <1>3, <1>4 DEF FilterInv, RegistrationsConsistent, AddersHoldTheMutex,
             OwnedFiltersInstalled, OwnsHwFilter, Registered

\* While the mutex is free nobody is adding a filter, and while c holds it
\* nobody else is.
LEMMA SingleAdder ==
    ASSUME FilterInv, NEW d \in Client,
           client[d].pc \in {"set_slot", "install", "publish"}
    PROVE  lock = d /\ lock # NoClient
BY CanProtocolAssumption DEF FilterInv, AddersHoldTheMutex

\* A registered client does not use the slot another client is adding to.
LEMMA RegisteredElsewhere ==
    ASSUME FilterInv, NEW s \in Slot, ~slots[s].used, NEW d \in Client, Registered(d)
    PROVE  client[d].slot # s
<1>1. slots[client[d].slot] = [used |-> TRUE, hw |-> client[d].hw, handler |-> d]
  BY Zenon DEF FilterInv, RegistrationsConsistent
<1>2. slots[client[d].slot].used
  BY <1>1
<1>3. QED BY <1>2

\* Registered clients use different slots.
LEMMA SlotsDistinct ==
    ASSUME FilterInv, NEW c \in Client, NEW d \in Client,
           Registered(c), Registered(d), client[c].slot = client[d].slot
    PROVE  c = d
<1>1. /\ slots[client[c].slot] = [used |-> TRUE, hw |-> client[c].hw, handler |-> c]
      /\ slots[client[d].slot] = [used |-> TRUE, hw |-> client[d].hw, handler |-> d]
  BY Zenon DEF FilterInv, RegistrationsConsistent
<1>2. slots[client[c].slot].handler = c /\ slots[client[d].slot].handler = d
  BY <1>1
<1>3. QED BY <1>2

\* Steps that leave the table alone keep the invariant.
LEMMA TableUnchanged ==
    ASSUME FilterInv, TypeOK', UNCHANGED tableVars
    PROVE  FilterInv'
BY DEF FilterInv, tableVars, RegistrationsConsistent, AddersHoldTheMutex,
       OwnedFiltersInstalled, OwnsHwFilter, Registered

\* Finding a slot.
LEMMA AddFindSlotInv ==
    ASSUME FilterInv, TypeOK', NEW c \in Client, AddFindSlot(c)
    PROVE  FilterInv'
<1> DEFINE s == FindFreeSlot
<1>1. s \in Slot /\ ~slots[s].used
  BY FindFreeSlotType DEF AddFindSlot
<1>2. HIDE DEF s
<1>3. /\ client' = [client EXCEPT ![c] = [client[c] EXCEPT !.pc = "set_slot", !.slot = s]]
      /\ context' = [context EXCEPT ![s].dev = TRUE]
      /\ UNCHANGED <<slots, hw>> /\ lock = NoClient /\ lock' = c
      /\ client[c].pc = "idle"
  BY DEF AddFindSlot, FilterInv, TypeOK, s
<1>4. \A d \in Client : d # c => client'[d] = client[d]
  BY <1>3 DEF FilterInv, TypeOK
<1>5. client'[c].pc = "set_slot" /\ client'[c].slot = s
  BY <1>3 DEF FilterInv, TypeOK, ClientState
<1>6. \A t \in Slot : t # s => context'[t] = context[t]
  BY <1>1, <1>3 DEF FilterInv, TypeOK
<1>7. context'[s].dev
  BY <1>1, <1>3 DEF FilterInv, TypeOK, Context
<1>8. RegistrationsConsistent'
  <2>1. \A d \in Client : Registered(d)' => d # c /\ Registered(d) /\ client[d].slot # s
                          /\ client[d].slot \in Slot
    BY <1>1, <1>4, <1>5, RegisteredElsewhere
    DEF Registered, FilterInv, TypeOK, ClientState
  <2>2. \A d \in Client : OwnsHwFilter(d)' <=> OwnsHwFilter(d)
    BY <1>3, <1>4, <1>5 DEF OwnsHwFilter
  <2>3. \A d \in Client : OwnsHwFilter(d) => d # c
    BY <1>3 DEF OwnsHwFilter
  <2>4. QED BY <1>3, <1>4, <1>6, <2>1, <2>2, <2>3 DEF FilterInv, RegistrationsConsistent
<1>9. AddersHoldTheMutex'
  <2>1. \A d \in Client : d # c => client[d].pc \notin {"set_slot", "install", "publish"}
    BY <1>3, SingleAdder
  <2>2. QED BY <1>1, <1>3, <1>4, <1>5, <1>7, <2>1 DEF AddersHoldTheMutex
<1>10. OwnedFiltersInstalled'
  BY <1>3, <1>4, <1>5 DEF FilterInv, OwnedFiltersInstalled, OwnsHwFilter
<1>11. QED BY <1>8, <1>9, <1>10 DEF FilterInv

\* Writing the slot's index into its context.
LEMMA AddSetContextSlotInv ==
    ASSUME FilterInv, TypeOK', NEW c \in Client, AddSetContextSlot(c)
    PROVE  FilterInv'
<1> DEFINE s == client[c].slot
<1>1. /\ client[c].pc = "set_slot" /\ s \in Slot
      /\ lock = c /\ ~slots[s].used /\ context[s].dev
  BY DEF AddSetContextSlot, FilterInv, TypeOK, ClientState, AddersHoldTheMutex
<1>2. HIDE DEF s
<1>3. /\ client' = [client EXCEPT ![c].pc = "install"]
      /\ context' = [context EXCEPT ![s].slot = s]
      /\ UNCHANGED <<slots, hw, lock>>
  BY DEF AddSetContextSlot, ClientGoto, s
<1>4. /\ \A d \in Client : d # c => client'[d] = client[d]
      /\ client'[c].pc = "install" /\ client'[c].slot = s
  BY <1>3 DEF FilterInv, TypeOK, ClientState, s
<1>5. \A t \in Slot : t # s => context'[t] = context[t]
  BY <1>1, <1>3 DEF FilterInv, TypeOK
<1>6. context'[s].dev /\ context'[s].slot = s
  BY <1>1, <1>3 DEF FilterInv, TypeOK, Context
<1>7. RegistrationsConsistent'
  <2>1. \A d \in Client : Registered(d)' => d # c /\ Registered(d) /\ client[d].slot # s
                          /\ client[d].slot \in Slot
    BY <1>1, <1>4, RegisteredElsewhere DEF Registered, FilterInv, TypeOK, ClientState
  <2>2. \A d \in Client : /\ OwnsHwFilter(d)' <=> OwnsHwFilter(d)
                          /\ OwnsHwFilter(d) => d # c
    BY <1>1, <1>4 DEF OwnsHwFilter
  <2>3. QED BY <1>3, <1>4, <1>5, <2>1, <2>2 DEF FilterInv, RegistrationsConsistent
<1>8. AddersHoldTheMutex'
  <2>1. \A d \in Client : d # c => client[d].pc \notin {"set_slot", "install", "publish"}
    BY <1>1, SingleAdder
  <2>2. QED BY <1>1, <1>3, <1>4, <1>6, <2>1 DEF AddersHoldTheMutex
<1>9. OwnedFiltersInstalled'
  BY <1>1, <1>3, <1>4 DEF FilterInv, OwnedFiltersInstalled, OwnsHwFilter
<1>10. QED BY <1>7, <1>8, <1>9 DEF FilterInv

\* The controller accepts the filter.
LEMMA AddInstallInv ==
    ASSUME FilterInv, TypeOK', NEW c \in Client, NEW h \in HwFilter, AddInstall(c, h)
    PROVE  FilterInv'
<1> DEFINE e == [installed |-> TRUE, ids |-> Wants[c], slot |-> client[c].slot]
<1>1. /\ client[c].pc = "install" /\ ~hw[h].installed
      /\ hw' = [hw EXCEPT ![h] = e]
      /\ client' = [client EXCEPT ![c] = [client[c] EXCEPT !.pc = "publish", !.hw = h]]
      /\ UNCHANGED <<slots, context, lock>>
  BY DEF AddInstall, FilterInv, TypeOK
<1>2. /\ \A d \in Client : d # c => client'[d] = client[d]
      /\ client'[c].pc = "publish" /\ client'[c].slot = client[c].slot
      /\ client'[c].hw = h
  BY <1>1 DEF FilterInv, TypeOK, ClientState
<1>3. /\ \A g \in HwFilter : g # h => hw'[g] = hw[g]
      /\ hw'[h] = e /\ e.installed
  BY <1>1 DEF FilterInv, TypeOK
<1>4. \A d \in Client : OwnsHwFilter(d) => client[d].hw \in HwFilter /\ client[d].hw # h
                                           /\ d # c
  BY <1>1 DEF FilterInv, OwnedFiltersInstalled, OwnsHwFilter
<1>5. HIDE DEF e
<1>6. RegistrationsConsistent'
  <2>1. \A d \in Client : Registered(d)' => Registered(d) /\ OwnsHwFilter(d) /\ d # c
    BY <1>2 DEF Registered, OwnsHwFilter
  <2>2. \A d \in Client : OwnsHwFilter(d)' <=> (d = c \/ OwnsHwFilter(d))
    BY <1>2 DEF OwnsHwFilter
  <2>3. \A d \in Client : Registered(d)' =>
          /\ slots[client[d].slot] = [used |-> TRUE, hw |-> client[d].hw, handler |-> d]
          /\ context[client[d].slot] = [dev |-> TRUE, slot |-> client[d].slot]
          /\ hw[client[d].hw] = [installed |-> TRUE, ids |-> Wants[d],
                                 slot |-> client[d].slot]
    BY <2>1 DEF FilterInv, RegistrationsConsistent
  <2>4. \A d1, d2 \in Client :
          (OwnsHwFilter(d1)' /\ OwnsHwFilter(d2)' /\ client'[d1].hw = client'[d2].hw)
            => d1 = d2
    BY <1>2, <1>4, <2>2 DEF FilterInv, RegistrationsConsistent
  <2>5. \A g \in HwFilter : hw'[g].installed
                             => \E d \in Client : OwnsHwFilter(d)' /\ client'[d].hw = g
    BY <1>2, <1>3, <1>4, <2>2 DEF FilterInv, RegistrationsConsistent
  <2>6. QED BY <1>1, <1>2, <1>3, <1>4, <2>1, <2>3, <2>4, <2>5 DEF RegistrationsConsistent
<1>7. AddersHoldTheMutex'
  BY <1>1, <1>2 DEF FilterInv, AddersHoldTheMutex
<1>8. OwnedFiltersInstalled'
  <2>1. \A d \in Client : client'[d].pc = "publish" => d = c
    BY <1>1, <1>2 DEF FilterInv, AddersHoldTheMutex
  <2>2. ASSUME NEW d \in Client, OwnsHwFilter(d)'
        PROVE  /\ client'[d].hw \in HwFilter
               /\ hw'[client'[d].hw].installed
               /\ client'[d].pc = "publish" =>
                    hw'[client'[d].hw] = [installed |-> TRUE, ids |-> Wants[d],
                                          slot |-> client'[d].slot]
    <3>1. CASE d = c
      BY <1>1, <1>2, <1>3, <1>4, <3>1 DEF e
    <3>2. CASE d # c
      <4>1. OwnsHwFilter(d) /\ client'[d] = client[d] /\ client[d].pc # "publish"
        BY <1>1, <1>2, <2>1, <2>2, <3>2 DEF OwnsHwFilter
      <4>2. client[d].hw \in HwFilter /\ hw[client[d].hw].installed
        BY <4>1 DEF FilterInv, OwnedFiltersInstalled
      <4>3. QED BY <1>1, <1>2, <1>3, <1>4, <4>1, <4>2
    <3>3. QED BY <3>1, <3>2
  <2>3. QED BY <2>2, Zenon DEF OwnedFiltersInstalled
<1>9. QED BY <1>6, <1>7, <1>8 DEF FilterInv

\* The controller refuses the filter: the mutex is released, the table is as
\* before but for the context of a slot that is not in use.
LEMMA AddInstallFailsInv ==
    ASSUME FilterInv, TypeOK', NEW c \in Client, AddInstallFails(c)
    PROVE  FilterInv'
<1>1. /\ client[c].pc = "install"
      /\ client' = [client EXCEPT ![c].pc = "idle"]
      /\ UNCHANGED <<slots, context, hw>>
  BY DEF AddInstallFails, ClientGoto
<1>2. /\ \A d \in Client : d # c => client'[d] = client[d]
      /\ client'[c].pc = "idle"
  BY <1>1 DEF FilterInv, TypeOK, ClientState
<1>3. \A d \in Client : /\ Registered(d)' <=> Registered(d)
                        /\ OwnsHwFilter(d)' <=> OwnsHwFilter(d)
                        /\ OwnsHwFilter(d) => d # c
                        /\ Registered(d) => d # c
  BY <1>1, <1>2 DEF Registered, OwnsHwFilter
<1>4. RegistrationsConsistent'
  BY <1>1, <1>2, <1>3 DEF FilterInv, RegistrationsConsistent
<1>5. AddersHoldTheMutex'
  BY <1>1, <1>2 DEF FilterInv, AddersHoldTheMutex
<1>6. OwnedFiltersInstalled'
  BY <1>1, <1>2, <1>3 DEF FilterInv, OwnedFiltersInstalled
<1>7. QED BY <1>4, <1>5, <1>6 DEF FilterInv

\* The slot is published.
LEMMA AddPublishInv ==
    ASSUME FilterInv, TypeOK', NEW c \in Client, AddPublish(c)
    PROVE  FilterInv'
<1> DEFINE s == client[c].slot
<1>1. /\ client[c].pc = "publish" /\ s \in Slot
      /\ ~slots[s].used /\ context[s].dev /\ context[s].slot = s
      /\ hw[client[c].hw] = [installed |-> TRUE, ids |-> Wants[c], slot |-> s]
  BY DEF AddPublish, FilterInv, TypeOK, ClientState, AddersHoldTheMutex,
         OwnedFiltersInstalled, OwnsHwFilter
<1>2. /\ slots' = [slots EXCEPT ![s] = [used |-> TRUE, hw |-> client[c].hw, handler |-> c]]
      /\ client' = [client EXCEPT ![c].pc = "registered"]
      /\ UNCHANGED <<context, hw>>
  BY DEF AddPublish, ClientGoto
<1>3. /\ \A d \in Client : d # c => client'[d] = client[d]
      /\ client'[c].pc = "registered" /\ client'[c].slot = s
      /\ client'[c].hw = client[c].hw
  BY <1>2 DEF FilterInv, TypeOK, ClientState
<1>4. /\ \A t \in Slot : t # s => slots'[t] = slots[t]
      /\ slots'[s] = [used |-> TRUE, hw |-> client[c].hw, handler |-> c]
  BY <1>1, <1>2 DEF FilterInv, TypeOK
<1>5. context[s] = [dev |-> TRUE, slot |-> s]
  BY <1>1 DEF FilterInv, TypeOK, Context
<1>6. \A d \in Client : (d # c /\ Registered(d)) => client[d].slot # s
                                                   /\ client[d].slot \in Slot
  BY <1>1, RegisteredElsewhere DEF FilterInv, TypeOK, ClientState
<1>7. \A d \in Client : d # c => client[d].pc \notin {"set_slot", "install", "publish"}
  BY <1>1, SingleAdder
<1>8. HIDE DEF s
<1>9. \A d \in Client : /\ OwnsHwFilter(d)' <=> OwnsHwFilter(d)
                        /\ client'[d].hw = client[d].hw
  BY <1>1, <1>3 DEF OwnsHwFilter
<1>10. RegistrationsConsistent'
  <2>1. \A d \in Client : Registered(d)' =>
          /\ slots'[client'[d].slot] =
               [used |-> TRUE, hw |-> client'[d].hw, handler |-> d]
          /\ context'[client'[d].slot] = [dev |-> TRUE, slot |-> client'[d].slot]
          /\ hw'[client'[d].hw] = [installed |-> TRUE, ids |-> Wants[d],
                                   slot |-> client'[d].slot]
    <3>1. TAKE d \in Client
    <3>2. CASE d = c
      <4>1. slots'[client'[c].slot] = [used |-> TRUE, hw |-> client'[c].hw, handler |-> c]
        BY <1>3, <1>4
      <4>2. context'[client'[c].slot] = [dev |-> TRUE, slot |-> client'[c].slot]
        BY <1>2, <1>3, <1>5
      <4>3. hw'[client'[c].hw] = [installed |-> TRUE, ids |-> Wants[c],
                                  slot |-> client'[c].slot]
        BY <1>1, <1>2, <1>3
      <4>4. QED BY <3>2, <4>1, <4>2, <4>3
    <3>3. CASE d # c
      <4>1. client'[d] = client[d] /\ (Registered(d)' <=> Registered(d))
        BY <1>3, <3>3 DEF Registered
      <4>2. Registered(d) => slots'[client[d].slot] = slots[client[d].slot]
        BY <1>4, <1>6, <3>3
      <4>3. Registered(d) =>
              /\ slots[client[d].slot] =
                   [used |-> TRUE, hw |-> client[d].hw, handler |-> d]
              /\ context[client[d].slot] = [dev |-> TRUE, slot |-> client[d].slot]
              /\ hw[client[d].hw] = [installed |-> TRUE, ids |-> Wants[d],
                                     slot |-> client[d].slot]
        BY DEF FilterInv, RegistrationsConsistent
      <4>4. QED BY <1>2, <4>1, <4>2, <4>3
    <3>4. QED BY <3>2, <3>3
  <2>2. QED BY <1>2, <1>9, <2>1 DEF FilterInv, RegistrationsConsistent
<1>11. AddersHoldTheMutex'
  BY <1>3, <1>7 DEF AddersHoldTheMutex
<1>12. OwnedFiltersInstalled'
  BY <1>2, <1>3, <1>7, <1>9 DEF FilterInv, OwnedFiltersInstalled
<1>13. QED BY <1>10, <1>11, <1>12 DEF FilterInv

\* A slot is cleared under the mutex; its filter stays with the client.
LEMMA RemoveClearInv ==
    ASSUME FilterInv, TypeOK', NEW c \in Client, RemoveClear(c)
    PROVE  FilterInv'
<1> DEFINE s == client[c].slot
<1>1. client[c].pc = "registered" /\ Registered(c) /\ s \in Slot /\ lock = NoClient
  BY DEF RemoveClear, Registered, FilterInv, TypeOK, ClientState
<1>2. slots[s].hw = client[c].hw
  <2>1. slots[s] = [used |-> TRUE, hw |-> client[c].hw, handler |-> c]
    BY <1>1, Zenon DEF FilterInv, RegistrationsConsistent
  <2>2. QED BY <2>1
<1>3. /\ client' = [client EXCEPT ![c] = [client[c] EXCEPT !.pc = "unhook",
                                                           !.hw = client[c].hw]]
      /\ slots' = [slots EXCEPT ![s] = EmptySlot]
      /\ context' = [context EXCEPT ![s] = NoContext]
      /\ UNCHANGED <<hw, lock>>
  BY <1>2 DEF RemoveClear, FilterInv, TypeOK
<1>4. /\ \A d \in Client : d # c => client'[d] = client[d]
      /\ client'[c].pc = "unhook" /\ client'[c].hw = client[c].hw
  BY <1>3 DEF FilterInv, TypeOK, ClientState
<1>5. \A t \in Slot : t # s => slots'[t] = slots[t] /\ context'[t] = context[t]
  BY <1>1, <1>3 DEF FilterInv, TypeOK
<1>6. \A d \in Client : (d # c /\ Registered(d)) => client[d].slot # s
                                                   /\ client[d].slot \in Slot
  BY <1>1, SlotsDistinct DEF FilterInv, TypeOK, ClientState
<1>7. \A d \in Client : client[d].pc \notin {"set_slot", "install", "publish"}
  BY <1>1, SingleAdder
<1>8. HIDE DEF s
<1>9. \A d \in Client : /\ OwnsHwFilter(d)' <=> OwnsHwFilter(d)
                        /\ client'[d].hw = client[d].hw
  BY <1>1, <1>4 DEF OwnsHwFilter
<1>10. RegistrationsConsistent'
  <2>1. \A d \in Client : Registered(d)' => d # c /\ Registered(d)
    BY <1>4 DEF Registered
  <2>2. QED BY <1>3, <1>4, <1>5, <1>6, <1>9, <2>1 DEF FilterInv, RegistrationsConsistent
<1>11. AddersHoldTheMutex'
  BY <1>4, <1>7 DEF AddersHoldTheMutex
<1>12. OwnedFiltersInstalled'
  BY <1>3, <1>4, <1>7, <1>9 DEF FilterInv, OwnedFiltersInstalled
<1>13. QED BY <1>10, <1>11, <1>12 DEF FilterInv

\* The controller forgets the filter.
LEMMA RemoveUnhookInv ==
    ASSUME FilterInv, TypeOK', NEW c \in Client, RemoveUnhook(c)
    PROVE  FilterInv'
<1> DEFINE h == client[c].hw
<1>1. /\ client[c].pc = "unhook" /\ OwnsHwFilter(c) /\ h \in HwFilter
      /\ hw' = [hw EXCEPT ![h] = FreeHwFilter]
      /\ client' = [client EXCEPT ![c] = IdleClient]
      /\ UNCHANGED <<slots, context, lock>>
  BY DEF RemoveUnhook, FilterInv, OwnedFiltersInstalled, OwnsHwFilter
<1>2. /\ \A d \in Client : d # c => client'[d] = client[d]
      /\ client'[c].pc = "idle"
  BY <1>1 DEF FilterInv, TypeOK, IdleClient
<1>3. /\ \A g \in HwFilter : g # h => hw'[g] = hw[g]
      /\ ~hw'[h].installed
  BY <1>1 DEF FilterInv, TypeOK, FreeHwFilter
<1>4. \A d \in Client : (d # c /\ OwnsHwFilter(d)) => client[d].hw \in HwFilter
                                                      /\ client[d].hw # h
  BY <1>1 DEF FilterInv, RegistrationsConsistent, OwnedFiltersInstalled
<1>5. HIDE DEF h
<1>6. \A d \in Client : /\ OwnsHwFilter(d)' <=> (d # c /\ OwnsHwFilter(d))
                        /\ Registered(d)' <=> (d # c /\ Registered(d))
                        /\ Registered(d) => OwnsHwFilter(d)
  BY <1>1, <1>2 DEF OwnsHwFilter, Registered
<1>7. RegistrationsConsistent'
  <2>1. \A g \in HwFilter : hw'[g].installed
                             => \E d \in Client : OwnsHwFilter(d)' /\ client'[d].hw = g
    <3>1. SUFFICES ASSUME NEW g \in HwFilter, hw'[g].installed
                   PROVE  \E d \in Client : OwnsHwFilter(d)' /\ client'[d].hw = g
      OBVIOUS
    <3>2. g # h /\ hw[g].installed
      BY <1>3, <3>1
    <3>3. PICK d \in Client : OwnsHwFilter(d) /\ client[d].hw = g
      BY <3>2 DEF FilterInv, RegistrationsConsistent
    <3>4. d # c
      BY <3>2, <3>3 DEF h
    <3>5. QED BY <1>2, <1>6, <3>3, <3>4
  <2>2. QED BY <1>1, <1>2, <1>3, <1>4, <1>6, <2>1 DEF FilterInv, RegistrationsConsistent
<1>8. AddersHoldTheMutex'
  BY <1>1, <1>2 DEF FilterInv, AddersHoldTheMutex
<1>9. OwnedFiltersInstalled'
  BY <1>2, <1>3, <1>4, <1>6 DEF FilterInv, OwnedFiltersInstalled
<1>10. QED BY <1>7, <1>8, <1>9 DEF FilterInv

\* Every step keeps the invariant.
LEMMA NextFilterInv == FilterInv /\ [Next]_vars => FilterInv'
<1>1. SUFFICES ASSUME FilterInv, [Next]_vars PROVE FilterInv'
  OBVIOUS
<1>2. TypeOK'
  BY <1>1, NextTypeOK DEF FilterInv
<1>3. ASSUME NEW c \in Client, AddFindSlot(c) \/ RemoveClear(c) \/ FilterStep(c)
      PROVE  FilterInv'
  BY <1>1, <1>2, <1>3, AddFindSlotInv, RemoveClearInv, AddSetContextSlotInv,
     AddInstallInv, AddInstallFailsInv, AddPublishInv, RemoveUnhookInv DEF FilterStep
<1>4. ASSUME \/ Initialize \/ UNCHANGED vars
             \/ \E i \in Id, h \in HwFilter : RxCallback(i, h)
             \/ RxGet \/ RxLookup \/ RxCall
             \/ \E t \in Sender : PutAccepted(t) \/ PutTimeout(t)
             \/ \E t \in Sender, i \in Id : Send(t, i)
             \/ TxGet \/ TxCheck \/ TxSent \/ TxFailed
      PROVE  FilterInv'
  <2>1. UNCHANGED tableVars
    BY <1>4 DEF Initialize, vars, RxCallback, RxGet, RxLookup, RxCall, PutAccepted,
                PutTimeout, Send, TxGet, TxCheck, TxSent, TxFailed
  <2>2. QED BY <1>1, <1>2, <2>1, TableUnchanged
<1>5. QED BY <1>1, <1>3, <1>4 DEF Next

\* Each registered handler is reached through a slot, a context and a filter of
\* its own, and no filter of the controller outlives its owner, whatever the
\* number of clients and however their calls interleave.
THEOREM FiltersStayConsistent == Spec => []RegistrationsConsistent
<1>1. Init => FilterInv
  BY InitFilterInv
<1>2. FilterInv /\ [Next]_vars => FilterInv'
  BY NextFilterInv
<1>3. FilterInv => RegistrationsConsistent
  BY DEF FilterInv
<1>4. QED BY <1>1, <1>2, <1>3, PTL DEF Spec

-----------------------------------------------------------------------------
(***************************************************************************)
(* What the transport does with frames, in both directions.                *)
(*                                                                         *)
(* It delivers frames to the handlers they are meant for as long as no     *)
(* filter is removed, which is how the drivers of this repository use it   *)
(* once they are initialised.  A frame is matched by a filter in the       *)
(* interrupt and reaches a handler two queues later, through the index of  *)
(* a slot.  The invariant follows it: whatever waits with the index of a   *)
(* slot was admitted by the filter of the client that owns that slot, and  *)
(* the owner stays the same.                                               *)
(*                                                                         *)
(* The transmit half implements a bounded first-in first-out channel that  *)
(* may lose frames at its far end: every step of CanProtocol is a step of  *)
(* FrameChannel or leaves its variables alone.  That accepted frames do    *)
(* leave the channel is a matter of fairness, and is left to the model     *)
(* checker.                                                                *)
(***************************************************************************)

\* Slot s belongs to a client whose filter admits identifier i.
Admitted(s, i) ==
    \E c \in Client : OwnsHwFilter(c) /\ client[c].slot = s /\ i \in Wants[c]

\* Every slot in use was published by a registered client.
SlotsHaveOwners ==
    \A s \in Slot : slots[s].used => \E c \in Client : Registered(c) /\ client[c].slot = s

NobodyRemoves == \A c \in Client : client[c].pc # "unhook"

\* Events in the queue, and the one the dispatch thread has taken from it.
QueueAdmitted == \A n \in 1..Len(rxq) : Admitted(rxq[n].slot, rxq[n].frame)
LookupAdmitted == rx.pc = "lookup" => Admitted(rx.event.slot, rx.event.frame)

DispatchInv ==
    /\ FilterInv
    /\ NobodyRemoves
    /\ SlotsHaveOwners
    /\ QueueAdmitted
    /\ LookupAdmitted
    /\ HandlerGetsItsFrames

-----------------------------------------------------------------------------
\* Nothing is registered and nothing queued at start-up.
LEMMA InitDispatchInv == Init => DispatchInv
<1>1. SUFFICES ASSUME Init PROVE DispatchInv
  OBVIOUS
<1>2. FilterInv
  BY <1>1, InitFilterInv
<1>3. NobodyRemoves
  BY <1>1 DEF Init, NobodyRemoves, IdleClient
<1>4. SlotsHaveOwners
  BY <1>1 DEF Init, SlotsHaveOwners, EmptySlot
<1>5. QED BY <1>1, <1>2, <1>3, <1>4
          DEF Init, DispatchInv, QueueAdmitted, LookupAdmitted, HandlerGetsItsFrames

\* What the interrupt queues has been admitted by the owner of the slot it is
\* queued for.
LEMMA InterruptAdmits ==
    ASSUME DispatchInv, NEW h \in HwFilter, hw[h].installed, NEW i \in hw[h].ids
    PROVE  Admitted(context[hw[h].slot].slot, i)
<1>1. PICK c \in Client : OwnsHwFilter(c) /\ client[c].hw = h
  BY Zenon DEF DispatchInv, FilterInv, RegistrationsConsistent
<1>2. CASE client[c].pc = "publish"
  <2>1. hw[h] = [installed |-> TRUE, ids |-> Wants[c], slot |-> client[c].slot]
    BY <1>1, <1>2, Zenon DEF DispatchInv, FilterInv, OwnedFiltersInstalled
  <2>2. context[client[c].slot].slot = client[c].slot
    BY <1>2 DEF DispatchInv, FilterInv, AddersHoldTheMutex
  <2>3. hw[h].slot = client[c].slot /\ hw[h].ids = Wants[c]
    BY <2>1
  <2>4. QED BY <1>1, <2>2, <2>3 DEF Admitted
<1>3. CASE Registered(c)
  <2>1. /\ hw[h] = [installed |-> TRUE, ids |-> Wants[c], slot |-> client[c].slot]
        /\ context[client[c].slot] = [dev |-> TRUE, slot |-> client[c].slot]
    BY <1>1, <1>3, Zenon DEF DispatchInv, FilterInv, RegistrationsConsistent
  <2>2. /\ context[client[c].slot].slot = client[c].slot
        /\ hw[h].slot = client[c].slot /\ hw[h].ids = Wants[c]
    BY <2>1
  <2>3. QED BY <1>1, <2>2 DEF Admitted
<1>4. QED BY <1>1, <1>2, <1>3 DEF OwnsHwFilter, Registered, DispatchInv, NobodyRemoves

\* The handler the dispatch thread finds in a slot admits what waits for it.
LEMMA LookupFindsTheOwner ==
    ASSUME DispatchInv, NEW s \in Slot, slots[s].used, NEW i \in Id, Admitted(s, i)
    PROVE  i \in Wants[slots[s].handler]
<1>1. PICK c \in Client : OwnsHwFilter(c) /\ client[c].slot = s /\ i \in Wants[c]
  BY DEF Admitted
<1>2. PICK d \in Client : Registered(d) /\ client[d].slot = s
  BY DEF DispatchInv, SlotsHaveOwners
<1>3. client[c].pc # "publish"
  BY <1>1 DEF DispatchInv, FilterInv, AddersHoldTheMutex
<1>4. Registered(c)
  BY <1>1, <1>3 DEF OwnsHwFilter, Registered, DispatchInv, NobodyRemoves
<1>5. c = d
  BY <1>1, <1>2, <1>4, SlotsDistinct DEF DispatchInv
<1>6. slots[s] = [used |-> TRUE, hw |-> client[d].hw, handler |-> d]
  BY <1>2, Zenon DEF DispatchInv, FilterInv, RegistrationsConsistent
<1>7. slots[s].handler = d
  BY <1>6
<1>8. QED BY <1>1, <1>5, <1>7

\* What is admitted stays admitted while its owner keeps its slot.
LEMMA StaysAdmitted ==
    ASSUME NEW s, NEW i, Admitted(s, i),
           \A d \in Client : OwnsHwFilter(d) => OwnsHwFilter(d)' /\ client'[d].slot = client[d].slot
    PROVE  Admitted(s, i)'
BY DEF Admitted

\* A client that owns a filter keeps it and its slot; a slot in use keeps its
\* owner.
LEMMA OwnersStay ==
    ASSUME DispatchInv, [Next]_vars, \A c \in Client : ~RemoveClear(c)
    PROVE  /\ NobodyRemoves' /\ SlotsHaveOwners'
           /\ \A d \in Client : OwnsHwFilter(d) => OwnsHwFilter(d)' /\ client'[d].slot = client[d].slot
<1>1. CASE UNCHANGED <<slots, client>>
  BY <1>1 DEF DispatchInv, NobodyRemoves, SlotsHaveOwners, OwnsHwFilter, Registered
<1>2. ASSUME NEW c \in Client,
             \/ AddFindSlot(c)
             \/ AddSetContextSlot(c)
             \/ \E h \in HwFilter : AddInstall(c, h)
             \/ AddInstallFails(c)
      PROVE  /\ NobodyRemoves' /\ SlotsHaveOwners'
             /\ \A d \in Client : OwnsHwFilter(d) =>
                  OwnsHwFilter(d)' /\ client'[d].slot = client[d].slot
  <2>1. /\ \A d \in Client \ {c} : client'[d] = client[d]
        /\ client'[c].pc \in {"set_slot", "install", "publish", "idle"}
        /\ ~OwnsHwFilter(c)
        /\ slots' = slots
    <3>1. client \in [Client -> ClientState]
      BY DEF DispatchInv, FilterInv, TypeOK
    <3>2. CASE AddFindSlot(c)
      BY <3>1, <3>2 DEF AddFindSlot, ClientState, OwnsHwFilter
    <3>3. CASE AddSetContextSlot(c)
      BY <3>1, <3>3 DEF AddSetContextSlot, ClientGoto, ClientState, OwnsHwFilter
    <3>4. ASSUME NEW h \in HwFilter, AddInstall(c, h)
          PROVE  /\ \A d \in Client \ {c} : client'[d] = client[d]
                 /\ client'[c].pc = "publish"
                 /\ ~OwnsHwFilter(c)
                 /\ slots' = slots
      BY <3>1, <3>4 DEF AddInstall, ClientState, OwnsHwFilter
    <3>5. CASE AddInstallFails(c)
      BY <3>1, <3>5 DEF AddInstallFails, ClientGoto, ClientState, OwnsHwFilter
    <3>6. QED BY <1>2, <3>2, <3>3, <3>4, <3>5
  <2>2. \A d \in Client : OwnsHwFilter(d) => OwnsHwFilter(d)' /\ client'[d] = client[d]
    BY <2>1 DEF OwnsHwFilter
  <2>3. \A d \in Client : Registered(d) => Registered(d)' /\ client'[d] = client[d]
    BY <2>1, <2>2 DEF OwnsHwFilter, Registered
  <2>4. NobodyRemoves'
    BY <2>1 DEF DispatchInv, NobodyRemoves
  <2>5. SlotsHaveOwners'
    BY <2>1, <2>3 DEF DispatchInv, SlotsHaveOwners
  <2>6. QED BY <2>2, <2>4, <2>5
<1>3. ASSUME NEW c \in Client, AddPublish(c)
      PROVE  /\ NobodyRemoves' /\ SlotsHaveOwners'
             /\ \A d \in Client : OwnsHwFilter(d) =>
                  OwnsHwFilter(d)' /\ client'[d].slot = client[d].slot
  <2>1. /\ \A d \in Client \ {c} : client'[d] = client[d]
        /\ client'[c].pc = "registered"
        /\ client'[c].slot = client[c].slot
    BY <1>3 DEF DispatchInv, FilterInv, TypeOK, ClientState, AddPublish, ClientGoto
  <2>2. \A s \in Slot : s # client[c].slot => slots'[s] = slots[s]
    BY <1>3 DEF DispatchInv, FilterInv, TypeOK, AddPublish
  <2>3. \A d \in Client : OwnsHwFilter(d) => OwnsHwFilter(d)' /\ client'[d].slot = client[d].slot
    BY <2>1 DEF OwnsHwFilter
  <2>4. \A d \in Client : Registered(d) => Registered(d)' /\ client'[d].slot = client[d].slot
    BY <2>1 DEF Registered
  <2>5. NobodyRemoves'
    BY <2>1 DEF DispatchInv, NobodyRemoves
  <2>6. Registered(c)' /\ client'[c].slot = client[c].slot
    BY <2>1 DEF Registered
  <2>7. SlotsHaveOwners'
    BY <2>2, <2>4, <2>6 DEF DispatchInv, SlotsHaveOwners
  <2>8. QED BY <2>3, <2>5, <2>7
<1>4. \A c \in Client : ~RemoveClear(c) /\ ~RemoveUnhook(c)
  BY DEF RemoveUnhook, DispatchInv, NobodyRemoves
<1>5. ASSUME \/ Initialize \/ UNCHANGED vars
             \/ \E i \in Id, h \in HwFilter : RxCallback(i, h)
             \/ RxGet \/ RxLookup \/ RxCall
             \/ \E t \in Sender : PutAccepted(t) \/ PutTimeout(t)
             \/ \E t \in Sender, i \in Id : Send(t, i)
             \/ TxGet \/ TxCheck \/ TxSent \/ TxFailed
      PROVE  UNCHANGED <<slots, client>>
  BY <1>5 DEF Initialize, vars, tableVars, RxCallback, RxGet, RxLookup, RxCall, PutAccepted,
              PutTimeout, Send, TxGet, TxCheck, TxSent, TxFailed
<1>6. QED BY <1>1, <1>2, <1>3, <1>4, <1>5 DEF Next, FilterStep

\* The receive half takes one of its own steps, or stays as it is.
LEMMA ReceiveSideSteps ==
    ASSUME [Next]_vars
    PROVE  \/ UNCHANGED rxVars
           \/ \E i \in Id, h \in HwFilter : RxCallback(i, h)
           \/ RxGet \/ RxLookup \/ RxCall
<1>1. ASSUME NEW c \in Client, AddFindSlot(c) \/ RemoveClear(c) \/ FilterStep(c)
      PROVE  UNCHANGED rxVars
  BY <1>1 DEF FilterStep, AddFindSlot, RemoveClear, AddSetContextSlot, AddInstall,
              AddInstallFails, AddPublish, RemoveUnhook
<1>2. ASSUME NEW t \in Sender,
             PutAccepted(t) \/ PutTimeout(t) \/ \E i \in Id : Send(t, i)
      PROVE  UNCHANGED rxVars
  BY <1>2 DEF PutAccepted, PutTimeout, Send
<1>3. Initialize \/ TxGet \/ TxCheck \/ TxSent \/ TxFailed \/ UNCHANGED vars
        => UNCHANGED rxVars
  BY DEF Initialize, TxGet, TxCheck, TxSent, TxFailed, vars
<1>4. QED BY <1>1, <1>2, <1>3 DEF Next

\* Every step keeps the invariant if no filter is removed.
LEMMA NextDispatchInv ==
    ASSUME DispatchInv, [Next]_vars, \A c \in Client : ~RemoveClear(c)
    PROVE  DispatchInv'
<1>1. FilterInv' /\ TypeOK
  BY NextFilterInv DEF DispatchInv, FilterInv
<1>2. /\ NobodyRemoves' /\ SlotsHaveOwners'
      /\ \A d \in Client : OwnsHwFilter(d) => OwnsHwFilter(d)' /\ client'[d].slot = client[d].slot
  BY OwnersStay
<1>3. (\A n \in 1..Len(rxq') : Admitted(rxq'[n].slot, rxq'[n].frame)) => QueueAdmitted'
  BY <1>2 DEF QueueAdmitted, Admitted
<1>4. ASSUME Admitted(rx'.event.slot, rx'.event.frame) \/ rx'.pc # "lookup"
      PROVE  LookupAdmitted'
  BY <1>2, <1>4 DEF LookupAdmitted, Admitted
<1>5. SUFFICES /\ \A n \in 1..Len(rxq') : Admitted(rxq'[n].slot, rxq'[n].frame)
               /\ rx'.pc = "lookup" => Admitted(rx'.event.slot, rx'.event.frame)
               /\ HandlerGetsItsFrames'
  BY <1>1, <1>2, <1>3, <1>4 DEF DispatchInv
<1>6. CASE UNCHANGED rxVars
  BY <1>6
  DEF DispatchInv, QueueAdmitted, LookupAdmitted, HandlerGetsItsFrames, rxVars
<1>7. CASE \E i \in Id, h \in HwFilter : RxCallback(i, h)
  <2>1. PICK i \in Id, h \in HwFilter : RxCallback(i, h)
    BY <1>7
  <2> DEFINE s == context[hw[h].slot].slot
             e == [frame |-> i, slot |-> s]
  <2>2. rxq' = Append(rxq, e) /\ Admitted(s, i) /\ rx' = rx
    BY <2>1, InterruptAdmits DEF RxCallback
  <2>3. e \in Event /\ rxq \in Seq(Event)
    BY <1>1, <2>1 DEF TypeOK, RxCallback, HwEntry, Context, Event
  <2>4. e.frame = i /\ e.slot = s
    OBVIOUS
  <2> HIDE DEF e
  <2>5. Len(rxq') = Len(rxq) + 1 /\ rxq'[Len(rxq) + 1] = e
        /\ \A n \in 1..Len(rxq) : rxq'[n] = rxq[n]
    BY <2>2, <2>3
  <2>6. ASSUME NEW n \in 1..Len(rxq')
        PROVE  Admitted(rxq'[n].slot, rxq'[n].frame)
    <3>1. CASE n = Len(rxq) + 1
      BY <2>2, <2>4, <2>5, <3>1
    <3>2. CASE n \in 1..Len(rxq)
      BY <2>5, <3>2 DEF DispatchInv, QueueAdmitted
    <3>3. QED BY <2>3, <2>5, <3>1, <3>2
  <2>7. QED BY <2>2, <2>6 DEF DispatchInv, LookupAdmitted, HandlerGetsItsFrames
<1>8. CASE RxGet
  <2>1. rxq \in Seq(Event) /\ rxq # <<>> /\ rxq' = Tail(rxq)
    BY <1>1, <1>8 DEF TypeOK, RxGet
  <2>2. \A n \in 1..Len(rxq') : n + 1 \in 1..Len(rxq) /\ rxq'[n] = rxq[n + 1]
    BY <2>1
  <2>3. 1 \in 1..Len(rxq) /\ Head(rxq) = rxq[1]
    BY <2>1
  <2>4. rx'.pc = "lookup" /\ rx'.event = Head(rxq)
    BY <1>1, <1>8 DEF RxGet, TypeOK, RxThread
  <2>5. \A n \in 1..Len(rxq') : Admitted(rxq'[n].slot, rxq'[n].frame)
    BY <2>2 DEF DispatchInv, QueueAdmitted
  <2>6. Admitted(rx'.event.slot, rx'.event.frame)
    BY <2>3, <2>4 DEF DispatchInv, QueueAdmitted
  <2>7. QED BY <2>4, <2>5, <2>6 DEF HandlerGetsItsFrames
<1>9. CASE RxLookup
  <2>1. rx.pc = "lookup" /\ rxq' = rxq
    BY <1>9 DEF RxLookup
  <2>2. \A n \in 1..Len(rxq') : Admitted(rxq'[n].slot, rxq'[n].frame)
    BY <2>1 DEF DispatchInv, QueueAdmitted
  <2>3. CASE initialized /\ slots[rx.event.slot].used
    <3>1. rx'.pc = "call" /\ rx'.event = rx.event
          /\ rx'.handler = slots[rx.event.slot].handler
      BY <1>1, <1>9, <2>3 DEF RxLookup, TypeOK, RxThread
    <3>2. rx.event.slot \in Slot /\ rx.event.frame \in Id
      BY <1>1 DEF TypeOK, RxThread, Event
    <3>3. Admitted(rx.event.slot, rx.event.frame)
      BY <2>1 DEF DispatchInv, LookupAdmitted
    <3>4. rx.event.frame \in Wants[slots[rx.event.slot].handler]
      BY <2>3, <3>2, <3>3, LookupFindsTheOwner
    <3>5. QED BY <2>2, <3>1, <3>4 DEF HandlerGetsItsFrames
  <2>4. CASE ~(initialized /\ slots[rx.event.slot].used)
    <3>1. rx'.pc = "get"
      BY <1>1, <1>9, <2>4 DEF RxLookup, TypeOK, RxThread
    <3>2. QED BY <2>2, <3>1 DEF HandlerGetsItsFrames
  <2>5. QED BY <2>3, <2>4
<1>10. CASE RxCall
  <2>1. rx'.pc = "get" /\ rxq' = rxq
    BY <1>1, <1>10 DEF RxCall, TypeOK, RxThread
  <2>2. QED BY <2>1 DEF DispatchInv, QueueAdmitted, HandlerGetsItsFrames
<1>11. \/ UNCHANGED rxVars
       \/ \E i \in Id, h \in HwFilter : RxCallback(i, h)
       \/ RxGet \/ RxLookup \/ RxCall
  BY ReceiveSideSteps
<1>12. QED BY <1>6, <1>7, <1>8, <1>9, <1>10, <1>11

\* As long as no filter is removed a handler is only called with frames that
\* its own filter admits, for any number of clients, slots and controller
\* filters, queue lengths and failed registrations.
THEOREM HandlersGetTheirFrames ==
    ASSUME Remover = {}
    PROVE  Spec => []HandlerGetsItsFrames
<1>1. Init => DispatchInv
  BY InitDispatchInv
<1>2. DispatchInv /\ [Next]_vars => DispatchInv'
  BY NextDispatchInv DEF RemoveClear
<1>3. DispatchInv => HandlerGetsItsFrames
  BY DEF DispatchInv
<1>4. QED BY <1>1, <1>2, <1>3, PTL DEF Spec

-----------------------------------------------------------------------------
(***************************************************************************)
(* Once filters are only removed.  An event that waits for a slot was      *)
(* admitted by its handler or finds the slot free, and a filter that the   *)
(* controller still has after its slot was cleared has lost its context,   *)
(* so that the interrupt drops what it matches.                            *)
(***************************************************************************)

NobodyAdds == \A c \in Client : client[c].pc \notin {"set_slot", "install", "publish"}

\* The handler of slot s, if it has one, admits identifier i.
Deliverable(s, i) == slots[s].used => i \in Wants[slots[s].handler]

QueueDeliverable == \A n \in 1..Len(rxq) : Deliverable(rxq[n].slot, rxq[n].frame)
LookupDeliverable == rx.pc = "lookup" => Deliverable(rx.event.slot, rx.event.frame)

\* Between the two halves of a removal the filter finds no context.
RemovedAreSilent ==
    \A c \in Client : client[c].pc = "unhook" =>
      /\ hw[client[c].hw].slot = client[c].slot
      /\ ~context[client[c].slot].dev

RemovalInv ==
    /\ FilterInv
    /\ NobodyAdds
    /\ RemovedAreSilent
    /\ QueueDeliverable
    /\ LookupDeliverable
    /\ HandlerGetsItsFrames

\* It is where the transport stands when the last registration has ended.
LEMMA DispatchBecomesRemoval ==
    ASSUME DispatchInv, NobodyAdds
    PROVE  RemovalInv
<1>1. /\ rxq \in Seq(Event)
      /\ rx.event.slot \in Slot /\ rx.event.frame \in Id
  BY DEF DispatchInv, FilterInv, TypeOK, RxThread, Event
<1>2. \A s \in Slot, i \in Id : Admitted(s, i) => Deliverable(s, i)
  BY LookupFindsTheOwner DEF Deliverable
<1>3. QueueDeliverable
  <2>1. ASSUME NEW n \in 1..Len(rxq)
        PROVE  Deliverable(rxq[n].slot, rxq[n].frame)
    <3>1. rxq[n] \in Event
      BY <1>1
    <3>2. rxq[n].slot \in Slot /\ rxq[n].frame \in Id
      BY <3>1 DEF Event
    <3>3. QED BY <1>2, <3>2 DEF DispatchInv, QueueAdmitted
  <2>2. QED BY <2>1 DEF QueueDeliverable
<1>4. LookupDeliverable
  BY <1>1, <1>2 DEF DispatchInv, LookupAdmitted, LookupDeliverable
<1>5. RemovedAreSilent
  BY DEF DispatchInv, NobodyRemoves, RemovedAreSilent
<1>6. QED BY <1>3, <1>4, <1>5 DEF DispatchInv, RemovalInv

\* What the interrupt queues can be delivered: the filter that matched has a
\* registered owner, since that of a removed one has no context.
LEMMA InterruptDelivers ==
    ASSUME RemovalInv, NEW h \in HwFilter, hw[h].installed, NEW i \in hw[h].ids,
           context[hw[h].slot].dev
    PROVE  Deliverable(context[hw[h].slot].slot, i)
<1>1. PICK c \in Client : OwnsHwFilter(c) /\ client[c].hw = h
  BY Zenon DEF RemovalInv, FilterInv, RegistrationsConsistent
<1>2. Registered(c)
  BY <1>1 DEF OwnsHwFilter, Registered, RemovalInv, NobodyAdds, RemovedAreSilent
<1>3. /\ hw[h] = [installed |-> TRUE, ids |-> Wants[c], slot |-> client[c].slot]
      /\ context[client[c].slot] = [dev |-> TRUE, slot |-> client[c].slot]
      /\ slots[client[c].slot] = [used |-> TRUE, hw |-> client[c].hw, handler |-> c]
  BY <1>1, <1>2, Zenon DEF RemovalInv, FilterInv, RegistrationsConsistent
<1>4. /\ context[hw[h].slot].slot = client[c].slot /\ i \in Wants[c]
      /\ slots[client[c].slot].handler = c
  BY <1>3
<1>5. QED BY <1>4 DEF Deliverable

\* The two halves of a removal: no slot gets a handler, and no context a device.
LEMMA TableIsOnlyCleared ==
    ASSUME RemovalInv, [Next]_vars, \A c \in Client : ~AddFindSlot(c)
    PROVE  /\ NobodyAdds' /\ RemovedAreSilent'
           /\ \A s \in Slot : slots'[s] = slots[s] \/ ~slots'[s].used
<1>1. /\ client \in [Client -> ClientState] /\ slots \in [Slot -> SlotEntry]
      /\ context \in [Slot -> Context] /\ hw \in [HwFilter -> HwEntry]
  BY DEF RemovalInv, FilterInv, TypeOK
<1>2. ASSUME NEW c \in Client, RemoveClear(c)
      PROVE  /\ NobodyAdds' /\ RemovedAreSilent'
             /\ \A s \in Slot : slots'[s] = slots[s] \/ ~slots'[s].used
  <2> DEFINE s == client[c].slot
  <2>1. /\ s \in Slot /\ Registered(c)
        /\ client' = [client EXCEPT ![c] = [@ EXCEPT !.pc = "unhook", !.hw = slots[s].hw]]
        /\ slots' = [slots EXCEPT ![s] = EmptySlot]
        /\ context' = [context EXCEPT ![s] = NoContext]
        /\ hw' = hw
    BY <1>1, <1>2 DEF RemoveClear, ClientState, Registered
  <2>2. /\ slots[s] = [used |-> TRUE, hw |-> client[c].hw, handler |-> c]
        /\ hw[client[c].hw] = [installed |-> TRUE, ids |-> Wants[c], slot |-> s]
    BY <2>1, Zenon DEF RemovalInv, FilterInv, RegistrationsConsistent
  <2>3. slots[s].hw = client[c].hw /\ hw[client[c].hw].slot = s
    BY <2>2
  <2>4. /\ \A d \in Client \ {c} : client'[d] = client[d]
        /\ client'[c].pc = "unhook" /\ client'[c].slot = s /\ client'[c].hw = client[c].hw
    BY <1>1, <2>1, <2>3 DEF ClientState
  <2>5. \A t \in Slot : ~context[t].dev \/ t = s => ~context'[t].dev
    BY <1>1, <2>1 DEF NoContext
  <2>6. \A t \in Slot : slots'[t] = slots[t] \/ ~slots'[t].used
    BY <1>1, <2>1 DEF EmptySlot
  <2>7. NobodyAdds'
    BY <2>4 DEF RemovalInv, NobodyAdds
  <2>8. \A d \in Client : client[d].slot \in Slot
    BY <1>1 DEF ClientState
  <2> HIDE DEF s
  <2>9. RemovedAreSilent'
    BY <2>1, <2>3, <2>4, <2>5, <2>8 DEF RemovalInv, RemovedAreSilent
  <2>10. QED BY <2>6, <2>7, <2>9
<1>3. ASSUME NEW c \in Client, FilterStep(c)
      PROVE  /\ NobodyAdds' /\ RemovedAreSilent'
             /\ \A s \in Slot : slots'[s] = slots[s] \/ ~slots'[s].used
  <2>1. RemoveUnhook(c)
    BY <1>3 DEF FilterStep, AddSetContextSlot, AddInstall, AddInstallFails, AddPublish,
                RemovalInv, NobodyAdds
  <2>2. /\ \A d \in Client \ {c} : client'[d] = client[d]
        /\ client'[c].pc = "idle" /\ client[c].pc = "unhook"
        /\ slots' = slots /\ context' = context
        /\ hw' = [hw EXCEPT ![client[c].hw] = FreeHwFilter]
    BY <1>1, <2>1 DEF RemoveUnhook, IdleClient
  <2>3. NobodyAdds'
    BY <2>2 DEF RemovalInv, NobodyAdds
  <2>4. ASSUME NEW d \in Client, client'[d].pc = "unhook"
        PROVE  hw'[client'[d].hw].slot = client'[d].slot /\ ~context'[client'[d].slot].dev
    <3>1. d # c /\ client'[d] = client[d] /\ client[d].pc = "unhook"
      BY <2>2, <2>4
    <3>2. client[d].hw # client[c].hw /\ client[d].hw \in HwFilter
      BY <2>2, <3>1
      DEF RemovalInv, FilterInv, RegistrationsConsistent, OwnedFiltersInstalled, OwnsHwFilter
    <3>3. hw'[client[d].hw] = hw[client[d].hw]
      BY <1>1, <2>2, <3>2
    <3>4. QED BY <2>2, <3>1, <3>3 DEF RemovalInv, RemovedAreSilent
  <2>5. QED BY <2>2, <2>3, <2>4 DEF RemovedAreSilent
<1>4. ASSUME \/ Initialize \/ UNCHANGED vars
             \/ \E i \in Id, h \in HwFilter : RxCallback(i, h)
             \/ RxGet \/ RxLookup \/ RxCall
             \/ \E t \in Sender : PutAccepted(t) \/ PutTimeout(t)
             \/ \E t \in Sender, i \in Id : Send(t, i)
             \/ TxGet \/ TxCheck \/ TxSent \/ TxFailed
      PROVE  /\ NobodyAdds' /\ RemovedAreSilent'
             /\ \A s \in Slot : slots'[s] = slots[s] \/ ~slots'[s].used
  <2>1. UNCHANGED tableVars
    BY <1>4 DEF Initialize, vars, RxCallback, RxGet, RxLookup, RxCall, PutAccepted,
                PutTimeout, Send, TxGet, TxCheck, TxSent, TxFailed
  <2>2. QED BY <2>1 DEF tableVars, RemovalInv, NobodyAdds, RemovedAreSilent
<1>5. QED BY <1>2, <1>3, <1>4 DEF Next

\* Every step keeps the invariant if no filter is added.
LEMMA NextRemovalInv ==
    ASSUME RemovalInv, [Next]_vars, \A c \in Client : ~AddFindSlot(c)
    PROVE  RemovalInv'
<1>1. FilterInv' /\ TypeOK /\ TypeOK'
  BY NextFilterInv DEF RemovalInv, FilterInv
<1>2. /\ NobodyAdds' /\ RemovedAreSilent'
      /\ \A e \in Event : Deliverable(e.slot, e.frame) => Deliverable(e.slot, e.frame)'
  <2>1. \A e \in Event : e.slot \in Slot
    BY DEF Event
  <2>2. QED BY <2>1, TableIsOnlyCleared DEF Deliverable
<1>3. /\ rxq \in Seq(Event) /\ rxq' \in Seq(Event)
      /\ rx \in RxThread /\ rx' \in RxThread
      /\ rx.event \in Event /\ rx'.event \in Event
  BY <1>1 DEF TypeOK, RxThread
<1>4. /\ \A n \in 1..Len(rxq) : rxq[n] \in Event /\ Deliverable(rxq[n].slot, rxq[n].frame)
      /\ \A n \in 1..Len(rxq') : rxq'[n] \in Event
  BY <1>3 DEF RemovalInv, QueueDeliverable
<1>5. SUFFICES /\ \A n \in 1..Len(rxq') : Deliverable(rxq'[n].slot, rxq'[n].frame)
               /\ rx'.pc = "lookup" => Deliverable(rx'.event.slot, rx'.event.frame)
               /\ HandlerGetsItsFrames'
  BY <1>1, <1>2, <1>3, <1>4 DEF RemovalInv, QueueDeliverable, LookupDeliverable
<1>6. CASE UNCHANGED rxVars
  BY <1>4, <1>6 DEF rxVars, RemovalInv, LookupDeliverable, HandlerGetsItsFrames
<1>7. CASE \E i \in Id, h \in HwFilter : RxCallback(i, h)
  <2>1. PICK i \in Id, h \in HwFilter : RxCallback(i, h)
    BY <1>7
  <2> DEFINE s == context[hw[h].slot].slot
             e == [frame |-> i, slot |-> s]
  <2>2. rxq' = Append(rxq, e) /\ Deliverable(s, i) /\ rx' = rx
    BY <2>1, InterruptDelivers DEF RxCallback
  <2>3. e \in Event
    BY <1>1, <2>1 DEF TypeOK, RxCallback, HwEntry, Context, Event
  <2>4. e.frame = i /\ e.slot = s
    OBVIOUS
  <2> HIDE DEF e
  <2>5. /\ Len(rxq') = Len(rxq) + 1 /\ rxq'[Len(rxq) + 1] = e
        /\ \A n \in 1..Len(rxq) : rxq'[n] = rxq[n]
    BY <1>3, <2>2, <2>3
  <2>6. ASSUME NEW n \in 1..Len(rxq')
        PROVE  Deliverable(rxq'[n].slot, rxq'[n].frame)
    <3>1. CASE n = Len(rxq) + 1
      BY <2>2, <2>4, <2>5, <3>1
    <3>2. CASE n \in 1..Len(rxq)
      BY <1>4, <2>5, <3>2
    <3>3. QED BY <1>3, <2>5, <3>1, <3>2
  <2>7. QED BY <2>2, <2>6 DEF RemovalInv, LookupDeliverable, HandlerGetsItsFrames
<1>8. CASE RxGet
  <2>1. rxq # <<>> /\ rxq' = Tail(rxq) /\ rx'.pc = "lookup" /\ rx'.event = Head(rxq)
    BY <1>3, <1>8 DEF RxGet, RxThread
  <2>2. \A n \in 1..Len(rxq') : n + 1 \in 1..Len(rxq) /\ rxq'[n] = rxq[n + 1]
    BY <1>3, <2>1
  <2>3. 1 \in 1..Len(rxq) /\ Head(rxq) = rxq[1]
    BY <1>3, <2>1
  <2>4. \A n \in 1..Len(rxq') : Deliverable(rxq'[n].slot, rxq'[n].frame)
    BY <1>4, <2>2
  <2>5. Deliverable(rx'.event.slot, rx'.event.frame)
    BY <1>4, <2>1, <2>3
  <2>6. QED BY <2>1, <2>4, <2>5 DEF HandlerGetsItsFrames
<1>9. CASE RxLookup
  <2>1. rx.pc = "lookup" /\ rxq' = rxq
    BY <1>9 DEF RxLookup
  <2>2. Deliverable(rx.event.slot, rx.event.frame)
    BY <2>1 DEF RemovalInv, LookupDeliverable
  <2>3. \/ rx'.pc = "get"
        \/ /\ rx'.pc = "call" /\ rx'.event = rx.event
           /\ slots[rx.event.slot].used
           /\ rx'.handler = slots[rx.event.slot].handler
    BY <1>3, <1>9 DEF RxLookup, RxThread
  <2>4. QED BY <1>4, <2>1, <2>2, <2>3 DEF Deliverable, HandlerGetsItsFrames
<1>10. CASE RxCall
  BY <1>3, <1>4, <1>10 DEF RxCall, RxThread, HandlerGetsItsFrames
<1>11. \/ UNCHANGED rxVars
       \/ \E i \in Id, h \in HwFilter : RxCallback(i, h)
       \/ RxGet \/ RxLookup \/ RxCall
  BY ReceiveSideSteps
<1>12. QED BY <1>6, <1>7, <1>8, <1>9, <1>10, <1>11

-----------------------------------------------------------------------------
(* The transmit half. *)

\* The frame the transmit thread holds, and the content of the channel.
Held == IF tx.pc = "get" THEN <<>> ELSE <<tx.frame>>
Inbox == Held \o txq

\* A frame put before a queue is its head, and what is behind it its tail.
LEMMA ConsSeq ==
    ASSUME NEW S, NEW x \in S, NEW q \in Seq(S)
    PROVE  /\ <<x>> \o q \in Seq(S) /\ <<x>> \o q # <<>>
           /\ Head(<<x>> \o q) = x /\ Tail(<<x>> \o q) = q
           /\ Len(<<x>> \o q) = Len(q) + 1
<1>1. <<x>> \in Seq(S) /\ Len(<<x>>) = 1 /\ <<x>>[1] = x
  OBVIOUS
<1>2. /\ <<x>> \o q \in Seq(S) /\ Len(<<x>> \o q) = Len(q) + 1
      /\ (<<x>> \o q)[1] = x
      /\ \A i \in 1..Len(q) : (<<x>> \o q)[i + 1] = q[i]
  BY <1>1
<1>3. Len(Tail(<<x>> \o q)) = Len(q) /\ Tail(<<x>> \o q) \in Seq(S)
  BY <1>2
<1>4. \A i \in 1..Len(q) : Tail(<<x>> \o q)[i] = q[i]
  BY <1>2
<1>5. Tail(<<x>> \o q) = q
  BY <1>3, <1>4, SeqEqual
<1>6. QED BY <1>2, <1>5

\* The types of the two ends, and the room left in the channel.
LEMMA InboxType ==
    ASSUME TypeOK
    PROVE  /\ Inbox \in Seq(Id) /\ Len(Inbox) <= TxQueueLen + 1
           /\ Len(Inbox) <= Len(txq) + 1
           /\ tx.pc = "get" => Inbox = txq
           /\ tx.pc # "get" => Inbox = <<tx.frame>> \o txq
<1>1. txq \in Seq(Id) /\ Len(txq) <= TxQueueLen /\ tx.frame \in Id /\ TxQueueLen \in Nat
  BY CanProtocolAssumption DEF TypeOK, TxThread
<1>2. CASE tx.pc = "get"
  <2>1. <<>> \o txq = txq
    BY <1>1, ConcatEmptySeq
  <2>2. QED BY <1>1, <1>2, <2>1 DEF Inbox, Held
<1>3. CASE tx.pc # "get"
  BY <1>1, <1>3, ConsSeq DEF Inbox, Held
<1>4. QED BY <1>2, <1>3

\* The send steps, seen through the channel.
LEMMA SendSteps ==
    ASSUME TypeOK, TypeOK'
    PROVE  /\ \A t \in Sender : PutAccepted(t) =>
                /\ Len(Inbox) < TxQueueLen + 1
                /\ sender[t].frame \in Id
                /\ Inbox' = Append(Inbox, sender[t].frame) /\ bus' = bus
           /\ TxGet => Inbox' = Inbox /\ bus' = bus
           /\ TxCheck => /\ Inbox' = Inbox \/ (Inbox # <<>> /\ Inbox' = Tail(Inbox))
                         /\ bus' = bus
           /\ TxSent => /\ Inbox # <<>> /\ Inbox' = Tail(Inbox)
                        /\ bus' = Append(bus, Head(Inbox))
           /\ TxFailed => Inbox # <<>> /\ Inbox' = Tail(Inbox) /\ bus' = bus
<1>1. /\ txq \in Seq(Id) /\ tx \in TxThread /\ tx.frame \in Id
      /\ TxQueueLen \in Nat /\ sender \in [Sender -> SenderState]
  BY CanProtocolAssumption DEF TypeOK, TxThread
<1>2. ASSUME NEW t \in Sender, PutAccepted(t)
      PROVE  /\ Len(Inbox) < TxQueueLen + 1
             /\ sender[t].frame \in Id
             /\ Inbox' = Append(Inbox, sender[t].frame) /\ bus' = bus
  <2>1. /\ txq' = Append(txq, sender[t].frame) /\ Len(txq) < TxQueueLen
        /\ UNCHANGED <<tx, bus>>
        /\ sender[t].frame \in Id
    BY <1>1, <1>2 DEF PutAccepted, SenderState
  <2>2. Held \in Seq(Id) /\ Held' = Held
    BY <1>1, <2>1 DEF Held
  <2>3. Held \o Append(txq, sender[t].frame) = Append(Held \o txq, sender[t].frame)
    BY <1>1, <2>1, <2>2
  <2>4. Len(Inbox) < TxQueueLen + 1
    BY <1>1, <2>1, InboxType
  <2>5. QED BY <2>1, <2>2, <2>3, <2>4 DEF Inbox
<1>3. ASSUME TxGet PROVE Inbox' = Inbox /\ bus' = bus
  <2>1. /\ txq # <<>> /\ tx' = [pc |-> "check", frame |-> Head(txq)]
        /\ txq' = Tail(txq) /\ bus' = bus /\ tx.pc = "get"
    BY <1>3 DEF TxGet
  <2>2. Inbox = txq
    BY <2>1, InboxType
  <2>3. Inbox' = <<Head(txq)>> \o Tail(txq)
    BY <2>1 DEF Inbox, Held
  <2>4. txq = <<Head(txq)>> \o Tail(txq)
    BY <1>1, <2>1
  <2>5. QED BY <2>1, <2>2, <2>3, <2>4
<1>4. ASSUME tx.pc # "get"
      PROVE  Inbox # <<>> /\ Head(Inbox) = tx.frame /\ Tail(Inbox) = txq
  BY <1>1, <1>4, InboxType, ConsSeq
<1>5. ASSUME tx'.pc = "get", txq' = txq PROVE Inbox' = txq
  <2>1. <<>> \o txq = txq
    BY <1>1, ConcatEmptySeq
  <2>2. QED BY <1>5, <2>1 DEF Inbox, Held
<1>6. ASSUME TxCheck
      PROVE  (Inbox' = Inbox \/ (Inbox # <<>> /\ Inbox' = Tail(Inbox))) /\ bus' = bus
  <2>1. /\ tx.pc = "check" /\ tx' = [tx EXCEPT !.pc = IF initialized THEN "send" ELSE "get"]
        /\ UNCHANGED <<txq, bus>>
    BY <1>6 DEF TxCheck
  <2>2. CASE initialized
    <3>1. tx'.pc = "send" /\ tx'.frame = tx.frame
      BY <1>1, <2>1, <2>2 DEF TxThread
    <3>2. QED BY <2>1, <3>1 DEF Inbox, Held
  <2>3. CASE ~initialized
    <3>1. tx'.pc = "get"
      BY <1>1, <2>1, <2>3 DEF TxThread
    <3>2. QED BY <1>4, <1>5, <2>1, <3>1
  <2>4. QED BY <2>2, <2>3
<1>7. ASSUME TxSent \/ TxFailed
      PROVE  Inbox # <<>> /\ Head(Inbox) = tx.frame /\ Inbox' = Tail(Inbox)
  <2>1. tx.pc = "send" /\ tx' = [tx EXCEPT !.pc = "get"] /\ txq' = txq
    BY <1>7 DEF TxSent, TxFailed
  <2>2. tx'.pc = "get"
    BY <1>1, <2>1 DEF TxThread
  <2>3. QED BY <1>4, <1>5, <2>1, <2>2
<1>8. QED BY <1>2, <1>3, <1>6, <1>7 DEF TxSent, TxFailed

\* Accepted frames are put on the bus in the order of acceptance, each at most
\* once and none that was refused, for any queue length and any number of
\* senders.
THEOREM TransmitImplementsChannel == Spec => Channel!SafetySpec
<1>1. Init => Channel!Init
  <2>1. SUFFICES ASSUME Init PROVE Channel!Init
    OBVIOUS
  <2>2. tx.pc = "get" /\ txq = <<>> /\ bus = <<>>
    BY <2>1 DEF Init
  <2>3. <<>> \o <<>> = <<>>
    OBVIOUS
  <2>4. QED BY <2>2, <2>3 DEF Channel!Init
<1>2. TypeOK /\ TypeOK' /\ [Next]_vars => [Channel!Next]_(Channel!channelVars)
  <2>1. SUFFICES ASSUME TypeOK, TypeOK', [Next]_vars
                 PROVE  \/ \E f \in Id : Len(Inbox) < TxQueueLen + 1
                                         /\ Inbox' = Append(Inbox, f) /\ bus' = bus
                        \/ Inbox # <<>> /\ Inbox' = Tail(Inbox)
                           /\ bus' = Append(bus, Head(Inbox))
                        \/ Inbox # <<>> /\ Inbox' = Tail(Inbox) /\ bus' = bus
                        \/ Inbox' = Inbox /\ bus' = bus
    BY DEF Channel!Next, Channel!Accept, Channel!Transmit, Channel!GiveUp,
           Channel!channelVars, Inbox, Held
  <2>2. ASSUME UNCHANGED <<txq, tx, bus>> PROVE Inbox' = Inbox /\ bus' = bus
    BY <2>2 DEF Inbox, Held
  <2>3. ASSUME NEW c \in Client, AddFindSlot(c) \/ RemoveClear(c) \/ FilterStep(c)
        PROVE  UNCHANGED <<txq, tx, bus>>
    BY <2>3 DEF FilterStep, AddFindSlot, RemoveClear, AddSetContextSlot, AddInstall,
                AddInstallFails, AddPublish, RemoveUnhook, txVars
  <2>4. ASSUME NEW t \in Sender, PutTimeout(t) \/ \E i \in Id : Send(t, i)
        PROVE  UNCHANGED <<txq, tx, bus>>
    BY <2>4 DEF PutTimeout, Send
  <2>5. ASSUME \/ Initialize \/ UNCHANGED vars \/ RxGet \/ RxLookup \/ RxCall
               \/ \E i \in Id, h \in HwFilter : RxCallback(i, h)
        PROVE  UNCHANGED <<txq, tx, bus>>
    BY <2>5 DEF Initialize, vars, txVars, RxGet, RxLookup, RxCall, RxCallback
  <2>6. ASSUME NEW t \in Sender, PutAccepted(t)
        PROVE  \E f \in Id : Len(Inbox) < TxQueueLen + 1
                             /\ Inbox' = Append(Inbox, f) /\ bus' = bus
    BY <2>1, <2>6, SendSteps
  <2>7. QED BY <2>1, <2>2, <2>3, <2>4, <2>5, <2>6, SendSteps DEF Next
<1>3. Spec => []TypeOK
  BY TransportTypeCorrect
<1>4. QED BY <1>1, <1>2, <1>3, PTL DEF Spec, Channel!SafetySpec
=============================================================================
