---------------------------- MODULE CanProtocol -----------------------------
(***************************************************************************)
(* The CAN transport (drivers/can_protocol/can_protocol.c): a table of     *)
(* receive slots, each backed by a filter of the CAN controller; a receive *)
(* queue filled by the controller's interrupt and emptied by a dispatch    *)
(* thread; a transmit queue filled by callers and emptied by a transmit    *)
(* thread.                                                                 *)
(*                                                                         *)
(* One mutex protects the slot table.  The receive interrupt does not take *)
(* it: it may come between any two stores of a thread that holds it, and   *)
(* finds its way through the callback context of the slot.  The handler of *)
(* a slot is called with the mutex released.                               *)
(*                                                                         *)
(* A frame is represented by its identifier.  A client is one registration *)
(* (a handler with its user data and filter); the CAN controller and its   *)
(* driver are modelled by what this file expects of them.  Left out: the   *)
(* argument checks and the logging of bus state changes.                   *)
(***************************************************************************)
EXTENDS Naturals, Sequences, FiniteSets

CONSTANTS
    Id,             \* identifiers of the frames on the bus
    Client,         \* handlers that may be registered
    NoClient,       \* the handler of an empty slot: NULL
    Wants,          \* the identifiers that the filter of each client admits
    Remover,        \* the clients that remove their filter again
    SlotCount,      \* CONFIG_HXZP_CAN_PROTOCOL_MAX_RX_FILTERS
    HwFilter,       \* filters of the controller
    NoHwFilter,     \* CAN_PROTOCOL_INVALID_FILTER_ID
    RxQueueLen,     \* rx-queue-len of the devicetree
    TxQueueLen,     \* tx-queue-len of the devicetree
    Sender,         \* threads that send
    MaxBus          \* bound: a send starts while fewer frames are on the bus

ASSUME CanProtocolAssumption ==
    /\ Id # {}
    /\ Wants \in [Client -> SUBSET Id]
    /\ Remover \subseteq Client
    /\ SlotCount \in Nat \ {0}
    /\ RxQueueLen \in Nat \ {0}
    /\ TxQueueLen \in Nat \ {0}
    /\ MaxBus \in Nat
    /\ NoClient \notin Client
    /\ NoHwFilter \notin HwFilter

Slot == 0..(SlotCount - 1)

VARIABLES
    initialized,  \* can_protocol_init has succeeded
    slots,        \* the table of receive slots
    context,      \* what the interrupt finds for each slot
    hw,           \* the filters of the controller and their callback slot
    lock,         \* the client that holds the mutex, or NoClient
    client,       \* where each client stands, and its handle
    rxq, rx,      \* receive queue, dispatch thread
    txq, tx,      \* transmit queue, transmit thread
    sender,       \* where each sending thread stands
    bus           \* the frames the controller has sent

tableVars == <<slots, context, hw, lock, client>>
rxVars == <<rxq, rx>>
txVars == <<txq, tx, sender, bus>>
vars == <<initialized, tableVars, rxVars, txVars>>

SlotEntry == [used : BOOLEAN, hw : HwFilter \cup {NoHwFilter},
              handler : Client \cup {NoClient}]
EmptySlot == [used |-> FALSE, hw |-> NoHwFilter, handler |-> NoClient]

\* dev is NULL or the device; slot is read only when dev is not NULL.
Context == [dev : BOOLEAN, slot : Slot]
NoContext == [dev |-> FALSE, slot |-> 0]

HwEntry == [installed : BOOLEAN, ids : SUBSET Id, slot : Slot]
FreeHwFilter == [installed |-> FALSE, ids |-> {}, slot |-> 0]

ClientState == [pc : {"idle", "set_slot", "install", "publish", "registered", "unhook"},
                slot : Slot, hw : HwFilter \cup {NoHwFilter}]
IdleClient == [pc |-> "idle", slot |-> 0, hw |-> NoHwFilter]

Event == [frame : Id, slot : Slot]
RxThread == [pc : {"get", "lookup", "call"}, event : Event, handler : Client \cup {NoClient}]
TxThread == [pc : {"get", "check", "send"}, frame : Id]
SenderState == [pc : {"idle", "put"}, frame : Id]

TypeOK ==
    /\ initialized \in BOOLEAN
    /\ slots \in [Slot -> SlotEntry]
    /\ context \in [Slot -> Context]
    /\ hw \in [HwFilter -> HwEntry]
    /\ lock \in Client \cup {NoClient}
    /\ client \in [Client -> ClientState]
    /\ rxq \in Seq(Event) /\ Len(rxq) <= RxQueueLen
    /\ rx \in RxThread
    /\ txq \in Seq(Id) /\ Len(txq) <= TxQueueLen
    /\ tx \in TxThread
    /\ sender \in [Sender -> SenderState]
    /\ bus \in Seq(Id)

NoFrame == CHOOSE i \in Id : TRUE

Init ==
    /\ initialized = FALSE
    /\ slots = [s \in Slot |-> EmptySlot]
    /\ context = [s \in Slot |-> NoContext]
    /\ hw = [h \in HwFilter |-> FreeHwFilter]
    /\ lock = NoClient
    /\ client = [c \in Client |-> IdleClient]
    /\ rxq = <<>> /\ txq = <<>> /\ bus = <<>>
    /\ rx = [pc |-> "get", event |-> [frame |-> NoFrame, slot |-> 0],
             handler |-> NoClient]
    /\ tx = [pc |-> "get", frame |-> NoFrame]
    /\ sender = [t \in Sender |-> [pc |-> "idle", frame |-> NoFrame]]

\* can_protocol_init once every step of it has succeeded: the threads run and
\* the mutex is free.  When one fails the device is never ready.
Initialize ==
    /\ ~initialized
    /\ initialized' = TRUE
    /\ UNCHANGED <<tableVars, rxVars, txVars>>

-----------------------------------------------------------------------------
(***************************************************************************)
(* can_protocol_add_rx_filter, with the mutex held from AddFindSlot on.    *)
(***************************************************************************)
FreeSlots == {s \in Slot : ~slots[s].used}

\* Mutant of FindFreeSlot: the search does not look at the used flag.
FindAnySlot == 0

\* can_protocol_find_free_slot
FindFreeSlot == CHOOSE s \in FreeSlots : \A t \in FreeSlots : s <= t

ClientGoto(c, l) == client' = [client EXCEPT ![c].pc = l]

\* A slot is found, and its context gets the device; without a free slot the
\* call returns -ENOMEM.
AddFindSlot(c) ==
    /\ initialized
    /\ lock = NoClient
    /\ client[c].pc = "idle"
    /\ FreeSlots # {}
    /\ lock' = c
    /\ client' = [client EXCEPT ![c] = [@ EXCEPT !.pc = "set_slot",
                                                 !.slot = FindFreeSlot]]
    /\ context' = [context EXCEPT ![FindFreeSlot].dev = TRUE]
    /\ UNCHANGED <<initialized, slots, hw, rxVars, txVars>>

\* The context gets the index of its slot.
AddSetContextSlot(c) ==
    /\ client[c].pc = "set_slot"
    /\ context' = [context EXCEPT ![client[c].slot].slot = client[c].slot]
    /\ ClientGoto(c, "install")
    /\ UNCHANGED <<initialized, slots, hw, lock, rxVars, txVars>>

\* can_add_rx_filter succeeds with a free filter of the controller.
AddInstall(c, h) ==
    /\ client[c].pc = "install"
    /\ ~hw[h].installed
    /\ hw' = [hw EXCEPT ![h] = [installed |-> TRUE, ids |-> Wants[c],
                                slot |-> client[c].slot]]
    /\ client' = [client EXCEPT ![c] = [@ EXCEPT !.pc = "publish", !.hw = h]]
    /\ UNCHANGED <<initialized, slots, context, lock, rxVars, txVars>>

\* Mutant of AddInstallFails: the early return leaves the mutex locked.
AddInstallFailsLocked(c) ==
    /\ client[c].pc = "install"
    /\ ClientGoto(c, "idle")
    /\ UNCHANGED <<initialized, slots, context, hw, lock, rxVars, txVars>>

\* can_add_rx_filter fails: the context stays as it is.
AddInstallFails(c) ==
    /\ client[c].pc = "install"
    /\ ClientGoto(c, "idle")
    /\ lock' = NoClient
    /\ UNCHANGED <<initialized, slots, context, hw, rxVars, txVars>>

\* The slot is filled in, the mutex released and the handle returned.
AddPublish(c) ==
    /\ client[c].pc = "publish"
    /\ slots' = [slots EXCEPT ![client[c].slot] =
                   [used |-> TRUE, hw |-> client[c].hw, handler |-> c]]
    /\ ClientGoto(c, "registered")
    /\ lock' = NoClient
    /\ UNCHANGED <<initialized, context, hw, rxVars, txVars>>

(***************************************************************************)
(* can_protocol_remove_rx_filter: the slot is cleared under the mutex, the *)
(* filter of the controller removed after it.  Clearing the context is one *)
(* step: dev, which the interrupt looks at, is its first word.             *)
(***************************************************************************)

\* Mutant of RemoveClear: the slot is released, its filter forgotten.
RemoveForgetHw(c) ==
    /\ c \in Remover
    /\ lock = NoClient
    /\ client[c].pc = "registered"
    /\ slots' = [slots EXCEPT ![client[c].slot] = EmptySlot]
    /\ context' = [context EXCEPT ![client[c].slot] = NoContext]
    /\ client' = [client EXCEPT ![c] = IdleClient]
    /\ UNCHANGED <<initialized, hw, lock, rxVars, txVars>>

RemoveClear(c) ==
    /\ c \in Remover
    /\ lock = NoClient
    /\ client[c].pc = "registered"
    /\ slots[client[c].slot].used
    /\ client' = [client EXCEPT ![c] = [@ EXCEPT !.pc = "unhook",
                                                 !.hw = slots[client[c].slot].hw]]
    /\ slots' = [slots EXCEPT ![client[c].slot] = EmptySlot]
    /\ context' = [context EXCEPT ![client[c].slot] = NoContext]
    /\ UNCHANGED <<initialized, hw, lock, rxVars, txVars>>

RemoveUnhook(c) ==
    /\ client[c].pc = "unhook"
    /\ hw' = [hw EXCEPT ![client[c].hw] = FreeHwFilter]
    /\ client' = [client EXCEPT ![c] = IdleClient]
    /\ UNCHANGED <<initialized, slots, context, lock, rxVars, txVars>>

-----------------------------------------------------------------------------
(***************************************************************************)
(* Receiving.                                                              *)
(***************************************************************************)

\* Mutant of RxCallback: the event is stored without a look at the room left.
RxCallbackUnchecked(i, h) ==
    LET x == context[hw[h].slot] IN
    /\ hw[h].installed
    /\ i \in hw[h].ids
    /\ x.dev
    /\ Len(rxq) <= RxQueueLen
    /\ rxq' = Append(rxq, [frame |-> i, slot |-> x.slot])
    /\ UNCHANGED <<initialized, tableVars, rx, txVars>>

\* can_protocol_rx_callback, in the interrupt of the controller: a frame i
\* has matched filter h.  It is dropped when the context is empty or the
\* queue full.
RxCallback(i, h) ==
    LET x == context[hw[h].slot] IN
    /\ hw[h].installed
    /\ i \in hw[h].ids
    /\ x.dev
    /\ Len(rxq) < RxQueueLen
    /\ rxq' = Append(rxq, [frame |-> i, slot |-> x.slot])
    /\ UNCHANGED <<initialized, tableVars, rx, txVars>>

\* can_protocol_rx_thread_entry takes an event from the queue,
RxGet ==
    /\ rx.pc = "get"
    /\ rxq # <<>>
    /\ rx' = [rx EXCEPT !.pc = "lookup", !.event = Head(rxq)]
    /\ rxq' = Tail(rxq)
    /\ UNCHANGED <<initialized, tableVars, txVars>>

\* looks its handler up under the mutex, discarding the event of a slot that
\* is not in use,
RxLookup ==
    /\ rx.pc = "lookup"
    /\ lock = NoClient
    /\ rx' = IF initialized /\ slots[rx.event.slot].used
             THEN [rx EXCEPT !.pc = "call", !.handler = slots[rx.event.slot].handler]
             ELSE [rx EXCEPT !.pc = "get"]
    /\ UNCHANGED <<initialized, tableVars, rxq, txVars>>

\* and calls it with the mutex released.
RxCall ==
    /\ rx.pc = "call"
    /\ rx' = [rx EXCEPT !.pc = "get", !.handler = NoClient]
    /\ UNCHANGED <<initialized, tableVars, rxq, txVars>>

-----------------------------------------------------------------------------
(***************************************************************************)
(* Sending.                                                                *)
(***************************************************************************)

\* can_protocol_send, past its look at the initialized flag; before
\* initialisation it returns -ENODEV.
Send(t, i) ==
    /\ initialized
    /\ lock = NoClient
    /\ sender[t].pc = "idle"
    /\ Len(bus) < MaxBus
    /\ sender' = [sender EXCEPT ![t] = [pc |-> "put", frame |-> i]]
    /\ UNCHANGED <<initialized, tableVars, rxVars, txq, tx, bus>>

\* k_msgq_put finds room,
PutAccepted(t) ==
    /\ sender[t].pc = "put"
    /\ Len(txq) < TxQueueLen
    /\ txq' = Append(txq, sender[t].frame)
    /\ sender' = [sender EXCEPT ![t].pc = "idle"]
    /\ UNCHANGED <<initialized, tableVars, rxVars, tx, bus>>

\* Mutant of PutTimeout: the call waits for room for ever.
PutWaitsForever(t) ==
    /\ sender[t].pc = "put"
    /\ Len(txq) >= TxQueueLen
    /\ UNCHANGED vars

\* or gives up after CAN_PROTOCOL_TX_QUEUE_TIMEOUT.
PutTimeout(t) ==
    /\ sender[t].pc = "put"
    /\ Len(txq) >= TxQueueLen
    /\ sender' = [sender EXCEPT ![t].pc = "idle"]
    /\ UNCHANGED <<initialized, tableVars, rxVars, txq, tx, bus>>

\* can_protocol_tx_thread_entry
TxGet ==
    /\ tx.pc = "get"
    /\ txq # <<>>
    /\ tx' = [pc |-> "check", frame |-> Head(txq)]
    /\ txq' = Tail(txq)
    /\ UNCHANGED <<initialized, tableVars, rxVars, sender, bus>>

TxCheck ==
    /\ tx.pc = "check"
    /\ lock = NoClient
    /\ tx' = [tx EXCEPT !.pc = IF initialized THEN "send" ELSE "get"]
    /\ UNCHANGED <<initialized, tableVars, rxVars, txq, sender, bus>>

\* can_send has sent the frame,
TxSent ==
    /\ tx.pc = "send"
    /\ bus' = Append(bus, tx.frame)
    /\ tx' = [tx EXCEPT !.pc = "get"]
    /\ UNCHANGED <<initialized, tableVars, rxVars, txq, sender>>


\* or failed, at the latest after CAN_PROTOCOL_TX_TIMEOUT: the frame is lost.
TxFailed ==
    /\ tx.pc = "send"
    /\ tx' = [tx EXCEPT !.pc = "get"]
    /\ UNCHANGED <<initialized, tableVars, rxVars, txq, sender, bus>>

-----------------------------------------------------------------------------
\* The steps of a filter change once it has begun.
FilterStep(c) ==
    \/ AddSetContextSlot(c)
    \/ \E h \in HwFilter : AddInstall(c, h)
    \/ AddInstallFails(c)
    \/ AddPublish(c)
    \/ RemoveUnhook(c)

Next ==
    \/ Initialize
    \/ \E c \in Client : AddFindSlot(c) \/ RemoveClear(c) \/ FilterStep(c)
    \/ \E i \in Id, h \in HwFilter : RxCallback(i, h)
    \/ RxGet \/ RxLookup \/ RxCall
    \/ \E t \in Sender : PutAccepted(t) \/ PutTimeout(t)
    \/ \E t \in Sender, i \in Id : Send(t, i)
    \/ TxGet \/ TxCheck \/ TxSent \/ TxFailed

Spec == Init /\ [][Next]_vars

\* Threads that can run do run; k_mutex_unlock hands the mutex to a waiting
\* thread, so that a thread that waits for it again and again gets it; a
\* blocked send times out; handlers return.  Nobody is bound to send, to
\* register or to remove, and the bus need not carry any frame.
Fairness ==
    /\ WF_vars(Initialize)
    /\ \A c \in Client : WF_vars(FilterStep(c))
    /\ WF_vars(RxGet) /\ SF_vars(RxLookup) /\ WF_vars(RxCall)
    /\ \A t \in Sender : WF_vars(PutAccepted(t) \/ PutTimeout(t))
    /\ WF_vars(TxGet) /\ SF_vars(TxCheck) /\ WF_vars(TxSent \/ TxFailed)

FairSpec == Spec /\ Fairness

-----------------------------------------------------------------------------
(***************************************************************************)
(* Properties.                                                             *)
(***************************************************************************)

\* From the installation of its filter to its removal client c owns one filter
\* of the controller, which reports its identifiers through one slot.
OwnsHwFilter(c) == client[c].pc \in {"publish", "registered", "unhook"}

Registered(c) == client[c].pc = "registered"

\* The slot table, the callback contexts and the controller stay in step: each
\* registered handler is reached through a slot, a context and a filter that
\* are its own, and no filter of the controller outlives its owner.  Filters
\* are added and removed by several threads, installation may fail, and the
\* controller is told of a removal only after the mutex is released.
RegistrationsConsistent ==
    /\ \A c \in Client : Registered(c) =>
         /\ slots[client[c].slot] = [used |-> TRUE, hw |-> client[c].hw, handler |-> c]
         /\ context[client[c].slot] = [dev |-> TRUE, slot |-> client[c].slot]
         /\ hw[client[c].hw] = [installed |-> TRUE, ids |-> Wants[c],
                                slot |-> client[c].slot]
    /\ \A c, d \in Client : (OwnsHwFilter(c) /\ OwnsHwFilter(d) /\ client[c].hw = client[d].hw)
                              => c = d
    /\ \A h \in HwFilter : hw[h].installed
                             => \E c \in Client : OwnsHwFilter(c) /\ client[c].hw = h

\* A handler is only called with frames that its own filter admits.  It holds
\* as long as no slot of a removed filter is used again: gen_motor removes
\* filters only when its initialisation fails, and then adds no more.
HandlerGetsItsFrames ==
    rx.pc = "call" => rx.event.frame \in Wants[rx.handler]

\* The transmit path is a bounded first-in first-out channel that may lose
\* frames at its far end only; what the transmit thread holds is part of it.
Channel == INSTANCE FrameChannel
             WITH Frame <- Id,
                  Capacity <- TxQueueLen + 1,
                  inbox <- (IF tx.pc = "get" THEN <<>> ELSE <<tx.frame>>) \o txq,
                  outbox <- bus

\* Every send returns: room is found, or the wait times out, even if other
\* senders keep the queue full for ever.
SendReturns == \A t \in Sender : sender[t].pc = "put" ~> sender[t].pc = "idle"

\* A frame queued for a registered handler reaches it, unless the handler is
\* removed first: the dispatch thread is never locked out of the slot table,
\* however often filters come, fail to be installed and go.
QueuedFramesReachHandlers ==
    \A c \in Client :
      (Registered(c) /\ \E n \in 1..Len(rxq) : rxq[n].slot = client[c].slot)
        ~> (~Registered(c) \/ (rx.pc = "call" /\ rx.handler = c))
=============================================================================
