---------------------------- MODULE GenMotorInit ----------------------------
(***************************************************************************)
(* The start of the gen-motor driver over the CAN transport:               *)
(* gen_motor_init and gen_motor_register_filters (gen_motor.c).  The       *)
(* driver registers one handler after the other with the transport, and    *)
(* takes back the ones it has when one is refused: there may be no free    *)
(* slot, or the controller may have no filter left.  Meanwhile other users *)
(* of the transport register and remove theirs, and frames come and go.    *)
(***************************************************************************)
EXTENDS CanProtocol

CONSTANTS
    Filters,        \* the registrations of the driver, in order
    NoHandle        \* -1

ASSUME GenMotorInitAssumption ==
    /\ Filters \in Seq(Client)
    /\ \A m, n \in DOMAIN Filters : Filters[m] = Filters[n] => m = n
    /\ NoHandle \notin Slot

VARIABLES
    init,           \* where gen_motor_init stands, and its loop variable plus 1
    handles,        \* data->filter_handles
    ready           \* data->initialized

initVars == <<init, handles, ready>>
allVars == <<vars, initVars>>

Own == {Filters[n] : n \in DOMAIN Filters}

\* The data of the driver is zero when it starts.
DriverInit ==
    /\ Init
    /\ init = [pc |-> "start", i |-> 1]
    /\ handles = [n \in DOMAIN Filters |-> 0]
    /\ ready = FALSE

Goto(l) == init' = [init EXCEPT !.pc = l]

\* gen_motor_init up to the registration: without the transport it returns
\* -ENODEV, else every handle becomes -1.
Begin ==
    /\ init.pc = "start"
    /\ IF initialized
       THEN Goto("register") /\ handles' = [n \in DOMAIN Filters |-> NoHandle]
       ELSE Goto("failed") /\ UNCHANGED handles
    /\ UNCHANGED <<vars, ready>>

\* The loop head: the next filter is asked for,
RegisterNext ==
    /\ init.pc = "register"
    /\ init.i <= Len(Filters)
    /\ AddFindSlot(Filters[init.i])
    /\ Goto("adding")
    /\ UNCHANGED <<handles, ready>>

\* and refused at once if the table is full;
NoSlotLeft ==
    /\ init.pc = "register"
    /\ init.i <= Len(Filters)
    /\ lock = NoClient
    /\ FreeSlots = {}
    /\ Goto("rollback")
    /\ UNCHANGED <<vars, handles, ready>>

\* or every filter is registered.
AllRegistered ==
    /\ init.pc = "register"
    /\ init.i > Len(Filters)
    /\ Goto("mark")
    /\ UNCHANGED <<vars, handles, ready>>

\* can_protocol_add_rx_filter has returned the handle: the index of the slot.
Added ==
    /\ init.pc = "adding"
    /\ Registered(Filters[init.i])
    /\ handles' = [handles EXCEPT ![init.i] = client[Filters[init.i]].slot]
    /\ init' = [pc |-> "register", i |-> init.i + 1]
    /\ UNCHANGED <<vars, ready>>

\* It has returned an error of the controller.
Refused ==
    /\ init.pc = "adding"
    /\ client[Filters[init.i]].pc = "idle"
    /\ Goto("rollback")
    /\ UNCHANGED <<vars, handles, ready>>

\* while (i > 0): the filter registered last is removed,
RollBackNext ==
    /\ init.pc = "rollback"
    /\ init.i > 1
    /\ RemoveClear(Filters[init.i - 1])
    /\ init' = [pc |-> "removing", i |-> init.i - 1]
    /\ UNCHANGED <<handles, ready>>

\* its handle forgotten,
Removed ==
    /\ init.pc = "removing"
    /\ client[Filters[init.i]].pc = "idle"
    /\ handles' = [handles EXCEPT ![init.i] = NoHandle]
    /\ Goto("rollback")
    /\ UNCHANGED <<vars, ready>>

\* Mutant of RolledBack: the loop stops before the first filter.
RolledBackButFirst ==
    /\ init.pc = "rollback"
    /\ init.i <= 2
    /\ Goto("failed")
    /\ UNCHANGED <<vars, handles, ready>>

\* and the error returned: the device never becomes ready.
RolledBack ==
    /\ init.pc = "rollback"
    /\ init.i = 1
    /\ Goto("failed")
    /\ UNCHANGED <<vars, handles, ready>>

MarkInitialized ==
    /\ init.pc = "mark"
    /\ ready' = TRUE
    /\ Goto("done")
    /\ UNCHANGED <<vars, handles>>

Driver ==
    \/ Begin
    \/ RegisterNext \/ NoSlotLeft \/ AllRegistered
    \/ Added \/ Refused
    \/ RollBackNext \/ Removed \/ RolledBack
    \/ MarkInitialized

\* The steps of the transport.  Users other than the driver come and go.
Transport ==
    \/ Initialize /\ UNCHANGED initVars
    \/ \E c \in Client \ Own : AddFindSlot(c) /\ UNCHANGED initVars
    \/ \E c \in Client \ Own : RemoveClear(c) /\ UNCHANGED initVars
    \/ \E c \in Client : FilterStep(c) /\ UNCHANGED initVars
    \/ \E i \in Id, h \in HwFilter : RxCallback(i, h) /\ UNCHANGED initVars
    \/ (RxGet \/ RxLookup \/ RxCall) /\ UNCHANGED initVars
    \/ \E t \in Sender, i \in Id : Send(t, i) /\ UNCHANGED initVars
    \/ \E t \in Sender : PutAccepted(t) /\ UNCHANGED initVars
    \/ \E t \in Sender : PutTimeout(t) /\ UNCHANGED initVars
    \/ (TxGet \/ TxCheck) /\ UNCHANGED initVars
    \/ (TxSent \/ TxFailed) /\ UNCHANGED initVars

DriverNext == Driver \/ Transport

DriverSpec == DriverInit /\ [][DriverNext]_allVars

\* The thread that initialises the driver runs, and k_mutex_unlock hands the
\* mutex of the transport to it when it waits.
DriverFairness == Fairness /\ SF_allVars(Driver)

DriverFairSpec == DriverSpec /\ DriverFairness

-----------------------------------------------------------------------------
(***************************************************************************)
(* Properties.                                                             *)
(***************************************************************************)

\* What the transport and the controller still hold for the driver.
Leftovers ==
    {s \in Slot : slots[s].used /\ slots[s].handler \in Own}
      \cup {h \in HwFilter : hw[h].installed /\ \E c \in Own : client[c].hw = h}

\* When the initialisation has failed, no slot and no filter of the controller
\* is left behind with the handler of a device that is not ready; when it has
\* succeeded, each handle is the slot that calls the driver for its filter.
InitIsAllOrNothing ==
    /\ init.pc = "failed" =>
         /\ Leftovers = {}
         /\ \A c \in Own : client[c].pc = "idle"
    /\ ready => \A n \in DOMAIN Filters :
                  /\ handles[n] # NoHandle
                  /\ slots[handles[n]].used
                  /\ slots[handles[n]].handler = Filters[n]
                  /\ context[handles[n]] = [dev |-> TRUE, slot |-> handles[n]]

\* The initialisation ends, one way or the other, whatever the other users of
\* the transport do.
InitEnds == init.pc = "register" ~> init.pc \in {"done", "failed"}
=============================================================================
