---------------------------- MODULE FrameChannel ----------------------------
(***************************************************************************)
(* What the transmit half of the CAN transport promises its callers: a     *)
(* bounded first-in first-out channel.  A frame that has been accepted is  *)
(* put on the bus in the order of acceptance, or given up by the           *)
(* controller; it is never put there twice, and no frame that was refused  *)
(* is ever put there.                                                      *)
(***************************************************************************)
EXTENDS Naturals, Sequences

CONSTANTS Frame, Capacity

VARIABLES
    inbox,     \* accepted frames that have not left yet
    outbox     \* frames put on the bus, in order

channelVars == <<inbox, outbox>>

Init == inbox = <<>> /\ outbox = <<>>

Accept(f) ==
    /\ Len(inbox) < Capacity
    /\ inbox' = Append(inbox, f)
    /\ UNCHANGED outbox

Transmit ==
    /\ inbox # <<>>
    /\ inbox' = Tail(inbox)
    /\ outbox' = Append(outbox, Head(inbox))

GiveUp ==
    /\ inbox # <<>>
    /\ inbox' = Tail(inbox)
    /\ UNCHANGED outbox

Next == (\E f \in Frame : Accept(f)) \/ Transmit \/ GiveUp

SafetySpec == Init /\ [][Next]_channelVars

\* Every accepted frame leaves the channel.
Spec == SafetySpec /\ WF_channelVars(Transmit \/ GiveUp)
=============================================================================
