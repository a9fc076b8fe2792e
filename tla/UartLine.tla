------------------------------ MODULE UartLine -------------------------------
(***************************************************************************)
(* The UART frame parser at the end of a line that carries the frames of a *)
(* sender that uses the same driver.  The line may lose a byte, change it  *)
(* into another or bring one that nobody sent; a full receive ring loses   *)
(* bytes in the same way.                                                  *)
(***************************************************************************)
EXTENDS UartParser

CONSTANTS
    Message,      \* what is sent: frames without a sequence number
    Noise,        \* the bytes that faults bring
    MaxFrames,    \* bound: frames sent
    MaxFaults,    \* bound: faults of the line
    Resync        \* frames that may be missed after a fault

ASSUME UartLineAssumption ==
    /\ Message \subseteq Frame
    /\ Noise \subseteq Byte
    /\ MaxFrames \in Word          \* a sequence number of its own for each frame
    /\ MaxFaults \in Nat
    /\ Resync \in Nat

\* Resync frames, whichever they are, have as many bytes as the parser may take
\* after the markers of a frame that is none.
ASSUME ResyncAssumption ==
    \A m \in Message :
        MayBeSent(m) => Resync * (Len(m.payload) + HEADER_SIZE + 4) >= MaxFrame - 2

VARIABLES
    frame,        \* the frame last sent
    previous,     \* the frame sent before it
    line,         \* its bytes that have not arrived yet
    sent,         \* how many frames have been sent
    faults,       \* how many faults there have been
    aligned,      \* no fault has hit the frame, nor did it meet a parser that
                  \* was inside of another
    intact        \* how many frames, this one included, came without a fault
                  \* and without anything that looks like the start of a frame

lineVars == <<frame, previous, line, sent, faults, aligned, intact>>

NoFrame == [flags |-> 0, cmd |-> 0, seq |-> 0, payload |-> <<>>]

LineInit ==
    /\ Init
    /\ frame = NoFrame
    /\ previous = NoFrame
    /\ line = <<>>
    /\ sent = 0
    /\ faults = 0
    /\ aligned = FALSE
    /\ intact = 0

\* The two markers follow each other inside of the frame.
Ambiguous(bytes) ==
    \E i \in 2..(Len(bytes) - 1) : bytes[i] = SOF1 /\ bytes[i + 1] = SOF2

\* Another thread calls uart_protocol_send_frame, or uart_protocol_send_response
\* for the messages that are responses.
SendFrame(m) ==
    LET f == [m EXCEPT !.seq = sent + 1] IN
    /\ line = <<>>
    /\ sent < MaxFrames
    /\ MayBeSent(f)
    /\ frame' = f
    /\ previous' = frame
    /\ line' = Encode(f)
    /\ sent' = sent + 1
    /\ aligned' = Idle
    /\ intact' = IF Ambiguous(Encode(f)) THEN 0 ELSE intact + 1
    /\ UNCHANGED <<vars, faults>>

Deliver ==
    /\ line # <<>>
    /\ ParseByte(Head(line))
    /\ line' = Tail(line)
    /\ UNCHANGED <<frame, previous, sent, faults, aligned, intact>>

\* A fault, in the middle of a frame or between two.
Fault ==
    /\ faults < MaxFaults
    /\ faults' = faults + 1
    /\ aligned' = (aligned /\ line = <<>>)
    /\ intact' = 0
    /\ UNCHANGED <<frame, previous, sent>>

Lose ==
    /\ line # <<>>
    /\ Fault
    /\ line' = Tail(line)
    /\ UNCHANGED vars

Change(b) ==
    /\ line # <<>>
    /\ b # Head(line)
    /\ Fault
    /\ line' = Tail(line)
    /\ ParseByte(b)

Insert(b) ==
    /\ Fault
    /\ ParseByte(b)
    /\ UNCHANGED line

LineNext ==
    \/ \E m \in Message : SendFrame(m)
    \/ Deliver
    \/ Lose
    \/ \E b \in Noise : Change(b) \/ Insert(b)

LineSpec == LineInit /\ [][LineNext]_<<vars, lineVars>>

-----------------------------------------------------------------------------
(***************************************************************************)
(* Properties.                                                             *)
(***************************************************************************)

\* The step brings the last byte of the frame without a fault.
Completes == faults' = faults /\ Len(line) = 1 /\ line' = <<>>

\* A frame that arrives whole at a parser outside of any frame is dispatched,
\* unchanged, whatever the parser has seen before: a marker of noise just
\* before the frame, a rejected header, a damaged frame.
IntactFramesAreDispatched ==
    [][Completes /\ aligned => dispatched' = <<frame>>]_<<vars, lineVars>>


\* A fault may make the parser take noise or a payload for the start of a
\* frame, and swallow the start of the next frames with it; after at most
\* Resync of them it is in step again.  Only frames that hold the two markers
\* in their middle can keep it out of step for longer.
ParserResynchronises ==
    [][Completes /\ intact > Resync => dispatched' = <<frame>>]_<<vars, lineVars>>
=============================================================================
