----------------------------- MODULE UartParser ------------------------------
(***************************************************************************)
(* The frame parser of the UART protocol (uart_protocol_parse_byte and     *)
(* what it calls in drivers/uart_protocol/uart_protocol.c), fed with any   *)
(* bytes.  The buffers and their fill positions header_pos, payload_pos    *)
(* and crc_pos are sequences and their lengths; the fields of the frame    *)
(* are read off the header where the code has copied them.                 *)
(***************************************************************************)
EXTENDS UartFrame

VARIABLES
    state,       \* what the parser waits for
    header,      \* the header received so far
    payload,     \* the payload received so far
    crc,         \* the first byte of the checksum, once received
    dispatched,  \* the frame the last byte has completed, if any
    recent       \* the last bytes received, as many as a frame may have

parserVars == <<state, header, payload, crc>>
vars == <<parserVars, dispatched, recent>>

\* The buffers never hold more than they have room for: the length of a payload
\* comes from the wire, and must have been compared with the buffer before any
\* byte of the payload is stored.
TypeOK ==
    /\ state \in {"WAIT_SOF1", "WAIT_SOF2", "HEADER", "PAYLOAD", "CRC"}
    /\ header \in Seq(Byte) /\ Len(header) <= HEADER_SIZE
    /\ payload \in Seq(Byte) /\ Len(payload) <= MaxPayload
    /\ crc \in Seq(Byte) /\ Len(crc) <= 1
    /\ dispatched \in Seq(Frame) /\ Len(dispatched) <= 1
    /\ recent \in Seq(Byte) /\ Len(recent) <= MaxFrame

Init ==
    /\ state = "WAIT_SOF1"
    /\ header = <<>> /\ payload = <<>> /\ crc = <<>>
    /\ dispatched = <<>>
    /\ recent = <<>>

\* Mutant of Reset: the payload buffer keeps its position.
ResetHeaderOnly ==
    /\ state' = "WAIT_SOF1"
    /\ header' = <<>> /\ payload' = payload /\ crc' = <<>>

\* uart_protocol_parser_reset
Reset ==
    /\ state' = "WAIT_SOF1"
    /\ header' = <<>> /\ payload' = <<>> /\ crc' = <<>>

Goto(s) == state' = s

WaitSof1(b) ==
    /\ state = "WAIT_SOF1"
    /\ Goto(IF b = SOF1 THEN "WAIT_SOF2" ELSE "WAIT_SOF1")
    /\ dispatched' = <<>>
    /\ UNCHANGED <<header, payload, crc>>

\* Mutant of WaitSof2: anything but the second marker starts the search again.
WaitSof2Once(b) ==
    /\ state = "WAIT_SOF2"
    /\ Goto(IF b = SOF2 THEN "HEADER" ELSE "WAIT_SOF1")
    /\ dispatched' = <<>>
    /\ UNCHANGED <<header, payload, crc>>

\* A first marker may be the start of the frame even if the byte before it
\* was one too.
WaitSof2(b) ==
    /\ state = "WAIT_SOF2"
    /\ Goto(CASE b = SOF2 -> "HEADER"
              [] b = SOF1 -> "WAIT_SOF2"
              [] OTHER    -> "WAIT_SOF1")
    /\ dispatched' = <<>>
    /\ UNCHANGED <<header, payload, crc>>

\* Mutant of HeaderIsAcceptable: the length is not compared with the buffer.
VersionIsAcceptable(h) == VersionOf(h) = VERSION

\* uart_protocol_finish_header
HeaderIsAcceptable(h) ==
    /\ VersionOf(h) = VERSION
    /\ PayloadLenOf(h) <= MaxPayload

ReadHeader(b) ==
    /\ state = "HEADER"
    /\ dispatched' = <<>>
    /\ LET h == Append(header, b) IN
       \/ /\ Len(h) < HEADER_SIZE
          /\ header' = h
          /\ UNCHANGED <<state, payload, crc>>
       \/ /\ Len(h) = HEADER_SIZE
          /\ HeaderIsAcceptable(h)
          /\ header' = h
          /\ Goto(IF PayloadLenOf(h) = 0 THEN "CRC" ELSE "PAYLOAD")
          /\ UNCHANGED <<payload, crc>>
       \/ /\ Len(h) = HEADER_SIZE
          /\ ~HeaderIsAcceptable(h)
          /\ Reset

ReadPayload(b) ==
    /\ state = "PAYLOAD"
    /\ payload' = Append(payload, b)
    /\ Goto(IF Len(payload) + 1 >= PayloadLenOf(header) THEN "CRC" ELSE "PAYLOAD")
    /\ dispatched' = <<>>
    /\ UNCHANGED <<header, crc>>

ReadCrcLow(b) ==
    /\ state = "CRC"
    /\ crc = <<>>
    /\ crc' = <<b>>
    /\ dispatched' = <<>>
    /\ UNCHANGED <<state, header, payload>>

\* Mutant of SubmitFrame: the checksum is not compared.
SubmitAnyFrame(rx_crc) == dispatched' = <<FrameOf(header, payload)>>

\* uart_protocol_submit_frame
SubmitFrame(rx_crc) ==
    dispatched' = IF Crc(Checked(header, payload)) = rx_crc
                  THEN <<FrameOf(header, payload)>>
                  ELSE <<>>

ReadCrcHigh(b) ==
    /\ state = "CRC"
    /\ crc # <<>>
    /\ SubmitFrame(GetLe16(crc[1], b))
    /\ Reset

\* The last bytes of s that fit a frame.
Window(s) == IF Len(s) > MaxFrame THEN Tail(s) ELSE s

\* uart_protocol_parse_byte
ParseByte(b) ==
    /\ recent' = Window(Append(recent, b))
    /\ \/ WaitSof1(b)
       \/ WaitSof2(b)
       \/ ReadHeader(b)
       \/ ReadPayload(b)
       \/ ReadCrcLow(b)
       \/ ReadCrcHigh(b)

Next == \E b \in Byte : ParseByte(b)

Spec == Init /\ [][Next]_vars

-----------------------------------------------------------------------------
(***************************************************************************)
(* Properties.                                                             *)
(***************************************************************************)

\* The parser is not inside of a frame.
Idle == state \in {"WAIT_SOF1", "WAIT_SOF2"}

\* t is the end of s.
EndsWith(s, t) ==
    /\ Len(t) <= Len(s)
    /\ \A i \in 1..Len(t) : s[Len(s) - Len(t) + i] = t[i]

\* A frame is dispatched only when the last bytes received are exactly those
\* that uart_protocol_send_frame puts out for it: no field is taken from an
\* earlier frame, from a damaged one or from the wrong place, whatever bytes
\* came before.
DispatchedFramesWereReceived ==
    \A i \in 1..Len(dispatched) : EndsWith(recent, Encode(dispatched[i]))
=============================================================================
