------------------------------ MODULE UartFrame ------------------------------
(***************************************************************************)
(* The frames of the UART protocol (uart_protocol_send_frame,              *)
(* uart_protocol_send_response and the decoding of the header in           *)
(* drivers/uart_protocol/uart_protocol.c) as sequences of bytes:           *)
(*                                                                         *)
(*   SOF1 SOF2 | version flags cmd cmd seq seq len len | payload | crc crc *)
(*                                                                         *)
(* with 16-bit fields low byte first.                                      *)
(***************************************************************************)
EXTENDS Integers, Sequences

CONSTANTS
    MaxPayload,   \* UART_PROTOCOL_MAX_PAYLOAD_LEN
    Crc(_)        \* uart_protocol_crc16, of a sequence of bytes

ASSUME UartFrameAssumption == MaxPayload \in 0..65535

Byte == 0..255
Word == 0..65535

SOF1 == 165             \* 0xA5
SOF2 == 90              \* 0x5A
VERSION == 1
RSP_FLAG == 32768       \* 0x8000
HEADER_SIZE == 8
STATUS_SIZE == 2

\* No frame has more bytes than the buffer of uart_protocol_send_frame.
MaxFrame == 2 + HEADER_SIZE + MaxPayload + 2

\* uart_protocol_get_le16, uart_protocol_put_le16
GetLe16(low, high) == low + 256 * high
PutLe16(value) == <<value % 256, value \div 256>>

Frame == [flags : Byte, cmd : Word, seq : Word, payload : Seq(Byte)]

\* uart_protocol_send_frame returns -EMSGSIZE for any other.
MayBeSent(frame) == Len(frame.payload) <= MaxPayload

Header(frame) ==
    LET cmd == PutLe16(frame.cmd)
        seq == PutLe16(frame.seq)
        len == PutLe16(Len(frame.payload))
    IN  <<VERSION, frame.flags, cmd[1], cmd[2], seq[1], seq[2], len[1], len[2]>>


\* What the checksum covers.
Checked(header, payload) == header \o payload

\* The bytes uart_protocol_send_frame puts on the line.
Encode(frame) ==
    <<SOF1, SOF2>> \o Header(frame) \o frame.payload
                   \o PutLe16(Crc(Checked(Header(frame), frame.payload)))

\* The response flag is or-ed in: a command that has it keeps it.
ResponseCmd(cmd) == IF cmd >= RSP_FLAG THEN cmd ELSE cmd + RSP_FLAG

\* The frame of uart_protocol_send_response: the status, a signed 16-bit
\* number, comes before the payload.
Response(cmd, seq, status, payload) ==
    [flags |-> 0, cmd |-> ResponseCmd(cmd), seq |-> seq,
     payload |-> PutLe16(status % 65536) \o payload]

\* uart_protocol_finish_header: the fields of a frame from the header received.
VersionOf(header) == header[1]
PayloadLenOf(header) == GetLe16(header[7], header[8])
FrameOf(header, payload) ==
    [flags |-> header[2],
     cmd |-> GetLe16(header[3], header[4]),
     seq |-> GetLe16(header[5], header[6]),
     payload |-> payload]
=============================================================================
