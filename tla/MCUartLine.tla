----------------------------- MODULE MCUartLine ------------------------------
(***************************************************************************)
(* The parser on a faulty line, with the checksum of the code.             *)
(***************************************************************************)
EXTENDS UartLine, UartCrc

\* The response to an unknown command (-ENOENT), a frame full of bytes that
\* look like the start of another, and one that is too long to be sent.
MCMessage ==
    {Response(258, 0, -2, <<>>),
     [flags |-> 165, cmd |-> 23205, seq |-> 0, payload |-> <<SOF1, SOF2, VERSION>>],
     Response(258, 0, 0, <<1, 2>>)}

\* Bytes that mean something to the parser.
MCNoise == {0, SOF1, SOF2}

\* The checksum the parser computes bit by bit is the remainder of a division
\* of polynomials, for every header and payload it is about to check.
ChecksumIsTheRemainder ==
    crc # <<>> => Crc16(Checked(header, payload)) = CrcReference(Checked(header, payload))
=============================================================================
