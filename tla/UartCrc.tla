------------------------------- MODULE UartCrc -------------------------------
(***************************************************************************)
(* The checksum of the UART protocol (uart_protocol_crc16_update and       *)
(* uart_protocol_crc16 in drivers/uart_protocol/uart_protocol.c), and the  *)
(* mathematical definition it is checked against.  The code shifts a       *)
(* 16-bit register bit by bit; the definition is the remainder of a        *)
(* division of polynomials over the two-element field.                     *)
(***************************************************************************)
EXTENDS Integers, Sequences, FiniteSets, Bitwise, SequencesExt

CRC16_INIT == 65535    \* 0xFFFF
CRC16_POLY == 4129     \* 0x1021: x^12 + x^5 + 1, x^16 being shifted out

\* crc << 1, in 16 bits
ShiftLeft(crc) == (2 * crc) % 65536

\* Mutant of ShiftBit: the bit is looked at after it has been shifted out.
ShiftBitLate == [crc \in 0..65535 |->
    IF ShiftLeft(crc) >= 32768 THEN ShiftLeft(crc) ^^ CRC16_POLY ELSE ShiftLeft(crc)]

\* One turn of the loop over the bits: a bit shifted out subtracts the
\* polynomial.
ShiftBit == [crc \in 0..65535 |->
    IF crc >= 32768 THEN ShiftLeft(crc) ^^ CRC16_POLY ELSE ShiftLeft(crc)]

\* uart_protocol_crc16_update: the byte enters at the top of the register.
Crc16Update(crc, byte) ==
    LET after[turn \in 0..8] ==
          IF turn = 0 THEN crc ^^ (256 * byte) ELSE ShiftBit[after[turn - 1]]
    IN  after[8]

\* uart_protocol_crc16
Crc16(data) ==
    LET after[i \in 0..Len(data)] ==
          IF i = 0 THEN CRC16_INIT ELSE Crc16Update(after[i - 1], data[i])
    IN  after[Len(data)]

-----------------------------------------------------------------------------
(***************************************************************************)
(* The reference.  A polynomial is the set of its exponents; adding is     *)
(* taking the symmetric difference.                                        *)
(***************************************************************************)
Plus(p, q) == (p \ q) \cup (q \ p)
TimesX(p, n) == {e + n : e \in p}
Generator == {16, 12, 5, 0}

\* The polynomial of a sequence of bytes: the first bit has the highest
\* exponent.
Polynomial(data) ==
    {e \in 0..(8 * Len(data) - 1) :
       (data[Len(data) - (e \div 8)] \div 2^(e % 8)) % 2 = 1}

\* The remainder of p modulo the generator: its exponents are removed from the
\* highest one down, each by subtracting a multiple of the generator.
Remainder(p, degree) ==
    FoldLeft(LAMBDA r, n : LET e == degree - n IN
               IF e \in r THEN Plus(r, TimesX(Generator, e - 16)) ELSE r,
             p, [n \in 1..(degree - 16) |-> n])

NumberOf(p) == FoldLeft(LAMBDA sum, e : sum + (IF e \in p THEN 2^e ELSE 0), 0,
                        <<0, 1, 2, 3, 4, 5, 6, 7, 8, 9, 10, 11, 12, 13, 14, 15>>)

\* Sixteen zero bits are appended for the remainder, and the first sixteen
\* bits of the result are inverted: the register starts with all ones.
CrcReference(data) ==
    LET degree == 8 * Len(data) + 16
        ones == {e \in 0..(degree - 1) : e >= degree - 16}
    IN  NumberOf(Remainder(Plus(TimesX(Polynomial(data), 16), ones), degree))
=============================================================================
