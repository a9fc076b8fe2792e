-------------------------- MODULE UartParserProofs ---------------------------
(***************************************************************************)
(* Proofs about the UART frame parser, for any bytes, any checksum and any *)
(* size of the payload buffer: no buffer is overrun, and whatever is       *)
(* dispatched has just been received, byte for byte; and, on a faulty      *)
(* line, a frame that arrives whole at a parser outside of another is      *)
(* dispatched as it was sent, and the parser is outside of any again a     *)
(* bounded number of frames after the last fault.                          *)
(*                                                                         *)
(* The second needs two strengthenings.  InStep relates the state of the   *)
(* parser to the fill of its buffers: once past the header, the length     *)
(* read from it is acceptable.  TakenIsTheTail relates the buffers to the  *)
(* line: together they hold the last bytes received, without a gap.  The   *)
(* third needs FrameFollowed: together they hold the part of the frame     *)
(* that has arrived.  The fourth needs a measure, Hunger: what a parser    *)
(* inside of a frame that is none may still take, which each byte lessens. *)
(***************************************************************************)
EXTENDS UartLine, SequenceTheorems, TLAPS

InStep ==
    /\ state \in {"WAIT_SOF1", "WAIT_SOF2"} => header = <<>>
    /\ state = "HEADER" => Len(header) < HEADER_SIZE
    /\ state \in {"WAIT_SOF1", "WAIT_SOF2", "HEADER"} => payload = <<>>
    /\ state # "CRC" => crc = <<>>
    /\ state \in {"PAYLOAD", "CRC"} => Len(header) = HEADER_SIZE /\ HeaderIsAcceptable(header)
    /\ state = "PAYLOAD" => Len(payload) < PayloadLenOf(header)
    /\ state = "CRC" => Len(payload) = PayloadLenOf(header)

Taken == ((<<SOF1, SOF2>> \o header) \o payload) \o crc

TakenIsTheTail ==
    /\ state = "WAIT_SOF2" => EndsWith(recent, <<SOF1>>)
    /\ ~Idle => EndsWith(recent, Taken)

ParserInv ==
    /\ TypeOK
    /\ InStep
    /\ TakenIsTheTail
    /\ DispatchedFramesWereReceived

-----------------------------------------------------------------------------
(***************************************************************************)
(* Lemmas about sequences and 16-bit fields.                               *)
(***************************************************************************)

\* MaxFrame is a number.
LEMMA MaxFrameType == MaxPayload \in Nat /\ MaxFrame = MaxPayload + 12
  BY UartFrameAssumption DEF MaxFrame, HEADER_SIZE

\* A byte at the end of a sequence belongs to its last part.
LEMMA AppendToConcat ==
    ASSUME NEW s \in Seq(Byte), NEW t \in Seq(Byte), NEW b \in Byte
    PROVE  Append(s \o t, b) = s \o Append(t, b)
<1>1. s \o t \in Seq(Byte) /\ <<b>> \in Seq(Byte)
  BY ConcatProperties
<1>2. Append(s \o t, b) = (s \o t) \o <<b>>
  BY <1>1, AppendIsConcat
<1>3. (s \o t) \o <<b>> = s \o (t \o <<b>>)
  BY <1>1, ConcatAssociative
<1>4. Append(t, b) = t \o <<b>>
  BY AppendIsConcat
<1>5. QED BY <1>2, <1>3, <1>4

\* What was the tail of the bytes received is, with the next byte, their tail
\* again: the window is never too short for it.
LEMMA TailGrows ==
    ASSUME NEW s \in Seq(Byte), NEW t \in Seq(Byte), NEW b \in Byte,
           Len(s) <= MaxFrame, Len(t) < MaxFrame, EndsWith(s, t)
    PROVE  /\ Window(Append(s, b)) \in Seq(Byte)
           /\ Len(Window(Append(s, b))) <= MaxFrame
           /\ EndsWith(Window(Append(s, b)), Append(t, b))
<1> DEFINE a == Append(s, b)
           u == Append(t, b)
<1>1. /\ a \in Seq(Byte) /\ Len(a) = Len(s) + 1 /\ a[Len(s) + 1] = b
      /\ \A i \in 1..Len(s) : a[i] = s[i]
  BY AppendProperties
<1>2. /\ u \in Seq(Byte) /\ Len(u) = Len(t) + 1 /\ u[Len(t) + 1] = b
      /\ \A i \in 1..Len(t) : u[i] = t[i]
  BY AppendProperties
<1>3. Len(s) \in Nat /\ Len(t) \in Nat
  BY LenProperties
<1>4. EndsWith(a, u)
  <2>1. Len(u) <= Len(a)
    BY <1>1, <1>2, <1>3 DEF EndsWith
  <2>2. ASSUME NEW i \in 1..Len(u)
        PROVE  a[Len(a) - Len(u) + i] = u[i]
    <3>1. CASE i = Len(t) + 1
      BY <3>1, <1>1, <1>2, <1>3
    <3>2. CASE i # Len(t) + 1
      <4>1. i \in 1..Len(t) /\ Len(a) - Len(u) + i = Len(s) - Len(t) + i
        BY <3>2, <1>1, <1>2, <1>3
      <4>2. s[Len(s) - Len(t) + i] = t[i] /\ Len(t) <= Len(s)
        BY <4>1 DEF EndsWith
      <4>3. Len(s) - Len(t) + i \in 1..Len(s)
        BY <4>1, <4>2, <1>3
      <4>4. QED BY <4>1, <4>2, <4>3, <1>1, <1>2
    <3>3. QED BY <3>1, <3>2
  <2>3. QED BY <2>1, <2>2 DEF EndsWith
<1>5. CASE Len(a) <= MaxFrame
  <2>1. Window(a) = a
    BY <1>5, <1>1, <1>3, MaxFrameType DEF Window
  <2>2. QED BY <2>1, <1>1, <1>4, <1>5
<1>6. CASE ~(Len(a) <= MaxFrame)
  <2>1. Window(a) = Tail(a)
    BY <1>6, <1>1, <1>3, MaxFrameType DEF Window
  <2>2. /\ Tail(a) \in Seq(Byte) /\ Len(Tail(a)) = Len(a) - 1
        /\ \A i \in 1..(Len(a) - 1) : Tail(a)[i] = a[i + 1]
    <3> HIDE DEF a
    <3>1. a # <<>>
      BY <1>1, <1>3
    <3>2. QED BY <3>1, <1>1, HeadTailProperties
  <2>3. Len(Tail(a)) = MaxFrame
    BY <2>2, <1>6, <1>1, <1>3, MaxFrameType
  <2>4. EndsWith(Tail(a), u)
    <3>1. Len(u) <= Len(Tail(a))
      BY <2>3, <1>2, <1>3, MaxFrameType
    <3>2. ASSUME NEW i \in 1..Len(u)
          PROVE  Tail(a)[Len(Tail(a)) - Len(u) + i] = u[i]
      <4>1. Len(Tail(a)) - Len(u) + i \in 1..(Len(a) - 1)
        BY <3>1, <2>2, <1>1, <1>2, <1>3
      <4>2. Len(Tail(a)) - Len(u) + i + 1 = Len(a) - Len(u) + i
        BY <2>2, <1>1, <1>2, <1>3
      <4>3. Tail(a)[Len(Tail(a)) - Len(u) + i] = a[Len(a) - Len(u) + i]
        <5> HIDE DEF a, u
        <5>1. QED BY <4>1, <4>2, <2>2
      <4>4. QED BY <4>3, <1>4 DEF EndsWith
    <3>3. QED BY <3>1, <3>2 DEF EndsWith
  <2>5. QED BY <2>1, <2>2, <2>3, <2>4, MaxFrameType
<1>7. QED BY <1>5, <1>6

\* A byte after a byte makes a pair.
LEMMA AppendToOne ==
    ASSUME NEW x \in Byte, NEW y \in Byte
    PROVE  Append(<<x>>, y) = <<x, y>>
<1>1. /\ <<x>> \in Seq(Byte) /\ Len(<<x>>) = 1 /\ <<x>>[1] = x
      /\ <<x, y>> \in Seq(Byte) /\ Len(<<x, y>>) = 2 /\ <<x, y>>[1] = x /\ <<x, y>>[2] = y
  OBVIOUS
<1> DEFINE s == <<x>>
           t == <<x, y>>
<1> HIDE DEF s, t
<1>2. /\ s \in Seq(Byte) /\ Len(s) = 1 /\ s[1] = x
      /\ t \in Seq(Byte) /\ Len(t) = 2 /\ t[1] = x /\ t[2] = y
  BY <1>1 DEF s, t
<1>3. /\ Append(s, y) \in Seq(Byte) /\ Len(Append(s, y)) = 2
      /\ Append(s, y)[1] = x /\ Append(s, y)[2] = y
  <2>1. /\ Append(s, y) \in Seq(Byte) /\ Len(Append(s, y)) = Len(s) + 1
        /\ \A i \in 1..Len(s) : Append(s, y)[i] = s[i]
        /\ Append(s, y)[Len(s) + 1] = y
    <3>1. s \in Seq(Byte)
      BY <1>2
    <3>2. QED BY <3>1, AppendProperties
  <2>2. QED BY <2>1, <1>2
<1>4. \A i \in 1..2 : Append(s, y)[i] = t[i]
  BY <1>2, <1>3
<1>5. Append(s, y) = t
  BY <1>2, <1>3, <1>4, SeqEqual
<1>6. QED BY <1>5 DEF s, t

\* Any sequence ends with nothing.
LEMMA EndsWithNothing ==
    ASSUME NEW s \in Seq(Byte)
    PROVE  EndsWith(s, <<>>)
  BY DEF EndsWith

\* Writing a 16-bit number gives back the two bytes it was read from.
LEMMA FieldRoundTrip ==
    ASSUME NEW low \in Byte, NEW high \in Byte
    PROVE  /\ GetLe16(low, high) \in Word /\ GetLe16(low, high) \in Nat
           /\ PutLe16(GetLe16(low, high)) = <<low, high>>
<1>1. GetLe16(low, high) = low + 256 * high
  BY DEF GetLe16
<1>2. (low + 256 * high) % 256 = low
  BY DEF Byte
<1>3. (low + 256 * high) \div 256 = high
  BY DEF Byte
<1>4. low + 256 * high \in Word /\ low + 256 * high \in Nat
  <2>1. low \in Int /\ 0 <= low /\ low <= 255 /\ high \in Int /\ 0 <= high /\ high <= 255
    BY DEF Byte
  <2> DEFINE value == low + 256 * high
  <2>2. value \in Int /\ 0 <= value /\ value <= 65535
    BY <2>1
  <2> HIDE DEF value
  <2>3. value \in Word /\ value \in Nat
    BY <2>2 DEF Word
  <2> QED
    BY <2>3 DEF value
<1>5. QED BY <1>1, <1>2, <1>3, <1>4 DEF PutLe16

\* The length in a header is a number.
LEMMA PayloadLenType ==
    ASSUME NEW h \in Seq(Byte), Len(h) = HEADER_SIZE
    PROVE  PayloadLenOf(h) \in Nat
<1>1. \A i \in 1..8 : h[i] \in Byte
  BY ElementOfSeq DEF HEADER_SIZE
<1>2. h[7] \in Byte /\ h[8] \in Byte
  BY <1>1
<1>3. QED BY <1>2, FieldRoundTrip DEF PayloadLenOf

\* The header of the frame read off an acceptable header is that header.
LEMMA HeaderRoundTrip ==
    ASSUME NEW h \in Seq(Byte), Len(h) = HEADER_SIZE, HeaderIsAcceptable(h),
           NEW p \in Seq(Byte), Len(p) = PayloadLenOf(h)
    PROVE  /\ FrameOf(h, p) \in Frame
           /\ Header(FrameOf(h, p)) = h
<1>1. /\ h[1] \in Byte /\ h[2] \in Byte /\ h[3] \in Byte /\ h[4] \in Byte
      /\ h[5] \in Byte /\ h[6] \in Byte /\ h[7] \in Byte /\ h[8] \in Byte
  <2>1. \A i \in 1..8 : h[i] \in Byte
    BY ElementOfSeq DEF HEADER_SIZE
  <2>2. QED BY <2>1
<1>2. h[1] = VERSION
  BY DEF HeaderIsAcceptable, VersionOf
<1>3. /\ PutLe16(GetLe16(h[3], h[4])) = <<h[3], h[4]>> /\ GetLe16(h[3], h[4]) \in Word
      /\ PutLe16(GetLe16(h[5], h[6])) = <<h[5], h[6]>> /\ GetLe16(h[5], h[6]) \in Word
      /\ PutLe16(Len(p)) = <<h[7], h[8]>>
  BY <1>1, FieldRoundTrip DEF PayloadLenOf
<1> DEFINE f == FrameOf(h, p)
<1>4. /\ f.flags = h[2] /\ f.cmd = GetLe16(h[3], h[4])
      /\ f.seq = GetLe16(h[5], h[6]) /\ f.payload = p
      /\ f \in Frame
  BY <1>1, <1>3 DEF FrameOf, Frame
<1>5. Header(f) = <<h[1], h[2], h[3], h[4], h[5], h[6], h[7], h[8]>>
  <2>1. /\ PutLe16(f.cmd)[1] = h[3] /\ PutLe16(f.cmd)[2] = h[4]
        /\ PutLe16(f.seq)[1] = h[5] /\ PutLe16(f.seq)[2] = h[6]
        /\ PutLe16(Len(f.payload))[1] = h[7] /\ PutLe16(Len(f.payload))[2] = h[8]
    BY <1>3, <1>4
  <2> HIDE DEF f
  <2>2. QED BY <2>1, <1>2, <1>4 DEF Header
<1>6. <<h[1], h[2], h[3], h[4], h[5], h[6], h[7], h[8]>> = h
  <2> DEFINE t == <<h[1], h[2], h[3], h[4], h[5], h[6], h[7], h[8]>>
  <2>1. t \in Seq(Byte) /\ Len(t) = 8
    BY <1>1
  <2>2. \A i \in 1..8 : t[i] = h[i]
    OBVIOUS
  <2> HIDE DEF t
  <2>3. t = h
    BY <2>1, <2>2, SeqEqual DEF HEADER_SIZE
  <2>4. QED BY <2>3 DEF t
<1>7. QED BY <1>4, <1>5, <1>6

-----------------------------------------------------------------------------
(***************************************************************************)
(* The bytes the parser holds.                                             *)
(***************************************************************************)

\* What the buffers hold between two frames, and how it grows with a byte.
LEMMA TakenGrows ==
    ASSUME NEW h \in Seq(Byte), NEW p \in Seq(Byte), NEW c \in Seq(Byte), NEW b \in Byte
    PROVE  LET taken(x, y, z) == ((<<SOF1, SOF2>> \o x) \o y) \o z IN
           /\ taken(h, p, c) \in Seq(Byte)
           /\ Len(taken(h, p, c)) = 2 + Len(h) + Len(p) + Len(c)
           /\ Append(taken(h, p, c), b) = taken(h, p, Append(c, b))
           /\ taken(h, p, <<>>) = (<<SOF1, SOF2>> \o h) \o p
           /\ Append(taken(h, p, <<>>), b) = taken(h, Append(p, b), <<>>)
           /\ taken(h, <<>>, <<>>) = <<SOF1, SOF2>> \o h
           /\ Append(taken(h, <<>>, <<>>), b) = taken(Append(h, b), <<>>, <<>>)
           /\ taken(<<>>, <<>>, <<>>) = <<SOF1, SOF2>>
<1> DEFINE m == <<SOF1, SOF2>>
<1>1. m \in Seq(Byte) /\ Len(m) = 2 /\ <<>> \in Seq(Byte)
  BY DEF SOF1, SOF2, Byte
<1> HIDE DEF m
<1> DEFINE mh == m \o h
           mhp == mh \o p
<1>2. mh \in Seq(Byte) /\ Len(mh) = 2 + Len(h)
  <2>1. m \in Seq(Byte) /\ Len(m) = 2
    BY <1>1
  <2>2. mh \in Seq(Byte) /\ Len(mh) = Len(m) + Len(h)
    BY <2>1, ConcatProperties
  <2>3. QED BY <2>1, <2>2
<1>3. mhp \in Seq(Byte) /\ Len(mhp) = 2 + Len(h) + Len(p)
  <2> HIDE DEF mh
  <2>1. QED BY <1>2, ConcatProperties
<1>4. mhp \o c \in Seq(Byte) /\ Len(mhp \o c) = 2 + Len(h) + Len(p) + Len(c)
  <2> HIDE DEF mhp
  <2>1. QED BY <1>3, ConcatProperties
<1>5. Append(mhp \o c, b) = mhp \o Append(c, b)
  <2> HIDE DEF mhp
  <2>1. QED BY <1>3, AppendToConcat
<1>6. mhp \o <<>> = mhp
  <2> HIDE DEF mhp
  <2>1. QED BY <1>3, ConcatEmptySeq
<1>7. Append(p, b) \in Seq(Byte) /\ Append(h, b) \in Seq(Byte)
  BY AppendProperties
<1>8. Append(mhp, b) = mh \o Append(p, b)
  <2> HIDE DEF mh
  <2>1. QED BY <1>2, AppendToConcat
<1>9. (mh \o Append(p, b)) \o <<>> = mh \o Append(p, b)
  <2> HIDE DEF mh
  <2>1. mh \o Append(p, b) \in Seq(Byte)
    BY <1>2, <1>7, ConcatProperties
  <2>2. QED BY <2>1, ConcatEmptySeq
<1>10. mh \o <<>> = mh
  <2> HIDE DEF mh
  <2>1. QED BY <1>2, ConcatEmptySeq
<1>11. Append(mh, b) = m \o Append(h, b)
  BY <1>1, AppendToConcat
<1>12. (m \o Append(h, b)) \o <<>> = m \o Append(h, b)
  <2>1. m \o Append(h, b) \in Seq(Byte)
    BY <1>1, <1>7, ConcatProperties
  <2>2. QED BY <2>1, ConcatEmptySeq
<1>13. m \o <<>> = m
  BY <1>1, ConcatEmptySeq
<1>14. QED
  BY <1>1, <1>4, <1>5, <1>6, <1>8, <1>9, <1>10, <1>11, <1>12, <1>13 DEF m

\* The two cases of it in which there is a payload.
LEMMA PayloadGrows ==
    ASSUME NEW h \in Seq(Byte), NEW p \in Seq(Byte), NEW b \in Byte
    PROVE  Append(((<<SOF1, SOF2>> \o h) \o p) \o <<>>, b)
             = ((<<SOF1, SOF2>> \o h) \o Append(p, b)) \o <<>>
<1> DEFINE s == <<SOF1, SOF2>> \o h
<1>1. <<SOF1, SOF2>> \in Seq(Byte) /\ Append(p, b) \in Seq(Byte)
  BY AppendProperties DEF SOF1, SOF2, Byte
<1>2. s \in Seq(Byte)
  BY <1>1, ConcatProperties
<1> HIDE DEF s
<1>3. s \o p \in Seq(Byte) /\ s \o Append(p, b) \in Seq(Byte)
  BY <1>1, <1>2, ConcatProperties
<1>4. (s \o p) \o <<>> = s \o p /\ (s \o Append(p, b)) \o <<>> = s \o Append(p, b)
  BY <1>3, ConcatEmptySeq
<1>5. Append(s \o p, b) = s \o Append(p, b)
  BY <1>2, AppendToConcat
<1>6. Append((s \o p) \o <<>>, b) = (s \o Append(p, b)) \o <<>>
  BY <1>4, <1>5
<1>7. QED BY <1>6 DEF s

LEMMA CrcGrows ==
    ASSUME NEW h \in Seq(Byte), NEW p \in Seq(Byte), NEW c \in Seq(Byte), NEW b \in Byte
    PROVE  Append(((<<SOF1, SOF2>> \o h) \o p) \o c, b)
             = ((<<SOF1, SOF2>> \o h) \o p) \o Append(c, b)
<1> DEFINE s == <<SOF1, SOF2>> \o h
           t == s \o p
<1>1. <<SOF1, SOF2>> \in Seq(Byte)
  BY DEF SOF1, SOF2, Byte
<1>2. s \in Seq(Byte)
  BY <1>1, ConcatProperties
<1> HIDE DEF s
<1>3. t \in Seq(Byte)
  BY <1>2, ConcatProperties
<1> HIDE DEF t
<1>4. Append(t \o c, b) = t \o Append(c, b)
  BY <1>3, AppendToConcat
<1>5. QED BY <1>4 DEF s, t

\* The window keeps its type, and what it ended with grows by the byte.
LEMMA WindowGrows ==
    ASSUME ParserInv, NEW b \in Byte, recent' = Window(Append(recent, b))
    PROVE  /\ recent' \in Seq(Byte) /\ Len(recent') <= MaxFrame
           /\ \A t \in Seq(Byte) : (Len(t) < MaxFrame /\ EndsWith(recent, t))
                                     => EndsWith(recent', Append(t, b))
<1>1. recent \in Seq(Byte) /\ Len(recent) <= MaxFrame
  BY DEF ParserInv, TypeOK
<1>2. <<>> \in Seq(Byte) /\ Len(<<>>) < MaxFrame
  BY MaxFrameType
<1>3. recent' \in Seq(Byte) /\ Len(recent') <= MaxFrame
  BY <1>1, <1>2, EndsWithNothing, TailGrows
<1>4. QED BY <1>1, <1>3, TailGrows

\* The frame being received is what the last bytes were, and there is room for
\* more in the window.
LEMMA TakenFits ==
    ASSUME ParserInv, ~Idle
    PROVE  /\ Taken \in Seq(Byte) /\ Len(Taken) < MaxFrame /\ EndsWith(recent, Taken)
           /\ header \in Seq(Byte) /\ payload \in Seq(Byte) /\ crc \in Seq(Byte)
<1>1. /\ header \in Seq(Byte) /\ payload \in Seq(Byte) /\ crc \in Seq(Byte)
      /\ Len(header) <= HEADER_SIZE /\ Len(payload) <= MaxPayload /\ Len(crc) <= 1
  BY DEF ParserInv, TypeOK
<1>2. /\ Taken \in Seq(Byte)
      /\ Len(Taken) = 2 + Len(header) + Len(payload) + Len(crc)
  <2>1. 0 \in Byte
    BY DEF Byte
  <2>2. QED BY <1>1, <2>1, TakenGrows DEF Taken
<1>3. Len(header) \in Nat /\ Len(payload) \in Nat /\ Len(crc) \in Nat
  BY <1>1, LenProperties
<1>4. Len(Taken) < MaxFrame
  BY <1>1, <1>2, <1>3, MaxFrameType DEF HEADER_SIZE
<1>5. QED BY <1>1, <1>2, <1>4 DEF ParserInv, TakenIsTheTail

-----------------------------------------------------------------------------
(***************************************************************************)
(* Every step of the parser preserves the invariant.                       *)
(***************************************************************************)

\* The parser starts outside of a frame.
LEMMA Initially == Init => ParserInv
<1> SUFFICES ASSUME Init PROVE ParserInv
  OBVIOUS
<1>1. TypeOK
  BY MaxFrameType DEF Init, TypeOK, HEADER_SIZE
<1>2. InStep /\ TakenIsTheTail /\ DispatchedFramesWereReceived
  BY DEF Init, InStep, TakenIsTheTail, Idle, DispatchedFramesWereReceived
<1>3. QED BY <1>1, <1>2 DEF ParserInv

\* A step that dispatches nothing has nothing to show about it.
LEMMA NothingDispatched ==
    ASSUME dispatched' = <<>>
    PROVE  DispatchedFramesWereReceived' /\ dispatched' \in Seq(Frame) /\ Len(dispatched') <= 1
  BY DEF DispatchedFramesWereReceived

LEMMA WaitSof1Step ==
    ASSUME ParserInv, NEW b \in Byte, recent' = Window(Append(recent, b)), WaitSof1(b)
    PROVE  ParserInv'
<1>1. recent' \in Seq(Byte) /\ Len(recent') <= MaxFrame
  BY WindowGrows
<1>2. dispatched' = <<>> /\ state = "WAIT_SOF1"
      /\ header' = header /\ payload' = payload /\ crc' = crc
      /\ (state' = "WAIT_SOF1" \/ (state' = "WAIT_SOF2" /\ b = SOF1))
  BY DEF WaitSof1, Goto
<1>3. TypeOK'
  BY <1>1, <1>2, NothingDispatched DEF ParserInv, TypeOK
<1>4. InStep'
  BY <1>2 DEF ParserInv, InStep
<1>5. ASSUME state' = "WAIT_SOF2"
      PROVE  EndsWith(recent', <<SOF1>>)
  <2>1. b = SOF1
    BY <1>2, <1>5
  <2>2. <<>> \in Seq(Byte) /\ Len(<<>>) < MaxFrame
    BY MaxFrameType
  <2>3. EndsWith(recent, <<>>)
    BY EndsWithNothing DEF ParserInv, TypeOK
  <2>4. EndsWith(recent', Append(<<>>, b))
    BY <2>2, <2>3, WindowGrows
  <2>5. Append(<<>>, b) = <<SOF1>>
    BY <2>1
  <2>6. QED BY <2>4, <2>5
<1>6. TakenIsTheTail'
  BY <1>2, <1>5 DEF TakenIsTheTail, Idle
<1>7. QED BY <1>2, <1>3, <1>4, <1>6, NothingDispatched DEF ParserInv

LEMMA WaitSof2Step ==
    ASSUME ParserInv, NEW b \in Byte, recent' = Window(Append(recent, b)), WaitSof2(b)
    PROVE  ParserInv'
<1>1. recent' \in Seq(Byte) /\ Len(recent') <= MaxFrame
  BY WindowGrows
<1>2. dispatched' = <<>> /\ state = "WAIT_SOF2"
      /\ header' = header /\ payload' = payload /\ crc' = crc
  BY DEF WaitSof2
<1>3. \/ state' = "WAIT_SOF1"
      \/ state' = "WAIT_SOF2" /\ b = SOF1
      \/ state' = "HEADER" /\ b = SOF2
  BY DEF WaitSof2, Goto, SOF1, SOF2
<1>4. header = <<>> /\ payload = <<>> /\ crc = <<>>
  BY <1>2 DEF ParserInv, InStep
<1>5. TypeOK'
  BY <1>1, <1>2, <1>3, NothingDispatched DEF ParserInv, TypeOK
<1>6. InStep'
  BY <1>2, <1>3, <1>4 DEF InStep, HEADER_SIZE
<1>7. ASSUME state' = "WAIT_SOF2"
      PROVE  EndsWith(recent', <<SOF1>>)
  <2>1. b = SOF1
    BY <1>3, <1>7
  <2>2. <<>> \in Seq(Byte) /\ Len(<<>>) < MaxFrame
    BY MaxFrameType
  <2>3. EndsWith(recent, <<>>)
    BY EndsWithNothing DEF ParserInv, TypeOK
  <2>4. EndsWith(recent', Append(<<>>, b))
    BY <2>2, <2>3, WindowGrows
  <2>5. Append(<<>>, b) = <<SOF1>>
    BY <2>1
  <2>6. QED BY <2>4, <2>5
<1>8. ASSUME state' = "HEADER"
      PROVE  EndsWith(recent', Taken')
  <2>1. b = SOF2
    BY <1>3, <1>8
  <2>2. <<SOF1>> \in Seq(Byte) /\ Len(<<SOF1>>) < MaxFrame
    BY MaxFrameType DEF SOF1, Byte
  <2>3. EndsWith(recent, <<SOF1>>)
    BY <1>2 DEF ParserInv, TakenIsTheTail
  <2>4. EndsWith(recent', Append(<<SOF1>>, b))
    BY <2>2, <2>3, WindowGrows
  <2>5. Append(<<SOF1>>, b) = <<SOF1, SOF2>>
    <3>1. SOF1 \in Byte /\ SOF2 \in Byte
      BY DEF SOF1, SOF2, Byte
    <3>2. QED BY <2>1, <3>1, AppendToOne
  <2>6. <<>> \in Seq(Byte)
    OBVIOUS
  <2>7. ((<<SOF1, SOF2>> \o <<>>) \o <<>>) \o <<>> = <<SOF1, SOF2>>
    BY <2>6, TakenGrows
  <2>8. Taken' = <<SOF1, SOF2>>
    BY <2>7, <1>2, <1>4 DEF Taken
  <2>9. QED BY <2>4, <2>5, <2>8
<1>9. TakenIsTheTail'
  BY <1>3, <1>7, <1>8 DEF TakenIsTheTail, Idle
<1>10. QED BY <1>2, <1>5, <1>6, <1>9, NothingDispatched DEF ParserInv

\* After a reset the parser is as it was at the start.
LEMMA ResetStep ==
    ASSUME Reset, recent' \in Seq(Byte), Len(recent') <= MaxFrame,
           dispatched' \in Seq(Frame), Len(dispatched') <= 1,
           DispatchedFramesWereReceived'
    PROVE  ParserInv'
<1>1. state' = "WAIT_SOF1" /\ header' = <<>> /\ payload' = <<>> /\ crc' = <<>>
  BY DEF Reset
<1>2. TypeOK'
  BY <1>1, MaxFrameType DEF TypeOK, HEADER_SIZE
<1>3. InStep' /\ TakenIsTheTail'
  BY <1>1 DEF InStep, TakenIsTheTail, Idle
<1>4. QED BY <1>2, <1>3 DEF ParserInv

LEMMA ReadHeaderStep ==
    ASSUME ParserInv, NEW b \in Byte, recent' = Window(Append(recent, b)), ReadHeader(b)
    PROVE  ParserInv'
<1> DEFINE h == Append(header, b)
<1>1. recent' \in Seq(Byte) /\ Len(recent') <= MaxFrame
  BY WindowGrows
<1>2. dispatched' = <<>> /\ state = "HEADER"
  BY DEF ReadHeader
<1>3. /\ header \in Seq(Byte) /\ Len(header) < HEADER_SIZE
      /\ payload = <<>> /\ crc = <<>>
  BY <1>2 DEF ParserInv, TypeOK, InStep
<1>4. h \in Seq(Byte) /\ Len(h) = Len(header) + 1
  BY <1>3, AppendProperties
<1>5. EndsWith(recent', Append(Taken, b))
  BY <1>2, TakenFits, WindowGrows DEF Idle
<1>6. <<>> \in Seq(Byte)
  OBVIOUS
<1>7. Append(Taken, b) = ((<<SOF1, SOF2>> \o h) \o <<>>) \o <<>>
  BY <1>3, <1>6, TakenGrows DEF Taken
<1> HIDE DEF h
<1>8. ASSUME header' = h, payload' = payload, crc' = crc,
             state' \in {"HEADER", "PAYLOAD", "CRC"},
             state' = "HEADER" => Len(h) < HEADER_SIZE,
             state' # "HEADER" => Len(h) = HEADER_SIZE /\ HeaderIsAcceptable(h),
             state' = "PAYLOAD" => 0 < PayloadLenOf(h),
             state' = "CRC" => PayloadLenOf(h) = 0
      PROVE  ParserInv'
  <2>1. TypeOK'
    <3>1. header' \in Seq(Byte) /\ Len(header') <= HEADER_SIZE
      BY <1>3, <1>4, <1>8 DEF HEADER_SIZE
    <3>2. QED BY <3>1, <1>1, <1>2, <1>8, NothingDispatched DEF ParserInv, TypeOK
  <2>2. InStep'
    BY <1>3, <1>8 DEF InStep
  <2>3. Taken' = ((<<SOF1, SOF2>> \o h) \o <<>>) \o <<>>
    BY <1>3, <1>8 DEF Taken
  <2>4. TakenIsTheTail'
    BY <2>3, <1>5, <1>7, <1>8 DEF TakenIsTheTail, Idle
  <2>5. QED BY <2>1, <2>2, <2>4, <1>2, NothingDispatched DEF ParserInv
<1>9. \/ /\ Len(h) < HEADER_SIZE
         /\ header' = h
         /\ UNCHANGED <<state, payload, crc>>
      \/ /\ Len(h) = HEADER_SIZE
         /\ HeaderIsAcceptable(h)
         /\ header' = h
         /\ Goto(IF PayloadLenOf(h) = 0 THEN "CRC" ELSE "PAYLOAD")
         /\ UNCHANGED <<payload, crc>>
      \/ /\ Len(h) = HEADER_SIZE
         /\ ~HeaderIsAcceptable(h)
         /\ Reset
  BY DEF ReadHeader, h
<1>10. CASE /\ Len(h) < HEADER_SIZE
            /\ header' = h
            /\ UNCHANGED <<state, payload, crc>>
  BY <1>10, <1>2, <1>8
<1>11. CASE /\ Len(h) = HEADER_SIZE
            /\ HeaderIsAcceptable(h)
            /\ header' = h
            /\ Goto(IF PayloadLenOf(h) = 0 THEN "CRC" ELSE "PAYLOAD")
            /\ UNCHANGED <<payload, crc>>
  <2>1. PayloadLenOf(h) \in Nat
    BY <1>4, <1>11, PayloadLenType
  <2>2. CASE PayloadLenOf(h) = 0
    BY <1>11, <1>8, <2>2 DEF Goto
  <2>3. CASE PayloadLenOf(h) # 0
    <3>1. 0 < PayloadLenOf(h)
      BY <2>1, <2>3
    <3>2. QED BY <3>1, <1>11, <1>8, <2>3 DEF Goto
  <2>4. QED BY <2>2, <2>3
<1>12. CASE Reset
  BY <1>12, <1>1, <1>2, NothingDispatched, ResetStep
<1>13. QED BY <1>9, <1>10, <1>11, <1>12

LEMMA ReadPayloadStep ==
    ASSUME ParserInv, NEW b \in Byte, recent' = Window(Append(recent, b)), ReadPayload(b)
    PROVE  ParserInv'
<1> DEFINE p == Append(payload, b)
<1>1. recent' \in Seq(Byte) /\ Len(recent') <= MaxFrame
  BY WindowGrows
<1>2. /\ dispatched' = <<>> /\ state = "PAYLOAD"
      /\ header' = header /\ payload' = p /\ crc' = crc
      /\ state' = IF Len(payload) + 1 >= PayloadLenOf(header) THEN "CRC" ELSE "PAYLOAD"
  BY DEF ReadPayload, Goto
<1>3. /\ header \in Seq(Byte) /\ Len(header) = HEADER_SIZE /\ HeaderIsAcceptable(header)
      /\ payload \in Seq(Byte) /\ Len(payload) < PayloadLenOf(header)
      /\ crc = <<>>
  BY <1>2 DEF ParserInv, TypeOK, InStep
<1>4. p \in Seq(Byte) /\ Len(p) = Len(payload) + 1 /\ Len(payload) \in Nat
  BY <1>3, AppendProperties, LenProperties
<1>5. EndsWith(recent', Append(Taken, b))
  BY <1>2, TakenFits, WindowGrows DEF Idle
<1>6. Append(Taken, b) = ((<<SOF1, SOF2>> \o header) \o p) \o <<>>
  <2>1. <<>> \in Seq(Byte)
    OBVIOUS
  <2>2. Taken = ((<<SOF1, SOF2>> \o header) \o payload) \o <<>>
    BY <1>3 DEF Taken
  <2>3. header \in Seq(Byte) /\ payload \in Seq(Byte)
    BY <1>3
  <2>4. Append(((<<SOF1, SOF2>> \o header) \o payload) \o <<>>, b)
          = ((<<SOF1, SOF2>> \o header) \o p) \o <<>>
    BY <2>3, PayloadGrows
  <2>5. QED BY <2>2, <2>4
<1> HIDE DEF p
<1>7. PayloadLenOf(header) \in Nat /\ PayloadLenOf(header) <= MaxPayload
  <2>1. PayloadLenOf(header) \in Nat
    BY <1>3, PayloadLenType
  <2>2. QED BY <2>1, <1>3 DEF HeaderIsAcceptable
<1>8. Len(p) <= PayloadLenOf(header)
  BY <1>3, <1>4, <1>7
<1>9. TypeOK'
  <2>1. payload' \in Seq(Byte) /\ Len(payload') <= MaxPayload
    BY <1>2, <1>4, <1>7, <1>8, MaxFrameType
  <2>2. state' \in {"PAYLOAD", "CRC"}
    BY <1>2
  <2>3. QED BY <2>1, <2>2, <1>1, <1>2, NothingDispatched DEF ParserInv, TypeOK
<1>10. InStep'
  <2>1. CASE Len(payload) + 1 >= PayloadLenOf(header)
    <3>1. Len(p) = PayloadLenOf(header) /\ state' = "CRC"
      BY <2>1, <1>2, <1>4, <1>7, <1>8
    <3>2. QED BY <3>1, <1>2, <1>3 DEF InStep
  <2>2. CASE ~(Len(payload) + 1 >= PayloadLenOf(header))
    <3>1. Len(p) < PayloadLenOf(header) /\ state' = "PAYLOAD"
      BY <2>2, <1>2, <1>4, <1>7, <1>8
    <3>2. QED BY <3>1, <1>2, <1>3 DEF InStep
  <2>3. QED BY <2>1, <2>2
<1>11. Taken' = ((<<SOF1, SOF2>> \o header) \o p) \o <<>>
  BY <1>2, <1>3 DEF Taken
<1>12. TakenIsTheTail'
  BY <1>2, <1>5, <1>6, <1>11 DEF TakenIsTheTail, Idle
<1>13. QED BY <1>2, <1>9, <1>10, <1>12, NothingDispatched DEF ParserInv

LEMMA ReadCrcLowStep ==
    ASSUME ParserInv, NEW b \in Byte, recent' = Window(Append(recent, b)), ReadCrcLow(b)
    PROVE  ParserInv'
<1>1. recent' \in Seq(Byte) /\ Len(recent') <= MaxFrame
  BY WindowGrows
<1>2. /\ dispatched' = <<>> /\ state = "CRC" /\ state' = "CRC"
      /\ header' = header /\ payload' = payload /\ crc = <<>> /\ crc' = <<b>>
  BY DEF ReadCrcLow
<1>3. TypeOK'
  <2>1. <<b>> \in Seq(Byte) /\ Len(<<b>>) <= 1
    OBVIOUS
  <2>2. QED BY <2>1, <1>1, <1>2, NothingDispatched DEF ParserInv, TypeOK
<1>4. InStep'
  BY <1>2 DEF ParserInv, InStep
<1>5. EndsWith(recent', Append(Taken, b))
  BY <1>2, TakenFits, WindowGrows DEF Idle
<1>6. Append(Taken, b) = ((<<SOF1, SOF2>> \o header) \o payload) \o Append(crc, b)
  <2>1. header \in Seq(Byte) /\ payload \in Seq(Byte) /\ crc \in Seq(Byte)
    BY DEF ParserInv, TypeOK
  <2>2. QED BY <2>1, CrcGrows DEF Taken
<1>7. Append(crc, b) = <<b>>
  BY <1>2
<1>8. Taken' = Append(Taken, b)
  BY <1>2, <1>6, <1>7 DEF Taken
<1>9. TakenIsTheTail'
  BY <1>2, <1>5, <1>8 DEF TakenIsTheTail, Idle
<1>10. QED BY <1>2, <1>3, <1>4, <1>9, NothingDispatched DEF ParserInv

\* The last byte of a frame: what is dispatched encodes to the bytes received.
LEMMA ReadCrcHighStep ==
    ASSUME ParserInv, NEW b \in Byte, recent' = Window(Append(recent, b)), ReadCrcHigh(b)
    PROVE  ParserInv'
<1> DEFINE c == crc[1]
           f == FrameOf(header, payload)
<1>1. recent' \in Seq(Byte) /\ Len(recent') <= MaxFrame
  BY WindowGrows
<1>2. state = "CRC" /\ crc # <<>> /\ Reset /\ SubmitFrame(GetLe16(c, b))
  BY DEF ReadCrcHigh
<1>3. /\ header \in Seq(Byte) /\ Len(header) = HEADER_SIZE /\ HeaderIsAcceptable(header)
      /\ payload \in Seq(Byte) /\ Len(payload) = PayloadLenOf(header)
  BY <1>2 DEF ParserInv, TypeOK, InStep
<1>4. c \in Byte /\ crc = <<c>>
  <2>1. crc \in Seq(Byte) /\ Len(crc) <= 1
    BY DEF ParserInv, TypeOK
  <2>2. Len(crc) = 1
    <3>1. Len(crc) \in Nat /\ Len(crc) # 0
      BY <2>1, <1>2, EmptySeq
    <3>2. \A n \in Nat : n # 0 /\ n <= 1 => n = 1
      OBVIOUS
    <3>3. QED BY <3>1, <3>2, <2>1
  <2>3. crc[1] \in Byte
    BY <2>1, <2>2, ElementOfSeq
  <2>4. crc = <<crc[1]>>
    BY <2>1, <2>2
  <2>5. QED BY <2>3, <2>4
<1>5. f \in Frame /\ Header(f) = header
  BY <1>3, HeaderRoundTrip
<1>6. f.payload = payload
  BY DEF FrameOf
<1>7. ASSUME Crc(Checked(header, payload)) = GetLe16(c, b)
      PROVE  EndsWith(recent', Encode(f))
  <2>1. EndsWith(recent', Append(Taken, b))
    BY <1>2, TakenFits, WindowGrows DEF Idle
  <2>2. Append(Taken, b) = ((<<SOF1, SOF2>> \o header) \o payload) \o Append(crc, b)
    <3>1. crc \in Seq(Byte)
      BY DEF ParserInv, TypeOK
    <3>2. header \in Seq(Byte) /\ payload \in Seq(Byte)
      BY <1>3
    <3>3. Append(((<<SOF1, SOF2>> \o header) \o payload) \o crc, b)
            = ((<<SOF1, SOF2>> \o header) \o payload) \o Append(crc, b)
      BY <3>1, <3>2, CrcGrows
    <3>4. QED BY <3>3 DEF Taken
  <2>3. Append(crc, b) = <<c, b>>
    BY <1>4, AppendToOne
  <2>4. PutLe16(Crc(Checked(Header(f), f.payload))) = <<c, b>>
    BY <1>4, <1>5, <1>6, <1>7, FieldRoundTrip
  <2> HIDE DEF f, c
  <2>5. Encode(f) = ((<<SOF1, SOF2>> \o header) \o payload) \o <<c, b>>
    BY <2>4, <1>5, <1>6 DEF Encode
  <2>6. QED BY <2>1, <2>2, <2>3, <2>5
<1> HIDE DEF f, c
<1>8. /\ dispatched' \in Seq(Frame) /\ Len(dispatched') <= 1
      /\ DispatchedFramesWereReceived'
  <2>1. CASE Crc(Checked(header, payload)) = GetLe16(c, b)
    <3>1. dispatched' = <<f>>
      BY <1>2, <2>1 DEF SubmitFrame, f
    <3>2. Len(<<f>>) = 1 /\ <<f>>[1] = f /\ <<f>> \in Seq(Frame)
      BY <1>5
    <3>3. \A i \in 1..Len(dispatched') : dispatched'[i] = f
      BY <3>1, <3>2
    <3>4. DispatchedFramesWereReceived'
      BY <3>3, <1>7, <2>1 DEF DispatchedFramesWereReceived
    <3>5. QED BY <3>1, <3>2, <3>4
  <2>2. CASE Crc(Checked(header, payload)) # GetLe16(c, b)
    <3>1. dispatched' = <<>>
      BY <1>2, <2>2 DEF SubmitFrame
    <3>2. QED BY <3>1, NothingDispatched
  <2>3. QED BY <2>1, <2>2
<1>9. QED BY <1>1, <1>2, <1>8, ResetStep

-----------------------------------------------------------------------------
LEMMA ParserInvInductive == ParserInv /\ [Next]_vars => ParserInv'
<1> SUFFICES ASSUME ParserInv, [Next]_vars PROVE ParserInv'
  OBVIOUS
<1>1. CASE UNCHANGED vars
  BY <1>1 DEF vars, parserVars, ParserInv, TypeOK, InStep, TakenIsTheTail, Idle, Taken,
              DispatchedFramesWereReceived
<1>2. CASE Next
  <2>1. PICK b \in Byte : ParseByte(b)
    BY <1>2 DEF Next
  <2>2. recent' = Window(Append(recent, b))
    BY <2>1 DEF ParseByte
  <2>3. CASE WaitSof1(b)
    BY <2>2, <2>3, WaitSof1Step
  <2>4. CASE WaitSof2(b)
    BY <2>2, <2>4, WaitSof2Step
  <2>5. CASE ReadHeader(b)
    BY <2>2, <2>5, ReadHeaderStep
  <2>6. CASE ReadPayload(b)
    BY <2>2, <2>6, ReadPayloadStep
  <2>7. CASE ReadCrcLow(b)
    BY <2>2, <2>7, ReadCrcLowStep
  <2>8. CASE ReadCrcHigh(b)
    BY <2>2, <2>8, ReadCrcHighStep
  <2>9. QED BY <2>1, <2>3, <2>4, <2>5, <2>6, <2>7, <2>8 DEF ParseByte
<1>3. QED BY <1>1, <1>2

LEMMA ParserInvariant == Spec => []ParserInv
<1>1. Init => ParserInv
  BY Initially
<1>2. ParserInv /\ [Next]_vars => ParserInv'
  BY ParserInvInductive
<1>3. QED BY <1>1, <1>2, PTL DEF Spec

\* The parser never writes beyond a buffer, whatever length the wire announces
\* and whatever bytes come when.
THEOREM BuffersAreNotOverrun == Spec => []TypeOK
<1>1. ParserInv => TypeOK
  BY DEF ParserInv
<1>2. QED BY <1>1, ParserInvariant, PTL

\* A frame is handed over only if its exact encoding, checksum included, is
\* what has just come in: for every stream of bytes, every size of the payload
\* buffer, and every function in the place of the checksum.
THEOREM DispatchIsFaithful == Spec => []DispatchedFramesWereReceived
<1>1. ParserInv => DispatchedFramesWereReceived
  BY DEF ParserInv
<1>2. QED BY <1>1, ParserInvariant, PTL

-----------------------------------------------------------------------------
(***************************************************************************)
(* The parser on a faulty line.                                            *)
(*                                                                         *)
(* A frame without a fault that finds the parser outside of another is     *)
(* followed byte by byte: what the buffers hold is the part of the frame   *)
(* that has arrived, and the rest is still on the line.                    *)
(***************************************************************************)

\* The checksum is a uint16_t.
ChecksumsAreWords == \A s \in Seq(Byte) : Crc(s) \in Word

\* s is the beginning of t.
Begins(s, t) == Len(s) <= Len(t) /\ \A i \in 1..Len(s) : s[i] = t[i]

Arrived == Len(Encode(frame)) - Len(line)

FrameFollowed ==
    aligned /\ line # <<>> =>
      /\ Arrived = 0 => Idle
      /\ Arrived = 1 => state = "WAIT_SOF2"
      /\ Arrived >= 2 => ~Idle /\ Len(Taken) = Arrived /\ Begins(Taken, Encode(frame))

LineInv ==
    /\ ParserInv
    /\ frame \in Frame /\ MayBeSent(frame)
    /\ line \in Seq(Byte) /\ EndsWith(Encode(frame), line)
    /\ sent \in Nat /\ faults \in Nat
    /\ aligned \in BOOLEAN
    /\ FrameFollowed

\* The numbers of 16 bits.
LEMMA WordType ==
    ASSUME NEW n \in Int, 0 <= n, n <= 65535
    PROVE  n \in Word /\ n \in Nat
BY DEF Word

\* Reading a 16-bit number gives back what was written.
LEMMA WordRoundTrip ==
    ASSUME NEW v \in Word
    PROVE  /\ PutLe16(v) \in Seq(Byte) /\ Len(PutLe16(v)) = 2
           /\ PutLe16(v)[1] \in Byte /\ PutLe16(v)[2] \in Byte
           /\ GetLe16(PutLe16(v)[1], PutLe16(v)[2]) = v
<1>1. v % 256 \in 0..255 /\ v \div 256 \in 0..255 /\ v = (v % 256) + 256 * (v \div 256)
  BY DEF Word
<1>2. QED BY <1>1 DEF PutLe16, GetLe16, Byte

\* The bytes of two markers and three parts, one after the other.
LEMMA PartsOf ==
    ASSUME NEW h \in Seq(Byte), NEW p \in Seq(Byte), NEW c \in Seq(Byte)
    PROVE  LET t == ((<<SOF1, SOF2>> \o h) \o p) \o c IN
           /\ t \in Seq(Byte) /\ Len(t) = 2 + Len(h) + Len(p) + Len(c)
           /\ t[1] = SOF1 /\ t[2] = SOF2
           /\ \A i \in 1..Len(h) : t[2 + i] = h[i]
           /\ \A i \in 1..Len(p) : t[2 + Len(h) + i] = p[i]
           /\ \A i \in 1..Len(c) : t[2 + Len(h) + Len(p) + i] = c[i]
<1> DEFINE m == <<SOF1, SOF2>>
<1>1. m \in Seq(Byte) /\ Len(m) = 2 /\ m[1] = SOF1 /\ m[2] = SOF2
  BY DEF SOF1, SOF2, Byte
<1> HIDE DEF m
<1> DEFINE s == m \o h
<1>2. /\ s \in Seq(Byte) /\ Len(s) = 2 + Len(h)
      /\ \A i \in 1..(2 + Len(h)) : s[i] = IF i <= 2 THEN m[i] ELSE h[i - 2]
  <2>1. m \in Seq(Byte)
    BY <1>1
  <2>2. /\ s \in Seq(Byte) /\ Len(s) = Len(m) + Len(h)
        /\ \A i \in 1..(Len(m) + Len(h)) :
             s[i] = IF i <= Len(m) THEN m[i] ELSE h[i - Len(m)]
    BY <2>1, ConcatProperties
  <2>3. QED BY <1>1, <2>2
<1> HIDE DEF s
<1> DEFINE u == s \o p
<1>3. /\ u \in Seq(Byte) /\ Len(u) = Len(s) + Len(p)
      /\ \A i \in 1..(Len(s) + Len(p)) :
           u[i] = IF i <= Len(s) THEN s[i] ELSE p[i - Len(s)]
  <2>1. s \in Seq(Byte)
    BY <1>2
  <2>2. QED BY <2>1, ConcatProperties
<1> HIDE DEF u
<1> DEFINE t == u \o c
<1>4. /\ t \in Seq(Byte) /\ Len(t) = Len(u) + Len(c)
      /\ \A i \in 1..(Len(u) + Len(c)) :
           t[i] = IF i <= Len(u) THEN u[i] ELSE c[i - Len(u)]
  <2>1. u \in Seq(Byte)
    BY <1>3
  <2>2. QED BY <2>1, ConcatProperties
<1> HIDE DEF t
<1>5. Len(h) \in Nat /\ Len(p) \in Nat /\ Len(c) \in Nat
  BY LenProperties
<1>6. t[1] = SOF1 /\ t[2] = SOF2
  BY <1>1, <1>2, <1>3, <1>4, <1>5
<1>7. ASSUME NEW i \in 1..Len(h) PROVE t[2 + i] = h[i]
  <2>1. /\ 2 + i \in 1..(Len(u) + Len(c)) /\ 2 + i <= Len(u)
        /\ 2 + i \in 1..(Len(s) + Len(p)) /\ 2 + i <= Len(s)
        /\ 2 + i \in 1..(2 + Len(h)) /\ ~(2 + i <= 2) /\ (2 + i) - 2 = i
    BY <1>2, <1>3, <1>5
  <2>2. QED BY <2>1, <1>2, <1>3, <1>4
<1>8. ASSUME NEW i \in 1..Len(p) PROVE t[2 + Len(h) + i] = p[i]
  <2> DEFINE j == 2 + Len(h) + i
  <2>1. /\ j \in 1..(Len(u) + Len(c)) /\ j <= Len(u)
        /\ j \in 1..(Len(s) + Len(p)) /\ ~(j <= Len(s)) /\ j - Len(s) = i
    BY <1>2, <1>3, <1>5
  <2> HIDE DEF j
  <2>2. t[j] = p[i]
    BY <2>1, <1>3, <1>4
  <2>3. QED BY <2>2 DEF j
<1>9. ASSUME NEW i \in 1..Len(c) PROVE t[2 + Len(h) + Len(p) + i] = c[i]
  <2> DEFINE j == 2 + Len(h) + Len(p) + i
  <2>1. j \in 1..(Len(u) + Len(c)) /\ ~(j <= Len(u)) /\ j - Len(u) = i
    BY <1>2, <1>3, <1>5
  <2> HIDE DEF j
  <2>2. t[j] = c[i]
    BY <2>1, <1>4
  <2>3. QED BY <2>2 DEF j
<1>10. t \in Seq(Byte) /\ Len(t) = 2 + Len(h) + Len(p) + Len(c)
  BY <1>2, <1>3, <1>4, <1>5
<1>11. QED BY <1>6, <1>7, <1>8, <1>9, <1>10 DEF t, u, s, m

\* A frame that may be sent has an acceptable header, from which its fields can
\* be read again.
LEMMA FrameRoundTrip ==
    ASSUME NEW f \in Frame, MayBeSent(f)
    PROVE  /\ Header(f) \in Seq(Byte) /\ Len(Header(f)) = HEADER_SIZE
           /\ HeaderIsAcceptable(Header(f)) /\ PayloadLenOf(Header(f)) = Len(f.payload)
           /\ FrameOf(Header(f), f.payload) = f
           /\ Checked(Header(f), f.payload) \in Seq(Byte)
<1>1. f.flags \in Byte /\ f.cmd \in Word /\ f.seq \in Word /\ f.payload \in Seq(Byte)
  BY DEF Frame
<1>2. Len(f.payload) \in Word
  <2>1. Len(f.payload) \in Nat
    BY <1>1, LenProperties
  <2>2. Len(f.payload) <= MaxPayload
    BY DEF MayBeSent
  <2>3. MaxPayload \in Nat /\ MaxPayload <= 65535
    BY UartFrameAssumption
  <2>4. /\ Len(f.payload) \in Int /\ 0 <= Len(f.payload)
        /\ Len(f.payload) <= 65535
    BY <2>1, <2>2, <2>3
  <2>5. QED BY <2>4, WordType
<1> DEFINE c == PutLe16(f.cmd)
           q == PutLe16(f.seq)
           l == PutLe16(Len(f.payload))
<1>3. /\ c[1] \in Byte /\ c[2] \in Byte /\ GetLe16(c[1], c[2]) = f.cmd
      /\ q[1] \in Byte /\ q[2] \in Byte /\ GetLe16(q[1], q[2]) = f.seq
      /\ l[1] \in Byte /\ l[2] \in Byte /\ GetLe16(l[1], l[2]) = Len(f.payload)
  BY <1>1, <1>2, WordRoundTrip
<1>4. Header(f) = <<VERSION, f.flags, c[1], c[2], q[1], q[2], l[1], l[2]>>
  BY DEF Header
<1> HIDE DEF c, q, l
<1> DEFINE h == Header(f)
<1>5. VERSION \in Byte
  BY DEF VERSION, Byte
<1>6. /\ h \in Seq(Byte) /\ Len(h) = 8
      /\ h[1] = VERSION /\ h[2] = f.flags /\ h[3] = c[1] /\ h[4] = c[2]
      /\ h[5] = q[1] /\ h[6] = q[2] /\ h[7] = l[1] /\ h[8] = l[2]
  BY <1>1, <1>3, <1>4, <1>5
<1> HIDE DEF h
<1>7. PayloadLenOf(h) = Len(f.payload) /\ HeaderIsAcceptable(h)
  BY <1>3, <1>6 DEF PayloadLenOf, HeaderIsAcceptable, VersionOf, MayBeSent
<1>8. FrameOf(h, f.payload) = f
  <2>1. f = [flags |-> f.flags, cmd |-> f.cmd, seq |-> f.seq, payload |-> f.payload]
    BY DEF Frame
  <2>2. QED BY <2>1, <1>3, <1>6 DEF FrameOf
<1>9. Checked(h, f.payload) \in Seq(Byte)
  BY <1>1, <1>6, ConcatProperties DEF Checked
<1>10. QED BY <1>6, <1>7, <1>8, <1>9 DEF h, HEADER_SIZE

\* The bytes of a frame on the line.
LEMMA EncodedBytes ==
    ASSUME ChecksumsAreWords, NEW f \in Frame, MayBeSent(f)
    PROVE  LET e == Encode(f)
               n == Len(f.payload)
               sum == PutLe16(Crc(Checked(Header(f), f.payload)))
           IN /\ e \in Seq(Byte) /\ n \in Nat /\ Len(e) = n + 12
              /\ e[1] = SOF1 /\ e[2] = SOF2
              /\ \A i \in 1..8 : e[2 + i] = Header(f)[i]
              /\ \A i \in 1..n : e[10 + i] = f.payload[i]
              /\ e[n + 11] = sum[1] /\ e[n + 12] = sum[2]
<1> DEFINE h == Header(f)
           p == f.payload
           s == PutLe16(Crc(Checked(h, p)))
           t == ((<<SOF1, SOF2>> \o h) \o p) \o s
           n == Len(p)
<1>1. h \in Seq(Byte) /\ Len(h) = 8 /\ p \in Seq(Byte) /\ n \in Nat
  BY FrameRoundTrip, LenProperties DEF Frame, HEADER_SIZE
<1>2. s \in Seq(Byte) /\ Len(s) = 2
  BY FrameRoundTrip, WordRoundTrip DEF ChecksumsAreWords
<1>3. t = Encode(f)
  BY DEF Encode
<1> HIDE DEF h, p, s
<1>4. /\ t \in Seq(Byte) /\ Len(t) = 2 + Len(h) + Len(p) + Len(s)
      /\ t[1] = SOF1 /\ t[2] = SOF2
      /\ \A i \in 1..Len(h) : t[2 + i] = h[i]
      /\ \A i \in 1..Len(p) : t[2 + Len(h) + i] = p[i]
      /\ \A i \in 1..Len(s) : t[2 + Len(h) + Len(p) + i] = s[i]
  BY <1>1, <1>2, PartsOf
<1> HIDE DEF t
<1>5. /\ Len(t) = n + 12
      /\ \A i \in 1..8 : t[2 + i] = h[i]
      /\ \A i \in 1..n : t[10 + i] = p[i]
  BY <1>1, <1>2, <1>4
<1>6. t[n + 11] = s[1] /\ t[n + 12] = s[2]
  <2>1. 1 \in 1..Len(s) /\ 2 \in 1..Len(s)
    BY <1>2
  <2>2. 2 + Len(h) + Len(p) + 1 = n + 11 /\ 2 + Len(h) + Len(p) + 2 = n + 12
    BY <1>1
  <2>3. QED BY <1>4, <2>1, <2>2
<1>7. QED BY <1>1, <1>3, <1>4, <1>5, <1>6 DEF h, p, s

\* If the buffers hold the beginning of the frame, they hold its parts, and
\* only the last byte is missing once there is a first byte of the checksum.
LEMMA BuffersHoldTheFrame ==
    ASSUME ChecksumsAreWords, ParserInv, ~Idle,
           NEW f \in Frame, MayBeSent(f), Begins(Taken, Encode(f))
    PROVE  /\ Len(Taken) = 2 + Len(header) + Len(payload) + Len(crc)
           /\ \A i \in 1..Len(header) : header[i] = Header(f)[i]
           /\ state \in {"PAYLOAD", "CRC"} => header = Header(f)
           /\ state = "CRC" => payload = f.payload
           /\ state = "CRC" /\ crc # <<>> =>
                /\ crc[1] = PutLe16(Crc(Checked(Header(f), f.payload)))[1]
                /\ Len(Encode(f)) = Len(Taken) + 1
<1> DEFINE e == Encode(f)
           n == Len(f.payload)
           sum == PutLe16(Crc(Checked(Header(f), f.payload)))
<1>1. /\ e \in Seq(Byte) /\ n \in Nat /\ Len(e) = n + 12
      /\ \A i \in 1..8 : e[2 + i] = Header(f)[i]
      /\ \A i \in 1..n : e[10 + i] = f.payload[i]
      /\ e[n + 11] = sum[1]
  BY EncodedBytes
<1>2. /\ header \in Seq(Byte) /\ Len(header) <= 8 /\ Len(header) \in Nat
      /\ payload \in Seq(Byte) /\ Len(payload) \in Nat
      /\ crc \in Seq(Byte) /\ Len(crc) \in Nat /\ Len(crc) <= 1
  BY LenProperties DEF ParserInv, TypeOK, HEADER_SIZE
<1>3. /\ Len(Taken) = 2 + Len(header) + Len(payload) + Len(crc)
      /\ \A i \in 1..Len(header) : Taken[2 + i] = header[i]
      /\ \A i \in 1..Len(payload) : Taken[2 + Len(header) + i] = payload[i]
      /\ \A i \in 1..Len(crc) : Taken[2 + Len(header) + Len(payload) + i] = crc[i]
  BY <1>2, PartsOf DEF Taken
<1>4. Len(Taken) <= Len(e) /\ \A i \in 1..Len(Taken) : Taken[i] = e[i]
  BY DEF Begins
<1> HIDE DEF e, n, sum
<1>5. ASSUME NEW i \in 1..Len(header) PROVE header[i] = Header(f)[i]
  <2>1. i \in 1..8 /\ 2 + i \in 1..Len(Taken)
    BY <1>2, <1>3
  <2>2. QED BY <2>1, <1>1, <1>3, <1>4
<1>6. ASSUME state \in {"PAYLOAD", "CRC"} PROVE header = Header(f) /\ Len(header) = 8
                                               /\ PayloadLenOf(header) = n
  <2>1. Len(header) = 8
    BY <1>6 DEF ParserInv, InStep, HEADER_SIZE
  <2>2. Header(f) \in Seq(Byte) /\ Len(Header(f)) = 8 /\ PayloadLenOf(Header(f)) = n
    BY FrameRoundTrip DEF HEADER_SIZE, n
  <2>3. header = Header(f)
    BY <1>2, <1>5, <2>1, <2>2, SeqEqual
  <2>4. QED BY <2>1, <2>2, <2>3
<1>7. ASSUME state = "CRC" PROVE payload = f.payload /\ Len(payload) = n
  <2>1. Len(payload) = n
    BY <1>6, <1>7 DEF ParserInv, InStep
  <2>2. ASSUME NEW i \in 1..Len(payload) PROVE payload[i] = f.payload[i]
    <3>1. Len(header) = 8 /\ Len(payload) = n /\ n \in Nat /\ Len(crc) \in Nat
      BY <1>1, <1>2, <1>6, <1>7, <2>1
    <3>2. Len(Taken) = 2 + Len(header) + Len(payload) + Len(crc)
      BY <1>3
    <3>3. 2 + Len(header) + i = 10 + i /\ 10 + i \in 1..Len(Taken) /\ i \in 1..n
      BY <3>1, <3>2
    <3>4. Taken[10 + i] = payload[i]
      BY <1>3, <3>3
    <3>5. Taken[10 + i] = e[10 + i]
      BY <1>4, <3>3
    <3>6. e[10 + i] = f.payload[i]
      BY <1>1, <3>3
    <3>7. QED BY <3>4, <3>5, <3>6
  <2>3. f.payload \in Seq(Byte) /\ Len(f.payload) = n
    BY DEF Frame, n
  <2>4. payload = f.payload
    BY <1>2, <2>1, <2>2, <2>3, SeqEqual
  <2>5. QED BY <2>1, <2>4
<1>8. ASSUME state = "CRC", crc # <<>>
      PROVE  crc[1] = sum[1] /\ Len(e) = Len(Taken) + 1
  <2>1. Len(crc) # 0
    BY <1>2, <1>8, EmptySeq
  <2>2. Len(crc) = 1
    <3>1. Len(crc) \in Nat /\ Len(crc) <= 1
      BY <1>2
    <3>2. \A k \in Nat : k # 0 /\ k <= 1 => k = 1
      OBVIOUS
    <3>3. QED BY <2>1, <3>1, <3>2
  <2>3. Len(Taken) = n + 11 /\ 2 + Len(header) + Len(payload) + 1 = n + 11
    <3>1. Len(header) = 8 /\ Len(payload) = n /\ n \in Nat
      BY <1>1, <1>6, <1>7, <1>8
    <3>2. Len(Taken) = 2 + Len(header) + Len(payload) + Len(crc)
      BY <1>3
    <3>3. QED BY <2>2, <3>1, <3>2
  <2>4. Taken[n + 11] = crc[1]
    BY <1>3, <2>2, <2>3
  <2>5. n + 11 \in 1..Len(Taken)
    BY <1>1, <2>3
  <2>6. crc[1] = sum[1]
    BY <1>1, <1>4, <2>4, <2>5
  <2>7. QED BY <1>1, <2>3, <2>6
<1>9. QED BY <1>3, <1>5, <1>6, <1>7, <1>8 DEF e, sum

\* A byte that neither completes a frame nor has its header rejected is added to
\* what the buffers hold.
LEMMA ParserFollows ==
    ASSUME ParserInv, ~Idle, NEW b \in Byte, ParseByte(b),
           state = "HEADER" /\ Len(Append(header, b)) = HEADER_SIZE =>
             HeaderIsAcceptable(Append(header, b)),
           ~(state = "CRC" /\ crc # <<>>)
    PROVE  ~Idle' /\ Taken' = Append(Taken, b)
<1>1. /\ header \in Seq(Byte) /\ payload \in Seq(Byte) /\ crc \in Seq(Byte)
      /\ state \in {"HEADER", "PAYLOAD", "CRC"}
      /\ state = "HEADER" => payload = <<>> /\ crc = <<>>
      /\ state = "PAYLOAD" => crc = <<>>
  BY DEF ParserInv, TypeOK, InStep, Idle
<1>2. CASE ReadHeader(b)
  <2>1. /\ state = "HEADER" /\ header' = Append(header, b) /\ payload' = payload
        /\ crc' = crc /\ state' \in {"HEADER", "PAYLOAD", "CRC"}
    BY <1>2 DEF ReadHeader, Goto
  <2>2. Taken' = ((<<SOF1, SOF2>> \o Append(header, b)) \o <<>>) \o <<>>
    BY <1>1, <2>1 DEF Taken
  <2>3. Append(Taken, b) = ((<<SOF1, SOF2>> \o Append(header, b)) \o <<>>) \o <<>>
    BY <1>1, <2>1, TakenGrows DEF Taken
  <2>4. QED BY <2>1, <2>2, <2>3 DEF Idle
<1>3. CASE ReadPayload(b)
  <2>1. /\ state = "PAYLOAD" /\ header' = header /\ payload' = Append(payload, b)
        /\ crc' = crc /\ state' \in {"PAYLOAD", "CRC"}
    BY <1>3 DEF ReadPayload, Goto
  <2>2. Taken' = ((<<SOF1, SOF2>> \o header) \o Append(payload, b)) \o <<>>
    BY <1>1, <2>1 DEF Taken
  <2>3. Append(((<<SOF1, SOF2>> \o header) \o payload) \o <<>>, b)
          = ((<<SOF1, SOF2>> \o header) \o Append(payload, b)) \o <<>>
    BY <1>1, PayloadGrows
  <2>4. Taken = ((<<SOF1, SOF2>> \o header) \o payload) \o <<>>
    BY <1>1, <2>1 DEF Taken
  <2>5. QED BY <2>1, <2>2, <2>3, <2>4 DEF Idle
<1>4. CASE ReadCrcLow(b)
  <2>1. /\ state' = "CRC" /\ header' = header /\ payload' = payload
        /\ crc = <<>> /\ crc' = <<b>>
    BY <1>4 DEF ReadCrcLow
  <2>2. crc' = Append(crc, b)
    BY <2>1
  <2>3. Taken' = ((<<SOF1, SOF2>> \o header) \o payload) \o Append(crc, b)
    BY <2>1, <2>2 DEF Taken
  <2>4. Append(Taken, b) = ((<<SOF1, SOF2>> \o header) \o payload) \o Append(crc, b)
    BY <1>1, CrcGrows DEF Taken
  <2>5. QED BY <2>1, <2>3, <2>4 DEF Idle
<1>5. ~WaitSof1(b) /\ ~WaitSof2(b) /\ ~ReadCrcHigh(b)
  BY <1>1 DEF WaitSof1, WaitSof2, ReadCrcHigh, Idle
<1>6. QED BY <1>2, <1>3, <1>4, <1>5 DEF ParseByte

\* The byte in front of the line is the next of the frame, and the rest is the
\* rest of the frame.
LEMMA RestOfTheLine ==
    ASSUME NEW e \in Seq(Byte), NEW l \in Seq(Byte), EndsWith(e, l), l # <<>>
    PROVE  /\ Head(l) \in Byte /\ Head(l) = e[Len(e) - Len(l) + 1]
           /\ Tail(l) \in Seq(Byte) /\ Len(Tail(l)) = Len(l) - 1
           /\ Len(l) \in Nat /\ Len(e) \in Nat /\ 1 <= Len(l) /\ Len(l) <= Len(e)
           /\ EndsWith(e, Tail(l))
<1>1. /\ Len(l) \in Nat /\ Len(l) # 0 /\ Len(e) \in Nat /\ Len(l) <= Len(e)
      /\ \A i \in 1..Len(l) : e[Len(e) - Len(l) + i] = l[i]
  BY LenProperties, EmptySeq DEF EndsWith
<1>2. Len(l) \in Nat /\ 1 <= Len(l)
  <2>1. Len(l) \in Nat /\ Len(l) # 0
    BY <1>1
  <2>2. QED BY <2>1
<1>3. /\ Head(l) \in Byte /\ Head(l) = l[1]
      /\ Tail(l) \in Seq(Byte) /\ Len(Tail(l)) = Len(l) - 1
      /\ \A i \in 1..(Len(l) - 1) : Tail(l)[i] = l[i + 1]
  BY HeadTailProperties
<1>4. Head(l) = e[Len(e) - Len(l) + 1]
  <2>1. 1 \in 1..Len(l)
    BY <1>2
  <2>2. QED BY <1>1, <1>3, <2>1
<1> DEFINE t == Tail(l)
<1>5. t \in Seq(Byte) /\ Len(t) = Len(l) - 1 /\ \A i \in 1..(Len(l) - 1) : t[i] = l[i + 1]
  BY <1>3
<1> HIDE DEF t
<1>6. EndsWith(e, t)
  <2>1. Len(t) <= Len(e)
    BY <1>1, <1>2, <1>5
  <2>2. ASSUME NEW i \in 1..Len(t) PROVE e[Len(e) - Len(t) + i] = t[i]
    <3>1. /\ i \in 1..(Len(l) - 1) /\ i + 1 \in 1..Len(l)
          /\ Len(e) - Len(t) + i = Len(e) - Len(l) + (i + 1)
      <4>1. Len(t) = Len(l) - 1 /\ Len(l) \in Nat /\ Len(e) \in Nat
        BY <1>1, <1>5
      <4>2. QED BY <4>1
    <3>2. QED BY <3>1, <1>1, <1>5
  <2>3. QED BY <2>1, <2>2 DEF EndsWith
<1>7. QED BY <1>1, <1>2, <1>3, <1>4, <1>6 DEF t

\* The beginning of a sequence grows by its next element.
LEMMA BeginningGrows ==
    ASSUME NEW e \in Seq(Byte), NEW t \in Seq(Byte), NEW b \in Byte,
           Begins(t, e), Len(t) < Len(e), b = e[Len(t) + 1]
    PROVE  Begins(Append(t, b), e) /\ Len(Append(t, b)) = Len(t) + 1
<1> DEFINE u == Append(t, b)
<1>1. /\ Len(u) = Len(t) + 1 /\ u[Len(t) + 1] = b
      /\ \A i \in 1..Len(t) : u[i] = t[i]
  BY AppendProperties
<1>2. Len(t) \in Nat /\ Len(e) \in Nat
  BY LenProperties
<1> HIDE DEF u
<1>3. Len(u) <= Len(e)
  BY <1>1, <1>2
<1>4. ASSUME NEW i \in 1..Len(u) PROVE u[i] = e[i]
  <2>1. CASE i = Len(t) + 1
    BY <2>1, <1>1
  <2>2. CASE i # Len(t) + 1
    <3>1. i \in 1..Len(t)
      BY <2>2, <1>1, <1>2
    <3>2. QED BY <3>1, <1>1 DEF Begins
  <2>3. QED BY <2>1, <2>2
<1>5. QED BY <1>1, <1>3, <1>4 DEF Begins, u

\* The second marker starts a frame.
LEMMA MarkersStartTheFrame ==
    ASSUME ParserInv, state = "WAIT_SOF2", ParseByte(SOF2)
    PROVE  ~Idle' /\ Taken' = <<SOF1, SOF2>>
<1>1. header = <<>> /\ payload = <<>> /\ crc = <<>>
  BY DEF ParserInv, InStep
<1>2. WaitSof2(SOF2)
  BY DEF ParseByte, WaitSof1, ReadHeader, ReadPayload, ReadCrcLow, ReadCrcHigh
<1>3. state' = "HEADER" /\ header' = <<>> /\ payload' = <<>> /\ crc' = <<>>
  BY <1>1, <1>2 DEF WaitSof2, Goto, SOF1, SOF2
<1>4. 0 \in Byte /\ <<>> \in Seq(Byte)
  BY DEF Byte
<1>5. ((<<SOF1, SOF2>> \o <<>>) \o <<>>) \o <<>> = <<SOF1, SOF2>>
  BY <1>4, TakenGrows
<1>6. QED BY <1>3, <1>5 DEF Taken, Idle

\* The header of a frame is not rejected when its last byte comes.
LEMMA HeaderIsAccepted ==
    ASSUME ChecksumsAreWords, ParserInv, ~Idle,
           NEW f \in Frame, MayBeSent(f), Begins(Taken, Encode(f)),
           NEW b \in Byte, b = Encode(f)[Len(Taken) + 1],
           state = "HEADER", Len(Append(header, b)) = HEADER_SIZE
    PROVE  HeaderIsAcceptable(Append(header, b))
<1> DEFINE h == Append(header, b)
<1>1. /\ header \in Seq(Byte) /\ payload = <<>> /\ crc = <<>>
  BY DEF ParserInv, TypeOK, InStep
<1>2. /\ h \in Seq(Byte) /\ Len(h) = Len(header) + 1 /\ h[Len(header) + 1] = b
      /\ \A i \in 1..Len(header) : h[i] = header[i]
  BY <1>1, AppendProperties
<1> HIDE DEF h
<1>3. Len(header) = 7
  <2>1. Len(header) \in Nat
    BY <1>1, LenProperties
  <2>2. Len(h) = 8
    BY DEF HEADER_SIZE, h
  <2>3. Len(header) + 1 = 8
    BY <1>2, <2>2
  <2>4. \A k \in Nat : k + 1 = 8 => k = 7
    OBVIOUS
  <2>5. QED BY <2>1, <2>3, <2>4
<1>4. Len(Taken) = 9
  <2>1. Len(Taken) = 2 + Len(header) + Len(payload) + Len(crc)
    BY BuffersHoldTheFrame
  <2>2. Len(payload) = 0 /\ Len(crc) = 0
    BY <1>1
  <2>3. QED BY <1>3, <2>1, <2>2
<1>5. Encode(f)[10] = Header(f)[8]
  <2>1. \A i \in 1..8 : Encode(f)[2 + i] = Header(f)[i]
    BY EncodedBytes
  <2>2. QED BY <2>1
<1>6. \A i \in 1..7 : header[i] = Header(f)[i]
  BY <1>3, BuffersHoldTheFrame
<1>7. b = Header(f)[8]
  BY <1>4, <1>5
<1>8. h = Header(f)
  <2>1. /\ Header(f) \in Seq(Byte) /\ Len(Header(f)) = 8
    BY FrameRoundTrip DEF HEADER_SIZE
  <2>2. ASSUME NEW i \in 1..8 PROVE h[i] = Header(f)[i]
    <3>1. CASE i = 8
      BY <3>1, <1>2, <1>3, <1>7
    <3>2. CASE i # 8
      <4>1. i \in 1..7
        BY <3>2
      <4>2. QED BY <4>1, <1>2, <1>3, <1>6
    <3>3. QED BY <3>1, <3>2
  <2>3. h \in Seq(Byte) /\ Len(h) = 8
    BY <1>2, <1>3
  <2>4. QED BY <2>1, <2>2, <2>3, SeqEqual
<1>9. QED BY <1>8, FrameRoundTrip DEF h

\* What a byte of the line does to what is left of it.
LEMMA DeliverStep ==
    ASSUME ChecksumsAreWords, LineInv, Deliver
    PROVE  /\ Head(line) \in Byte /\ ParseByte(Head(line))
           /\ Head(line) = Encode(frame)[Arrived + 1]
           /\ Arrived \in Nat /\ Len(Encode(frame)) \in Nat /\ Len(line) \in Nat
           /\ Len(Encode(frame)) = Arrived + Len(line) /\ 1 <= Len(line)
           /\ line' \in Seq(Byte) /\ Len(line') = Len(line) - 1 /\ EndsWith(Encode(frame), line')
<1> DEFINE e == Encode(frame)
<1>1. /\ e \in Seq(Byte) /\ line \in Seq(Byte) /\ EndsWith(e, line) /\ line # <<>>
      /\ line' = Tail(line) /\ ParseByte(Head(line))
  BY EncodedBytes DEF LineInv, Deliver
<1> HIDE DEF e
<1>2. /\ Head(line) \in Byte /\ Head(line) = e[Len(e) - Len(line) + 1]
      /\ line' \in Seq(Byte) /\ Len(line') = Len(line) - 1
      /\ Len(line) \in Nat /\ Len(e) \in Nat /\ 1 <= Len(line) /\ Len(line) <= Len(e)
      /\ EndsWith(e, line')
  BY <1>1, RestOfTheLine
<1>3. Arrived = Len(e) - Len(line)
  BY DEF Arrived, e
<1>4. Arrived \in Nat /\ Len(e) = Arrived + Len(line)
  <2>1. Len(line) \in Nat /\ Len(e) \in Nat /\ Len(line) <= Len(e)
    BY <1>2
  <2>2. QED BY <1>3, <2>1
<1>5. QED BY <1>1, <1>2, <1>3, <1>4 DEF e

\* A byte of the frame leaves the parser where the frame is.
LEMMA FrameIsFollowed ==
    ASSUME ChecksumsAreWords, LineInv, Deliver
    PROVE  FrameFollowed'
<1> DEFINE e == Encode(frame)
           b == Head(line)
<1>1. /\ b \in Byte /\ ParseByte(b) /\ b = e[Arrived + 1]
      /\ Arrived \in Nat /\ Len(e) \in Nat /\ Len(line) \in Nat
      /\ Len(e) = Arrived + Len(line)
      /\ line' \in Seq(Byte) /\ Len(line') = Len(line) - 1
  BY DeliverStep
<1>2. /\ e \in Seq(Byte) /\ e[1] = SOF1 /\ e[2] = SOF2 /\ frame \in Frame /\ MayBeSent(frame)
      /\ ParserInv
  BY EncodedBytes DEF LineInv
<1>3. frame' = frame /\ aligned' = aligned /\ line # <<>>
  BY DEF Deliver
<1> HIDE DEF b
<1> SUFFICES ASSUME aligned, line' # <<>>
             PROVE  \/ Arrived = 0 /\ state' = "WAIT_SOF2"
                    \/ Arrived >= 1 /\ ~Idle' /\ Len(Taken') = Arrived + 1 /\ Begins(Taken', e)
  <2>1. Arrived' = Arrived + 1
    <3>1. Arrived' = Len(e) - Len(line')
      BY <1>3 DEF Arrived
    <3>2. QED BY <1>1, <3>1
  <2>2. QED BY <2>1, <1>1, <1>3 DEF FrameFollowed, Idle
<1>4. Len(line) >= 2
  <2>1. Len(line') # 0
    BY <1>1, EmptySeq
  <2>2. QED BY <1>1, <2>1
<1> HIDE DEF e
<1>5. CASE Arrived = 0
  <2>1. b = SOF1 /\ state \in {"WAIT_SOF1", "WAIT_SOF2"}
    BY <1>1, <1>2, <1>3, <1>5 DEF LineInv, FrameFollowed, Idle
  <2>2. WaitSof1(b) \/ WaitSof2(b)
    BY <1>1, <2>1 DEF ParseByte, ReadHeader, ReadPayload, ReadCrcLow, ReadCrcHigh
  <2>3. QED BY <1>5, <2>1, <2>2 DEF WaitSof1, WaitSof2, Goto, SOF1, SOF2
<1>6. CASE Arrived = 1
  <2>1. b = SOF2 /\ state = "WAIT_SOF2"
    BY <1>1, <1>2, <1>3, <1>6 DEF LineInv, FrameFollowed
  <2>2. ~Idle' /\ Taken' = <<SOF1, SOF2>>
    BY <1>1, <1>2, <2>1, MarkersStartTheFrame
  <2>3. Len(<<SOF1, SOF2>>) = 2 /\ <<SOF1, SOF2>>[1] = SOF1 /\ <<SOF1, SOF2>>[2] = SOF2
    OBVIOUS
  <2>4. 2 <= Len(e)
    BY <1>1, <1>4
  <2>5. Begins(<<SOF1, SOF2>>, e)
    BY <1>2, <2>3, <2>4 DEF Begins
  <2>6. QED BY <1>6, <2>2, <2>3, <2>5
<1>7. CASE Arrived >= 2
  <2>1. ~Idle /\ Len(Taken) = Arrived /\ Begins(Taken, e)
    BY <1>3, <1>7 DEF LineInv, FrameFollowed, e
  <2>2. Taken \in Seq(Byte)
    BY <1>2, <2>1, TakenFits
  <2>3. ~(state = "CRC" /\ crc # <<>>)
    <3>1. SUFFICES ASSUME state = "CRC", crc # <<>> PROVE FALSE
      OBVIOUS
    <3>2. Len(e) = Arrived + 1
      BY <1>2, <2>1, <3>1, BuffersHoldTheFrame DEF e
    <3>3. QED BY <1>1, <1>4, <3>2
  <2>4. ASSUME state = "HEADER", Len(Append(header, b)) = HEADER_SIZE
        PROVE  HeaderIsAcceptable(Append(header, b))
    BY <1>1, <1>2, <2>1, <2>4, HeaderIsAccepted DEF e
  <2>5. ~Idle' /\ Taken' = Append(Taken, b)
    BY <1>1, <1>2, <2>1, <2>3, <2>4, ParserFollows
  <2>6. Len(Taken) < Len(e) /\ b = e[Len(Taken) + 1]
    BY <1>1, <1>4, <2>1
  <2>7. Begins(Append(Taken, b), e) /\ Len(Append(Taken, b)) = Len(Taken) + 1
    BY <1>1, <1>2, <2>1, <2>2, <2>6, BeginningGrows
  <2>8. QED BY <1>7, <2>1, <2>5, <2>7
<1>8. QED BY <1>1, <1>5, <1>6, <1>7

\* The last byte of a frame that has been followed dispatches it.
LEMMA FrameCompletes ==
    ASSUME ChecksumsAreWords, LineInv, Deliver, aligned, Len(line) = 1
    PROVE  dispatched' = <<frame>> /\ Idle'
<1> DEFINE e == Encode(frame)
           n == Len(frame.payload)
           checksum == Crc(Checked(Header(frame), frame.payload))
           sum == PutLe16(checksum)
           b == Head(line)
<1>1. /\ b \in Byte /\ ParseByte(b) /\ b = e[Arrived + 1]
      /\ Arrived \in Nat /\ Len(e) = Arrived + 1
  BY DeliverStep
<1>2. /\ frame \in Frame /\ MayBeSent(frame) /\ ParserInv /\ line # <<>>
  BY DEF LineInv, Deliver
<1>3. n \in Nat /\ Len(e) = n + 12 /\ e[n + 12] = sum[2]
  BY <1>2, EncodedBytes
<1>4. Arrived = n + 11
  BY <1>1, <1>3
<1>5. ~Idle /\ Len(Taken) = n + 11 /\ Begins(Taken, e)
  BY <1>2, <1>3, <1>4 DEF LineInv, FrameFollowed
<1>6. /\ Len(Taken) = 2 + Len(header) + Len(payload) + Len(crc)
      /\ state \in {"PAYLOAD", "CRC"} => header = Header(frame)
      /\ state = "CRC" => payload = frame.payload
      /\ state = "CRC" /\ crc # <<>> => crc[1] = sum[1]
  BY <1>2, <1>5, BuffersHoldTheFrame
<1>7. Len(header) \in Nat /\ Len(payload) \in Nat /\ Len(crc) \in Nat
  BY <1>2, LenProperties DEF ParserInv, TypeOK
<1>8. PayloadLenOf(Header(frame)) = n /\ Len(Header(frame)) = 8
  BY <1>2, FrameRoundTrip DEF HEADER_SIZE
<1> HIDE DEF b, n, e, checksum
<1>9. state # "HEADER"
  <2>1. SUFFICES ASSUME state = "HEADER" PROVE FALSE
    OBVIOUS
  <2>2. Len(header) < 8 /\ payload = <<>> /\ crc = <<>>
    BY <1>2, <2>1 DEF ParserInv, InStep, HEADER_SIZE
  <2>3. Len(payload) = 0 /\ Len(crc) = 0
    BY <2>2
  <2>4. Len(Taken) < 10
    BY <1>6, <1>7, <2>2, <2>3
  <2>5. QED BY <1>3, <1>5, <2>4
<1>10. state # "PAYLOAD"
  <2>1. SUFFICES ASSUME state = "PAYLOAD" PROVE FALSE
    OBVIOUS
  <2>2. Len(header) = 8 /\ Len(payload) < n /\ crc = <<>>
    BY <1>2, <1>6, <1>8, <2>1 DEF ParserInv, InStep
  <2>3. Len(crc) = 0
    BY <2>2
  <2>4. Len(Taken) < n + 10
    BY <1>3, <1>6, <1>7, <2>2, <2>3
  <2>5. QED BY <1>3, <1>5, <2>4
<1>11. state = "CRC"
  BY <1>2, <1>5, <1>9, <1>10 DEF ParserInv, TypeOK, Idle
<1>12. crc # <<>>
  <2>1. SUFFICES ASSUME crc = <<>> PROVE FALSE
    OBVIOUS
  <2>2. Len(header) = 8 /\ Len(payload) = n /\ Len(crc) = 0
    BY <1>6, <1>8, <1>11, <2>1 DEF n
  <2>3. Len(Taken) = n + 10
    BY <1>3, <1>6, <2>2
  <2>4. QED BY <1>3, <1>5, <2>3
<1>13. ReadCrcHigh(b)
  BY <1>1, <1>11, <1>12
     DEF ParseByte, WaitSof1, WaitSof2, ReadHeader, ReadPayload, ReadCrcLow
<1>14. crc[1] = sum[1] /\ b = sum[2] /\ header = Header(frame) /\ payload = frame.payload
  BY <1>1, <1>3, <1>4, <1>6, <1>11, <1>12
<1>15. checksum \in Word
  BY <1>2, FrameRoundTrip DEF ChecksumsAreWords, checksum
<1>16. GetLe16(crc[1], b) = checksum
  BY <1>14, <1>15, WordRoundTrip
<1>17. dispatched' = <<FrameOf(header, payload)>>
  BY <1>13, <1>14, <1>16 DEF ReadCrcHigh, SubmitFrame, checksum
<1>18. Idle'
  BY <1>13 DEF ReadCrcHigh, Reset, Idle
<1>19. QED BY <1>2, <1>14, <1>17, <1>18, FrameRoundTrip

-----------------------------------------------------------------------------
(***************************************************************************)
(* Every step of the line preserves the invariant.                         *)
(***************************************************************************)

\* The line starts empty.
LEMMA LineInitially ==
    ASSUME ChecksumsAreWords
    PROVE  LineInit => LineInv
<1> SUFFICES ASSUME LineInit PROVE LineInv
  OBVIOUS
<1>1. ParserInv
  BY Initially DEF LineInit
<1>2. frame \in Frame /\ MayBeSent(frame)
  <2>1. frame = NoFrame /\ <<>> \in Seq(Byte) /\ Len(<<>>) = 0
    BY DEF LineInit
  <2>2. 0 \in Byte /\ 0 \in Word
    BY DEF Byte, Word
  <2>3. MaxPayload \in Nat
    BY MaxFrameType
  <2>4. QED BY <2>1, <2>2, <2>3 DEF NoFrame, Frame, MayBeSent
<1>3. Encode(frame) \in Seq(Byte)
  BY <1>2, EncodedBytes
<1>4. line \in Seq(Byte) /\ EndsWith(Encode(frame), line)
  BY <1>3, EndsWithNothing DEF LineInit
<1>5. aligned = FALSE /\ sent = 0 /\ faults = 0
  BY DEF LineInit
<1>6. QED BY <1>1, <1>2, <1>4, <1>5 DEF LineInv, FrameFollowed

\* Whatever happens on the line, the parser takes a step of its own.
LEMMA LineStepIsAParserStep ==
    ASSUME ChecksumsAreWords, LineInv, [LineNext]_<<vars, lineVars>>
    PROVE  [Next]_vars
<1>1. Noise \subseteq Byte
  BY UartLineAssumption
<1>2. CASE UNCHANGED <<vars, lineVars>>
  BY <1>2
<1>3. CASE Deliver
  BY <1>3, DeliverStep DEF Next
<1>4. CASE LineNext /\ ~Deliver
  BY <1>1, <1>4 DEF LineNext, SendFrame, Lose, Change, Insert, Next
<1>5. QED BY <1>2, <1>3, <1>4

\* A frame that is sent is followed if the parser is outside of another.
LEMMA SendFrameStep ==
    ASSUME ChecksumsAreWords, LineInv, NEW m \in Message, SendFrame(m)
    PROVE  /\ frame' \in Frame /\ MayBeSent(frame')
           /\ line' \in Seq(Byte) /\ EndsWith(Encode(frame'), line')
           /\ sent' \in Nat /\ faults' \in Nat /\ aligned' \in BOOLEAN
           /\ FrameFollowed'
<1> DEFINE f == [m EXCEPT !.seq = sent + 1]
<1>1. /\ sent < MaxFrames /\ MayBeSent(f) /\ frame' = f /\ line' = Encode(f)
      /\ sent' = sent + 1 /\ aligned' = Idle /\ faults' = faults /\ state' = state
  BY DEF SendFrame, vars, parserVars
<1>2. sent \in Nat /\ faults \in Nat
  BY DEF LineInv
<1>3. sent + 1 \in Word
  <2>1. MaxFrames \in Int /\ MaxFrames <= 65535
    BY UartLineAssumption DEF Word
  <2>2. sent + 1 \in Int /\ 0 <= sent + 1 /\ sent + 1 <= 65535
    BY <1>1, <1>2, <2>1
  <2>3. QED BY <2>2, WordType
<1>4. f \in Frame
  BY <1>3, UartLineAssumption DEF Frame
<1> HIDE DEF f
<1>5. Encode(f) \in Seq(Byte)
  BY <1>1, <1>4, EncodedBytes
<1> DEFINE e == Encode(f)
<1>6. EndsWith(e, e) /\ Len(e) - Len(e) = 0
  <2> HIDE DEF e
  <2>1. e \in Seq(Byte) /\ Len(e) \in Nat
    BY <1>5, LenProperties DEF e
  <2>2. Len(e) <= Len(e) /\ \A i \in 1..Len(e) : Len(e) - Len(e) + i = i
    BY <2>1
  <2>3. QED BY <2>1, <2>2 DEF EndsWith
<1>7. Arrived' = 0
  BY <1>1, <1>6 DEF Arrived
<1>8. FrameFollowed'
  <2>1. aligned' => Idle'
    BY <1>1 DEF Idle
  <2>2. ~(Arrived' = 1) /\ ~(Arrived' >= 2)
    BY <1>7
  <2>3. QED BY <2>1, <2>2 DEF FrameFollowed
<1>9. QED BY <1>1, <1>2, <1>4, <1>5, <1>6, <1>8 DEF Idle

\* A frame that a fault hits is not followed any more; one that comes after it
\* is looked at when it is sent.
LEMMA FaultStep ==
    ASSUME ChecksumsAreWords, LineInv, Fault,
           \/ line # <<>> /\ line' = Tail(line)
           \/ line' = line
    PROVE  /\ frame' \in Frame /\ MayBeSent(frame')
           /\ line' \in Seq(Byte) /\ EndsWith(Encode(frame'), line')
           /\ sent' \in Nat /\ faults' \in Nat /\ aligned' \in BOOLEAN
           /\ FrameFollowed'
<1>1. /\ frame' = frame /\ sent' = sent /\ faults' = faults + 1
      /\ aligned' = (aligned /\ line = <<>>)
  BY DEF Fault
<1>2. /\ frame \in Frame /\ MayBeSent(frame) /\ line \in Seq(Byte)
      /\ EndsWith(Encode(frame), line) /\ sent \in Nat /\ faults \in Nat
  BY DEF LineInv
<1>3. Encode(frame) \in Seq(Byte)
  BY <1>2, EncodedBytes
<1>4. line' \in Seq(Byte) /\ EndsWith(Encode(frame), line')
  BY <1>2, <1>3, RestOfTheLine
<1>5. ~(aligned' /\ line' # <<>>)
  BY <1>1
<1>6. QED BY <1>1, <1>2, <1>4, <1>5 DEF FrameFollowed

LEMMA LineInvInductive ==
    ASSUME ChecksumsAreWords, LineInv, [LineNext]_<<vars, lineVars>>
    PROVE  LineInv'
<1>1. ParserInv'
  BY LineStepIsAParserStep, ParserInvInductive DEF LineInv
<1>2. CASE UNCHANGED <<vars, lineVars>>
  <2>1. /\ frame' = frame /\ line' = line /\ sent' = sent /\ faults' = faults
        /\ aligned' = aligned /\ state' = state /\ header' = header
        /\ payload' = payload /\ crc' = crc
    BY <1>2 DEF vars, parserVars, lineVars
  <2>2. FrameFollowed'
    BY <2>1 DEF LineInv, FrameFollowed, Arrived, Idle, Taken
  <2>3. QED BY <1>1, <2>1, <2>2 DEF LineInv
<1>3. ASSUME NEW m \in Message, SendFrame(m) PROVE LineInv'
  BY <1>1, <1>3, SendFrameStep DEF LineInv
<1>4. CASE Deliver
  <2>1. /\ frame' = frame /\ sent' = sent /\ faults' = faults /\ aligned' = aligned
    BY <1>4 DEF Deliver
  <2>2. line' \in Seq(Byte) /\ EndsWith(Encode(frame), line')
    BY <1>4, DeliverStep
  <2>3. FrameFollowed'
    BY <1>4, FrameIsFollowed
  <2>4. QED BY <1>1, <2>1, <2>2, <2>3 DEF LineInv
<1>5. CASE Lose
  BY <1>1, <1>5, FaultStep DEF Lose, LineInv
<1>6. ASSUME NEW b \in Noise, Change(b) PROVE LineInv'
  BY <1>1, <1>6, FaultStep DEF Change, LineInv
<1>7. ASSUME NEW b \in Noise, Insert(b) PROVE LineInv'
  BY <1>1, <1>7, FaultStep DEF Insert, LineInv
<1>8. QED BY <1>2, <1>3, <1>4, <1>5, <1>6, <1>7 DEF LineNext

LEMMA LineInvariant ==
    ASSUME ChecksumsAreWords
    PROVE  LineSpec => []LineInv
<1>1. LineInit => LineInv
  BY LineInitially
<1>2. LineInv /\ [LineNext]_<<vars, lineVars>> => LineInv'
  BY LineInvInductive
<1>3. QED BY <1>1, <1>2, PTL DEF LineSpec

\* The parser at the end of the line is the parser that is fed with any bytes:
\* what is proved of it holds of the line, whatever the faults are.
THEOREM LineFeedsTheParser ==
    ASSUME ChecksumsAreWords
    PROVE  LineSpec => Spec
<1>1. LineInit => Init
  BY DEF LineInit
<1>2. LineInv /\ [LineNext]_<<vars, lineVars>> => [Next]_vars
  BY LineStepIsAParserStep
<1>3. QED BY <1>1, <1>2, LineInvariant, PTL DEF LineSpec, Spec

\* The step that brings the last byte of a frame without a fault is a byte of the
\* line that arrives.
LEMMA CompletesByDelivery ==
    ASSUME LineInv, LineNext, Completes
    PROVE  Deliver /\ line # <<>> /\ Len(line) = 1
<1>1. faults' = faults /\ Len(line) = 1 /\ line' = <<>> /\ line # <<>>
  BY DEF Completes
<1>2. ~Fault
  <2>1. faults \in Nat
    BY DEF LineInv
  <2>2. faults + 1 # faults
    BY <2>1
  <2>3. QED BY <1>1, <2>2 DEF Fault
<1>3. QED BY <1>1, <1>2 DEF LineNext, SendFrame, Lose, Change, Insert

\* Whatever the faults before it have done to the parser, a frame that comes
\* whole and meets it outside of another is dispatched as it was sent: for any
\* messages, any noise, any number of faults, any size of the payload buffer.
THEOREM IntactFramesArrive ==
    ASSUME ChecksumsAreWords
    PROVE  LineSpec => IntactFramesAreDispatched
<1>1. ASSUME LineInv, [LineNext]_<<vars, lineVars>>
      PROVE  [Completes /\ aligned => dispatched' = <<frame>>]_<<vars, lineVars>>
  <2>1. SUFFICES ASSUME LineNext, Completes, aligned PROVE dispatched' = <<frame>>
    BY <1>1
  <2>2. Deliver /\ Len(line) = 1
    BY <1>1, <2>1, CompletesByDelivery
  <2>3. QED BY <1>1, <2>1, <2>2, FrameCompletes
<1>2. QED BY <1>1, LineInvariant, PTL DEF LineSpec, IntactFramesAreDispatched

-----------------------------------------------------------------------------
(***************************************************************************)
(* A line without faults.                                                  *)
(***************************************************************************)

\* As long as no fault has happened, the parser is outside of any frame between
\* two frames, and so every frame is followed.
CleanLineInv ==
    faults = 0 => IF line = <<>> THEN Idle ELSE aligned

LEMMA CleanLineInductive ==
    ASSUME ChecksumsAreWords, LineInv, CleanLineInv, [LineNext]_<<vars, lineVars>>
    PROVE  CleanLineInv'
<1>1. CASE UNCHANGED <<vars, lineVars>>
  BY <1>1 DEF CleanLineInv, Idle, vars, parserVars, lineVars
<1>2. ASSUME NEW m \in Message, SendFrame(m) PROVE CleanLineInv'
  <2>1. line = <<>> /\ faults' = faults /\ aligned' = Idle /\ state' = state
    BY <1>2 DEF SendFrame, vars, parserVars
  <2>2. QED BY <2>1 DEF CleanLineInv, Idle
<1>3. CASE Deliver
  <2>1. line # <<>> /\ faults' = faults /\ aligned' = aligned
    BY <1>3 DEF Deliver
  <2>2. /\ Len(line) \in Nat /\ 1 <= Len(line)
        /\ line' \in Seq(Byte) /\ Len(line') = Len(line) - 1
    BY <1>3, DeliverStep
  <2>3. ASSUME faults' = 0, line' = <<>> PROVE Idle'
    <3>1. Len(line') = 0
      BY <2>3
    <3>2. Len(line) = 1
      BY <2>2, <3>1
    <3>3. aligned
      BY <2>1, <2>3 DEF CleanLineInv
    <3>4. QED BY <1>3, <3>2, <3>3, FrameCompletes
  <2>4. QED BY <2>1, <2>3 DEF CleanLineInv
<1>4. CASE Fault
  <2>1. faults \in Nat /\ faults' = faults + 1
    BY <1>4 DEF Fault, LineInv
  <2>2. faults' # 0
    BY <2>1
  <2>3. QED BY <2>2 DEF CleanLineInv
<1>5. QED BY <1>1, <1>2, <1>3, <1>4 DEF LineNext, Lose, Change, Insert

\* On a line without faults nothing is lost: every frame sent is dispatched as
\* it was sent when its last byte comes, whatever it holds, the two markers in
\* its payload included.
THEOREM CleanLinesLoseNothing ==
    ASSUME ChecksumsAreWords
    PROVE  LineSpec => [][Completes /\ faults = 0 => dispatched' = <<frame>>]_<<vars, lineVars>>
<1>1. LineInit => CleanLineInv
  BY DEF LineInit, Init, CleanLineInv, Idle
<1>2. LineInv /\ CleanLineInv /\ [LineNext]_<<vars, lineVars>> => CleanLineInv'
  BY CleanLineInductive
<1>3. ASSUME CleanLineInv,
             [Completes /\ aligned => dispatched' = <<frame>>]_<<vars, lineVars>>
      PROVE  [Completes /\ faults = 0 => dispatched' = <<frame>>]_<<vars, lineVars>>
  <2>1. Completes => line # <<>>
    BY DEF Completes
  <2>2. QED BY <1>3, <2>1 DEF CleanLineInv
<1>4. QED
  BY <1>1, <1>2, <1>3, LineInvariant, IntactFramesArrive, PTL
     DEF LineSpec, IntactFramesAreDispatched

-----------------------------------------------------------------------------
(***************************************************************************)
(* Back in step after a fault.                                             *)
(*                                                                         *)
(* A parser that is inside of a frame when another is sent takes the bytes *)
(* of that one for its own.  Hunger bounds how many it still takes; every  *)
(* byte makes it smaller, so Resync frames are enough to bring the parser  *)
(* out of it.  Where that happens in the middle of a frame, nothing in the *)
(* rest of it starts another, and the next frame finds the parser outside. *)
(***************************************************************************)

\* The most bytes that the parser takes after the two markers.
LongestRest == MaxFrame - 2

\* The most bytes that the parser takes before it is outside of the frame.
Hunger ==
    CASE state = "HEADER"  -> LongestRest - Len(header)
      [] state = "PAYLOAD" -> PayloadLenOf(header) - Len(payload) + 2
      [] state = "CRC"     -> 2 - Len(crc)
      [] OTHER             -> 0

\* The frame has come to a parser inside of another, which it has left; it takes
\* a byte for the first marker only if it is one.
KeepsOutside ==
    /\ Arrived >= 1
    /\ state = "WAIT_SOF2" => Arrived >= 2 /\ Encode(frame)[Arrived] = SOF1

\* What has come in the frames without a fault is taken off what the parser
\* could take when the first of them came.
Swallows ==
    Resync * (Hunger + Arrived) + (intact - 1) * LongestRest <= Resync * LongestRest

ResyncInv ==
    /\ intact \in Nat
    /\ intact > 0 =>
         /\ ~Ambiguous(Encode(frame))
         /\ Resync * Len(Encode(frame)) >= LongestRest
         /\ aligned /\ line = <<>> => Idle
         /\ ~aligned => intact <= Resync
         /\ ~aligned /\ Idle => KeepsOutside
         /\ ~aligned /\ ~Idle => Swallows

\* A product does not get smaller when a factor grows.
LEMMA TimesMonotonic ==
    ASSUME NEW k \in Nat, NEW x \in Nat, NEW y \in Nat, x <= y
    PROVE  k * x <= k * y /\ x * k <= y * k
<1>1. PICK d \in Nat : y = x + d
  <2>1. y - x \in Nat /\ y = x + (y - x)
    OBVIOUS
  <2>2. QED BY <2>1
<1>2. k * d \in Nat
  OBVIOUS
<1>3. k * y = k * x + k * d /\ k * x \in Nat
  BY <1>1
<1>4. k * x = x * k /\ k * y = y * k
  OBVIOUS
<1>5. QED BY <1>2, <1>3, <1>4

\* Hunger is a number, and there is something left to take inside of a frame.
LEMMA HungerType ==
    ASSUME ParserInv
    PROVE  /\ LongestRest \in Nat /\ LongestRest = MaxPayload + 10 /\ MaxPayload \in Nat
           /\ Hunger \in Nat /\ Hunger <= LongestRest
           /\ ~Idle => Hunger >= 1
<1>1. MaxPayload \in Nat /\ LongestRest = MaxPayload + 10
  BY MaxFrameType DEF LongestRest
<1>2. /\ Len(header) \in Nat /\ Len(payload) \in Nat /\ Len(crc) \in Nat /\ Len(crc) <= 1
      /\ state \in {"WAIT_SOF1", "WAIT_SOF2", "HEADER", "PAYLOAD", "CRC"}
  BY LenProperties DEF ParserInv, TypeOK
<1>3. CASE Idle
  BY <1>1, <1>3 DEF Hunger, Idle
<1>4. CASE state = "HEADER"
  <2>1. Hunger = LongestRest - Len(header) /\ Len(header) < 8
    BY <1>4 DEF Hunger, ParserInv, InStep, HEADER_SIZE
  <2>2. QED BY <1>1, <1>2, <2>1
<1>5. CASE state = "PAYLOAD"
  <2>1. /\ Hunger = PayloadLenOf(header) - Len(payload) + 2
        /\ Len(payload) < PayloadLenOf(header) /\ PayloadLenOf(header) <= MaxPayload
        /\ Len(header) = 8
    BY <1>5 DEF Hunger, ParserInv, InStep, HEADER_SIZE, HeaderIsAcceptable
  <2>2. PayloadLenOf(header) \in Nat
    BY <2>1, PayloadLenType DEF ParserInv, TypeOK, HEADER_SIZE
  <2>3. QED BY <1>1, <1>2, <2>1, <2>2
<1>6. CASE state = "CRC"
  <2>1. Hunger = 2 - Len(crc)
    BY <1>6 DEF Hunger
  <2>2. QED BY <1>1, <1>2, <2>1
<1>7. QED BY <1>1, <1>2, <1>3, <1>4, <1>5, <1>6 DEF Idle

\* A parser inside of a frame takes the byte and is nearer to the end of it, or
\* it leaves the frame and waits for a first marker.
LEMMA HungerShrinks ==
    ASSUME ParserInv, ~Idle, NEW b \in Byte, ParseByte(b)
    PROVE  \/ state' = "WAIT_SOF1"
           \/ ~Idle' /\ Hunger' \in Nat /\ Hunger' + 1 <= Hunger
<1>1. /\ Len(header) \in Nat /\ Len(payload) \in Nat /\ Len(crc) \in Nat
      /\ header \in Seq(Byte) /\ payload \in Seq(Byte) /\ crc \in Seq(Byte)
      /\ MaxPayload \in Nat /\ LongestRest = MaxPayload + 10
  BY LenProperties, HungerType DEF ParserInv, TypeOK
<1>2. LongestRest' = LongestRest
  BY DEF LongestRest, MaxFrame
<1>3. CASE ReadHeader(b)
  <2> DEFINE h == Append(header, b)
  <2>1. /\ state = "HEADER" /\ Len(header) < 8 /\ payload = <<>> /\ crc = <<>>
        /\ Hunger = LongestRest - Len(header)
    BY <1>3 DEF ReadHeader, ParserInv, InStep, Hunger, HEADER_SIZE
  <2>2. h \in Seq(Byte) /\ Len(h) = Len(header) + 1
    BY <1>1, AppendProperties
  <2> HIDE DEF h
  <2>3. CASE Len(h) < HEADER_SIZE /\ header' = h /\ UNCHANGED <<state, payload, crc>>
    <3>1. Hunger' = LongestRest - Len(h) /\ state' = "HEADER"
      BY <1>2, <2>1, <2>3 DEF Hunger
    <3>2. QED BY <1>1, <2>1, <2>2, <3>1 DEF Idle
  <2>4. CASE /\ Len(h) = HEADER_SIZE /\ HeaderIsAcceptable(h) /\ header' = h
             /\ Goto(IF PayloadLenOf(h) = 0 THEN "CRC" ELSE "PAYLOAD")
             /\ UNCHANGED <<payload, crc>>
    <3>1. PayloadLenOf(h) \in Nat /\ PayloadLenOf(h) <= MaxPayload /\ Len(header) = 7
      <4>1. PayloadLenOf(h) \in Nat
        BY <2>2, <2>4, PayloadLenType
      <4>2. PayloadLenOf(h) <= MaxPayload
        BY <2>4 DEF HeaderIsAcceptable
      <4>3. Len(header) + 1 = 8 /\ Len(header) \in Nat
        BY <1>1, <2>2, <2>4 DEF HEADER_SIZE
      <4>4. \A k \in Nat : k + 1 = 8 => k = 7
        OBVIOUS
      <4>5. QED BY <4>1, <4>2, <4>3, <4>4
    <3>2. payload' = <<>> /\ crc' = <<>> /\ Len(<<>>) = 0
      BY <2>1, <2>4
    <3>3. CASE state' = "CRC"
      <4>1. Hunger' = 2
        BY <3>2, <3>3 DEF Hunger
      <4>2. QED BY <1>1, <2>1, <3>1, <3>3, <4>1 DEF Idle
    <3>4. CASE state' = "PAYLOAD"
      <4>1. Hunger' = PayloadLenOf(h) - 0 + 2
        BY <2>4, <3>2, <3>4 DEF Hunger
      <4>2. QED BY <1>1, <2>1, <3>1, <3>4, <4>1 DEF Idle
    <3>5. QED BY <2>4, <3>3, <3>4 DEF Goto
  <2>5. CASE Reset
    BY <2>5 DEF Reset
  <2>6. QED BY <1>3, <2>3, <2>4, <2>5 DEF ReadHeader, h
<1>4. CASE ReadPayload(b)
  <2> DEFINE p == Append(payload, b)
  <2>1. /\ state = "PAYLOAD" /\ Len(payload) < PayloadLenOf(header) /\ crc = <<>>
        /\ Hunger = PayloadLenOf(header) - Len(payload) + 2
        /\ Len(header) = HEADER_SIZE
        /\ header' = header /\ crc' = crc /\ payload' = p
        /\ state' \in {"CRC", "PAYLOAD"}
    BY <1>4 DEF ReadPayload, ParserInv, InStep, Hunger, Goto
  <2>2. Len(p) = Len(payload) + 1
    BY <1>1, AppendProperties
  <2>3. PayloadLenOf(header) \in Nat
    BY <1>1, <2>1, PayloadLenType
  <2> HIDE DEF p
  <2>4. CASE state' = "CRC"
    <3>1. Hunger' = 2
      BY <2>1, <2>4 DEF Hunger
    <3>2. QED BY <1>1, <2>1, <2>3, <2>4, <3>1 DEF Idle
  <2>5. CASE state' = "PAYLOAD"
    <3>1. Hunger' = PayloadLenOf(header) - Len(p) + 2
      BY <2>1, <2>5 DEF Hunger
    <3>2. QED BY <1>1, <2>1, <2>2, <2>3, <2>5, <3>1 DEF Idle
  <2>6. QED BY <2>1, <2>4, <2>5
<1>5. CASE ReadCrcLow(b)
  <2>1. /\ state = "CRC" /\ state' = "CRC" /\ crc = <<>> /\ crc' = <<b>>
    BY <1>5 DEF ReadCrcLow
  <2>2. Len(<<>>) = 0 /\ Len(<<b>>) = 1
    OBVIOUS
  <2>3. Hunger = 2 /\ Hunger' = 1
    BY <2>1, <2>2 DEF Hunger
  <2>4. QED BY <2>1, <2>3 DEF Idle
<1>6. CASE ReadCrcHigh(b)
  BY <1>6 DEF ReadCrcHigh, Reset
<1>7. ~WaitSof1(b) /\ ~WaitSof2(b)
  BY DEF WaitSof1, WaitSof2, Idle
<1>8. QED BY <1>3, <1>4, <1>5, <1>6, <1>7 DEF ParseByte

\* What the parser does with a byte outside of a frame.
LEMMA OutsideStep ==
    ASSUME Idle, NEW b \in Byte, ParseByte(b)
    PROVE  /\ ~(state = "WAIT_SOF2" /\ b = SOF2) => Idle'
           /\ state' = "WAIT_SOF2" => b = SOF1
<1>1. WaitSof1(b) \/ WaitSof2(b)
  BY DEF ParseByte, ReadHeader, ReadPayload, ReadCrcLow, ReadCrcHigh, Idle
<1>2. CASE WaitSof1(b)
  BY <1>2 DEF WaitSof1, Goto, Idle
<1>3. CASE WaitSof2(b)
  BY <1>3 DEF WaitSof2, Goto, Idle, SOF1, SOF2
<1>4. QED BY <1>1, <1>2, <1>3

\* A frame that meets the parser inside of another is one of the first Resync.
LEMMA ResyncSendFrame ==
    ASSUME ChecksumsAreWords, LineInv, ResyncInv, NEW m \in Message, SendFrame(m)
    PROVE  ResyncInv'
<1> DEFINE f == [m EXCEPT !.seq = sent + 1]
           e == Encode(f)
<1>1. /\ line = <<>> /\ sent < MaxFrames /\ MayBeSent(f) /\ frame' = f /\ line' = e
      /\ aligned' = Idle /\ intact' = IF Ambiguous(e) THEN 0 ELSE intact + 1
      /\ state' = state /\ header' = header /\ payload' = payload /\ crc' = crc
  BY DEF SendFrame, vars, parserVars
<1>2. intact \in Nat /\ ParserInv /\ Resync \in Nat
  BY UartLineAssumption DEF LineInv, ResyncInv
<1>3. intact' \in Nat
  BY <1>1, <1>2
<1>4. m \in Frame /\ f.payload = m.payload /\ Len(m.payload) \in Nat
  BY UartLineAssumption, LenProperties DEF Frame
<1>5. f \in Frame
  <2>1. frame' \in Frame
    BY SendFrameStep
  <2>2. QED BY <1>1, <2>1
<1>6. Len(e) = Len(m.payload) + 12
  BY <1>1, <1>4, <1>5, EncodedBytes
<1>7. Resync * Len(e) >= LongestRest
  <2>1. MayBeSent(m)
    BY <1>1, <1>4 DEF MayBeSent
  <2>2. Resync * (Len(m.payload) + 8 + 4) >= LongestRest
    BY <2>1, ResyncAssumption DEF LongestRest, HEADER_SIZE
  <2>3. Len(m.payload) + 8 + 4 = Len(e)
    BY <1>4, <1>6
  <2>4. QED BY <2>2, <2>3
<1> HIDE DEF f, e
<1>8. Len(e) \in Nat /\ line' # <<>> /\ Arrived' = 0
  <2>1. Len(e) \in Nat /\ Len(e) >= 1
    BY <1>4, <1>6
  <2>2. Len(<<>>) = 0
    OBVIOUS
  <2>3. Arrived' = Len(e) - Len(e)
    BY <1>1 DEF Arrived, e
  <2>4. QED BY <1>1, <2>1, <2>2, <2>3
<1>9. /\ LongestRest' = LongestRest /\ Hunger' = Hunger /\ Idle' = Idle
      /\ LongestRest \in Nat /\ LongestRest >= 1
      /\ Hunger \in Nat /\ Hunger <= LongestRest /\ (~Idle => Hunger >= 1)
  <2>1. LongestRest' = LongestRest
    BY DEF LongestRest, MaxFrame
  <2>2. Hunger' = Hunger /\ Idle' = Idle
    BY <1>1, <2>1 DEF Hunger, Idle
  <2>3. QED BY <1>2, <2>1, <2>2, HungerType
<1>10. ASSUME intact' > 0, ~aligned'
       PROVE  intact' <= Resync /\ Swallows'
  <2> DEFINE C == LongestRest
  <2>1. intact' = intact + 1 /\ ~Idle
    BY <1>1, <1>10
  <2>2. Resync * Hunger + intact * C <= Resync * C
    <3>1. Resync * Hunger <= Resync * C
      BY <1>2, <1>9, TimesMonotonic
    <3>2. CASE intact = 0
      <4>1. intact * C = 0 /\ Resync * Hunger \in Nat
        BY <1>2, <1>9, <3>2
      <4>2. QED BY <3>1, <4>1
    <3>3. CASE intact > 0
      <4>1. aligned => FALSE
        BY <1>1, <2>1, <3>3 DEF ResyncInv
      <4>2. Swallows /\ Resync * Len(Encode(frame)) >= C
        BY <2>1, <3>3, <4>1 DEF ResyncInv
      <4>3. Arrived = Len(Encode(frame)) /\ Arrived \in Nat
        <5>1. Encode(frame) \in Seq(Byte)
          BY EncodedBytes DEF LineInv
        <5>2. Len(Encode(frame)) \in Nat /\ Len(line) = 0
          BY <1>1, <5>1, LenProperties
        <5>3. QED BY <5>2 DEF Arrived
      <4>4. Resync * (Hunger + Arrived) = Resync * Hunger + Resync * Arrived
        BY <1>2, <1>9, <4>3
      <4>5. (intact - 1) * C + C = intact * C
        BY <1>2, <1>9
      <4>6. Resync * Hunger \in Nat /\ Resync * Arrived \in Nat /\ Resync * C \in Nat
            /\ (intact - 1) * C \in Int /\ C \in Nat
        BY <1>2, <1>9, <4>3
      <4>7. Resync * (Hunger + Arrived) + (intact - 1) * C <= Resync * C
        BY <4>2 DEF Swallows
      <4>8. Resync * Arrived >= C
        BY <4>2, <4>3
      <4>9. QED BY <4>4, <4>5, <4>6, <4>7, <4>8
    <3>4. QED BY <1>2, <3>2, <3>3
  <2>3. Resync # 0
    <3>1. SUFFICES ASSUME Resync = 0 PROVE FALSE
      OBVIOUS
    <3>2. 0 * Len(e) = 0
      BY <1>8
    <3>3. QED BY <1>7, <1>9, <3>1, <3>2
  <2>4. intact <= Resync - 1
    <3>1. SUFFICES ASSUME intact >= Resync PROVE FALSE
      BY <1>2
    <3>2. Resync * C <= intact * C
      BY <1>2, <1>9, <3>1, TimesMonotonic
    <3>3. 1 * Resync <= Hunger * Resync
      BY <1>2, <1>9, <2>1, TimesMonotonic
    <3>4. /\ Resync * Hunger = Hunger * Resync /\ 1 * Resync = Resync
          /\ Resync * Hunger \in Nat /\ intact * C \in Nat /\ Resync * C \in Nat
      BY <1>2, <1>9
    <3>5. QED BY <1>2, <2>2, <2>3, <3>2, <3>3, <3>4
  <2>5. Resync * (Hunger' + Arrived') + (intact' - 1) * LongestRest' <= Resync * LongestRest'
    <3>1. Hunger' + Arrived' = Hunger /\ intact' - 1 = intact
      BY <1>2, <1>8, <1>9, <2>1
    <3>2. QED BY <1>9, <2>2, <3>1
  <2>6. QED BY <1>2, <2>1, <2>4, <2>5 DEF Swallows
<1>11. intact' > 0 => ~Ambiguous(Encode(frame'))
  BY <1>1 DEF e
<1>12. Resync * Len(Encode(frame')) >= LongestRest'
  BY <1>1, <1>7, <1>9 DEF e
<1>13. ~aligned' => ~Idle'
  BY <1>1, <1>9
<1>14. QED BY <1>3, <1>8, <1>10, <1>11, <1>12, <1>13 DEF ResyncInv

\* A byte of a frame without a fault.
LEMMA ResyncDeliver ==
    ASSUME ChecksumsAreWords, LineInv, ResyncInv, Deliver
    PROVE  ResyncInv'
<1> DEFINE e == Encode(frame)
           b == Head(line)
<1>1. /\ b \in Byte /\ ParseByte(b) /\ b = e[Arrived + 1]
      /\ Arrived \in Nat /\ Len(e) \in Nat /\ Len(line) \in Nat
      /\ Len(e) = Arrived + Len(line) /\ 1 <= Len(line)
      /\ line' \in Seq(Byte) /\ Len(line') = Len(line) - 1
  BY DeliverStep
<1>2. frame' = frame /\ aligned' = aligned /\ intact' = intact
  BY DEF Deliver
<1>3. ParserInv /\ Resync \in Nat /\ intact \in Nat
  BY UartLineAssumption DEF LineInv, ResyncInv
<1> HIDE DEF b
<1>4. Arrived' = Arrived + 1
  <2>1. Arrived' = Len(e) - Len(line')
    BY <1>2 DEF Arrived
  <2>2. QED BY <1>1, <2>1
<1>5. LongestRest' = LongestRest /\ LongestRest \in Nat /\ Hunger \in Nat
  <2>1. LongestRest' = LongestRest
    BY DEF LongestRest, MaxFrame
  <2>2. QED BY <1>3, <2>1, HungerType
<1> SUFFICES ASSUME intact > 0
             PROVE  /\ aligned /\ line' = <<>> => Idle'
                    /\ ~aligned /\ Idle' => KeepsOutside'
                    /\ ~aligned /\ ~Idle' => Swallows'
  BY <1>2, <1>3, <1>5 DEF ResyncInv
<1>6. /\ ~Ambiguous(e)
      /\ ~aligned /\ Idle => KeepsOutside
      /\ ~aligned /\ ~Idle => Swallows
  BY DEF ResyncInv
<1>7. ASSUME aligned, line' = <<>> PROVE Idle'
  <2>1. Len(line') = 0
    BY <1>7
  <2>2. Len(line) = 1
    BY <1>1, <2>1
  <2>3. QED BY <1>7, <2>2, FrameCompletes
<1>8. ASSUME ~aligned, Idle PROVE Idle' /\ KeepsOutside'
  <2>1. Arrived >= 1 /\ (state = "WAIT_SOF2" => Arrived >= 2 /\ e[Arrived] = SOF1)
    BY <1>6, <1>8 DEF KeepsOutside
  <2>2. ~(state = "WAIT_SOF2" /\ b = SOF2)
    <3>1. SUFFICES ASSUME state = "WAIT_SOF2", b = SOF2 PROVE FALSE
      OBVIOUS
    <3>2. Arrived \in 2..(Len(e) - 1) /\ e[Arrived] = SOF1 /\ e[Arrived + 1] = SOF2
      BY <1>1, <2>1, <3>1
    <3>3. QED BY <1>6, <3>2 DEF Ambiguous
  <2>3. Idle' /\ (state' = "WAIT_SOF2" => b = SOF1)
    BY <1>1, <1>8, <2>2, OutsideStep
  <2>4. Arrived' >= 2
    BY <1>1, <1>4, <2>1
  <2>5. Encode(frame')[Arrived'] = b
    BY <1>1, <1>2, <1>4
  <2>6. Arrived' >= 1
    BY <1>1, <1>4
  <2>7. QED BY <2>3, <2>4, <2>5, <2>6 DEF KeepsOutside
<1>9. ASSUME ~aligned, ~Idle
      PROVE  (Idle' => KeepsOutside') /\ (~Idle' => Swallows')
  <2>1. CASE state' = "WAIT_SOF1"
    <3>1. Arrived' >= 1
      BY <1>1, <1>4
    <3>2. QED BY <2>1, <3>1 DEF KeepsOutside, Idle
  <2>2. CASE ~Idle' /\ Hunger' \in Nat /\ Hunger' + 1 <= Hunger
    <3>1. Hunger' + Arrived' <= Hunger + Arrived
      <4>1. \A x, y, a \in Nat : x + 1 <= y => x + (a + 1) <= y + a
        OBVIOUS
      <4>2. Hunger \in Nat /\ Hunger' \in Nat /\ Arrived \in Nat /\ Hunger' + 1 <= Hunger
        BY <1>1, <1>5, <2>2
      <4>3. Hunger' + (Arrived + 1) <= Hunger + Arrived
        BY <4>1, <4>2
      <4>4. QED BY <1>4, <4>3
    <3>2. Hunger' + Arrived' \in Nat /\ Hunger + Arrived \in Nat
      <4>1. \A x, y \in Nat : x + y \in Nat
        OBVIOUS
      <4>2. Hunger \in Nat /\ Hunger' \in Nat /\ Arrived \in Nat /\ Arrived' \in Nat
        BY <1>1, <1>4, <1>5, <2>2
      <4>3. QED BY <4>1, <4>2
    <3>3. Resync * (Hunger' + Arrived') <= Resync * (Hunger + Arrived)
      BY <1>3, <3>1, <3>2, TimesMonotonic
    <3>4. Resync * (Hunger + Arrived) + (intact - 1) * LongestRest <= Resync * LongestRest
      BY <1>6, <1>9 DEF Swallows
    <3>5. /\ Resync * (Hunger' + Arrived') \in Int /\ Resync * (Hunger + Arrived) \in Int
          /\ (intact - 1) * LongestRest \in Int /\ Resync * LongestRest \in Int
      BY <1>3, <1>5, <3>2
    <3>6. Resync * (Hunger' + Arrived') + (intact - 1) * LongestRest <= Resync * LongestRest
      BY <3>3, <3>4, <3>5
    <3>7. QED BY <1>2, <1>5, <2>2, <3>6 DEF Swallows
  <2>3. QED BY <1>1, <1>3, <1>9, <2>1, <2>2, HungerShrinks
<1>10. QED BY <1>7, <1>8, <1>9

LEMMA ResyncInvInductive ==
    ASSUME ChecksumsAreWords, LineInv, ResyncInv, [LineNext]_<<vars, lineVars>>
    PROVE  ResyncInv'
<1>1. CASE UNCHANGED <<vars, lineVars>>
  <2>1. /\ frame' = frame /\ line' = line /\ aligned' = aligned /\ intact' = intact
        /\ state' = state /\ header' = header /\ payload' = payload /\ crc' = crc
    BY <1>1 DEF vars, parserVars, lineVars
  <2>2. LongestRest' = LongestRest /\ Hunger' = Hunger /\ Arrived' = Arrived /\ Idle' = Idle
    BY <2>1 DEF LongestRest, MaxFrame, Hunger, Arrived, Idle
  <2>3. KeepsOutside' = KeepsOutside /\ Swallows' = Swallows
    BY <2>1, <2>2 DEF KeepsOutside, Swallows
  <2>4. QED BY <2>1, <2>2, <2>3 DEF ResyncInv
<1>2. ASSUME NEW m \in Message, SendFrame(m) PROVE ResyncInv'
  BY <1>2, ResyncSendFrame
<1>3. CASE Deliver
  BY <1>3, ResyncDeliver
<1>4. CASE Fault
  BY <1>4 DEF Fault, ResyncInv
<1>5. QED BY <1>1, <1>2, <1>3, <1>4 DEF LineNext, Lose, Change, Insert

LEMMA ResyncInvariant ==
    ASSUME ChecksumsAreWords
    PROVE  LineSpec => []ResyncInv
<1>1. LineInit => ResyncInv
  BY DEF LineInit, ResyncInv
<1>2. LineInv /\ ResyncInv /\ [LineNext]_<<vars, lineVars>> => ResyncInv'
  BY ResyncInvInductive
<1>3. QED BY <1>1, <1>2, LineInvariant, PTL DEF LineSpec

\* Whatever faults have made of the state of the parser, at most Resync frames
\* are missed after the last of them, as long as none holds the two markers in
\* its middle: for any messages, any noise, any number of faults, any checksum
\* and any size of the payload buffer.
THEOREM ParserComesBackInStep ==
    ASSUME ChecksumsAreWords
    PROVE  LineSpec => ParserResynchronises
<1>1. ASSUME LineInv, ResyncInv, [LineNext]_<<vars, lineVars>>
      PROVE  [Completes /\ intact > Resync => dispatched' = <<frame>>]_<<vars, lineVars>>
  <2>1. SUFFICES ASSUME LineNext, Completes, intact > Resync PROVE dispatched' = <<frame>>
    BY <1>1
  <2>2. Deliver /\ Len(line) = 1
    BY <1>1, <2>1, CompletesByDelivery
  <2>3. intact > 0 /\ ~(intact <= Resync)
    BY <1>1, <2>1, UartLineAssumption DEF ResyncInv
  <2>4. aligned
    BY <1>1, <2>3 DEF ResyncInv
  <2>5. QED BY <1>1, <2>2, <2>4, FrameCompletes
<1>2. QED BY <1>1, LineInvariant, ResyncInvariant, PTL DEF LineSpec, ParserResynchronises

\* A parser that follows the frame dispatches nothing before its last byte.
LEMMA NothingBeforeTheEnd ==
    ASSUME ChecksumsAreWords, LineInv, Deliver, aligned, Len(line) # 1
    PROVE  dispatched' = <<>>
<1>1. /\ ParseByte(Head(line)) /\ Arrived \in Nat /\ Len(line) \in Nat
      /\ Len(Encode(frame)) \in Nat /\ Len(Encode(frame)) = Arrived + Len(line)
      /\ line' \in Seq(Byte) /\ Len(line') = Len(line) - 1 /\ 1 <= Len(line)
  BY DeliverStep
<1>2. aligned' = aligned /\ frame' = frame
  BY DEF Deliver
<1>3. line' # <<>> /\ Arrived' >= 1
  <2>1. Arrived' = Len(Encode(frame)) - Len(line')
    BY <1>2 DEF Arrived
  <2>2. Len(line') # 0 /\ Arrived' = Arrived + 1
    BY <1>1, <2>1
  <2>3. Len(<<>>) = 0
    OBVIOUS
  <2>4. QED BY <1>1, <2>2, <2>3
<1>4. state' # "WAIT_SOF1"
  <2>1. FrameFollowed'
    BY FrameIsFollowed
  <2>2. Arrived' = 1 \/ Arrived' >= 2
    <3>1. Arrived' \in Int
      <4>1. Arrived' = Len(Encode(frame)) - Len(line')
        BY <1>2 DEF Arrived
      <4>2. QED BY <1>1, <4>1
    <3>2. QED BY <1>3, <3>1
  <2>3. QED BY <1>2, <1>3, <2>1, <2>2 DEF FrameFollowed, Idle
<1>5. ~ReadCrcHigh(Head(line))
  BY <1>4 DEF ReadCrcHigh, Reset
<1>6. QED
  BY <1>1, <1>5 DEF ParseByte, WaitSof1, WaitSof2, ReadHeader, ReadPayload, ReadCrcLow

\* A parser in step hands over the frames that are sent and nothing else: while
\* a frame comes that met it outside of any other, after the first Resync frames
\* that follow a fault, and from the start until the first fault.
THEOREM InStepNothingElseIsDispatched ==
    ASSUME ChecksumsAreWords
    PROVE  LineSpec =>
             [][faults' = faults /\ (aligned \/ intact > Resync \/ faults = 0)
                  => dispatched' \in {<<>>, dispatched, <<frame>>}]_<<vars, lineVars>>
<1>1. ASSUME LineInv, ResyncInv, CleanLineInv, [LineNext]_<<vars, lineVars>>
      PROVE  [faults' = faults /\ (aligned \/ intact > Resync \/ faults = 0)
                => dispatched' \in {<<>>, dispatched, <<frame>>}]_<<vars, lineVars>>
  <2>1. SUFFICES ASSUME LineNext, faults' = faults,
                        aligned \/ intact > Resync \/ faults = 0,
                        dispatched' # dispatched
                 PROVE  dispatched' \in {<<>>, <<frame>>}
    BY <1>1
  <2>2. ~Fault
    <3>1. faults \in Nat
      BY <1>1 DEF LineInv
    <3>2. faults + 1 # faults
      BY <3>1
    <3>3. QED BY <2>1, <3>2 DEF Fault
  <2>3. Deliver
    BY <2>1, <2>2 DEF LineNext, SendFrame, Lose, Change, Insert, vars
  <2>4. aligned
    <3>1. CASE intact > Resync
      <4>1. intact > 0 /\ ~(intact <= Resync)
        BY <1>1, <3>1, UartLineAssumption DEF ResyncInv
      <4>2. QED BY <1>1, <4>1 DEF ResyncInv
    <3>2. CASE faults = 0
      BY <1>1, <2>3, <3>2 DEF CleanLineInv, Deliver
    <3>3. QED BY <2>1, <3>1, <3>2
  <2>5. CASE Len(line) = 1
    BY <1>1, <2>3, <2>4, <2>5, FrameCompletes
  <2>6. CASE Len(line) # 1
    BY <1>1, <2>3, <2>4, <2>6, NothingBeforeTheEnd
  <2>7. QED BY <2>5, <2>6
<1>2. LineSpec => []CleanLineInv
  <2>1. LineInit => CleanLineInv
    BY DEF LineInit, Init, CleanLineInv, Idle
  <2>2. LineInv /\ CleanLineInv /\ [LineNext]_<<vars, lineVars>> => CleanLineInv'
    BY CleanLineInductive
  <2>3. QED BY <2>1, <2>2, LineInvariant, PTL DEF LineSpec
<1>3. QED BY <1>1, <1>2, LineInvariant, ResyncInvariant, PTL DEF LineSpec
=============================================================================
