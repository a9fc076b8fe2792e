-------------------------- MODULE UartProtocolProofs -------------------------
(***************************************************************************)
(* Theorems about UartProtocol for any number of application threads, any  *)
(* ring, read and frame length, and any command tables: its types, the     *)
(* wake-up of its thread, its table, its output, and the order in which it *)
(* takes frames, which needs an invariant on every byte on its way.        *)
(***************************************************************************)
EXTENDS UartProtocol, SequenceTheorems, TLAPS

USE DEF lineVars, ringVars, threadVars, tableVars, txVars

-----------------------------------------------------------------------------
(***************************************************************************)
(* Types.                                                                  *)
(***************************************************************************)
LEMMA NoFrameIsAFrame == NoFrame \in RxFrame
BY UartProtocolAssumption DEF NoFrame, RxFrame

LEMMA NoByteIsAByte == NoByte \in RxByte
BY UartProtocolAssumption, NoFrameIsAFrame DEF NoByte, RxByte

LEMMA IdleParserIsAState == IdleParser \in ParserState
BY UartProtocolAssumption, NoFrameIsAFrame DEF IdleParser, ParserState

\* A step of the thread that only moves it on keeps its type.
LEMMA GotoTypeOK ==
    ASSUME NEW t \in ThreadState,
           NEW l \in {"take", "get", "echo", "parse", "lookup", "handler", "answer"}
    PROVE  [t EXCEPT !.pc = l] \in ThreadState
BY DEF ThreadState

LEMMA InitTypeOK == Init => TypeOK
<1> SUFFICES ASSUME Init PROVE TypeOK
  OBVIOUS
<1>1. thread \in ThreadState
  BY NoFrameIsAFrame, NoByteIsAByte DEF Init, ThreadState
<1>2. parser \in ParserState
  BY IdleParserIsAState DEF Init
<1>3. /\ sent \in 0..MaxSent /\ handled \in 0..MaxSent
      /\ ring \in Seq(RxByte) /\ line \in Seq(RxByte)
      /\ Len(ring) <= RingSize
  BY UartProtocolAssumption DEF Init
<1>4. IdleSender \in SenderState
  BY UartProtocolAssumption DEF IdleSender, SenderState
<1>5. sender \in [Sender -> SenderState]
  BY <1>4 DEF Init
<1>6. IdleWriter \in WriterState
  BY DEF IdleWriter, WriterState
<1>7. writer \in [Caller -> WriterState]
  BY <1>6 DEF Init
<1>8. out \in [from : Sender \cup {"echo"}, pos : 1..FrameLen]
  BY UartProtocolAssumption DEF Init, Sender
<1>9. entries \in Table \cup {<<>>} /\ entry_count \in Nat
      /\ mutex \in Sender \cup {NoOne} /\ tx_mutex \in Sender \cup {NoOne}
  BY DEF Init
<1>10. echo_rx_raw \in BOOLEAN
  BY DEF Init
<1>11. overrun \in BOOLEAN
  BY DEF Init
<1>12. sem \in 0..1
  BY DEF Init
<1> QED
  BY <1>1, <1>2, <1>3, <1>5, <1>7, <1>8, <1>9, <1>10, <1>11, <1>12 DEF TypeOK

\* The bytes of a frame that arrives.
LEMMA ArriveTypeOK ==
    ASSUME TypeOK, NEW c \in Cmd, Arrive(c)
    PROVE  TypeOK'
<1> DEFINE f == [number |-> sent + 1, cmd |-> c]
           bytes == [k \in 1..FrameLen |-> [frame |-> f, pos |-> k]]
<1>1. sent' = sent + 1 /\ sent' \in 0..MaxSent
  BY UartProtocolAssumption DEF TypeOK, Arrive
<1>2. f \in RxFrame
  BY <1>1, UartProtocolAssumption DEF TypeOK, Arrive, RxFrame
<1>3. \A k \in 1..FrameLen : [frame |-> f, pos |-> k] \in RxByte
  BY <1>2 DEF RxByte
<1>4. bytes \in [1..FrameLen -> RxByte]
  BY <1>3
<1>5. bytes \in Seq(RxByte)
  <2> HIDE DEF bytes
  <2>1. FrameLen \in Nat
    BY UartProtocolAssumption
  <2> QED
    BY <1>4, <2>1, IsASeq
<1>6. line' = line \o bytes
  BY DEF Arrive
<1>7. line' \in Seq(RxByte)
  <2> HIDE DEF bytes
  <2> QED
    BY <1>5, <1>6, ConcatProperties DEF TypeOK
<1> QED
  BY <1>1, <1>7 DEF TypeOK, Arrive

\* What the interrupt stores fits into the ring.
LEMMA IrqCallbackTypeOK ==
    ASSUME TypeOK, NEW n \in 1..IrqReadSize, IrqCallback(n)
    PROVE  TypeOK'
<1> DEFINE room == RingSize - Len(ring)
           put == IF n <= room THEN n ELSE room
           stored == SubSeq(line, 1, put)
<1>1. /\ RingSize \in Nat /\ Len(ring) \in Nat /\ Len(line) \in Nat /\ n \in Nat
      /\ n <= Len(line)
  BY UartProtocolAssumption, LenProperties DEF TypeOK, IrqCallback
<1>2. put \in 0..Len(line) /\ put <= room
  BY <1>1 DEF TypeOK
<1>3. stored \in Seq(RxByte) /\ Len(stored) = put
  <2> HIDE DEF put
  <2>1. \A i \in 1..put : i \in 1..Len(line)
    BY <1>1, <1>2
  <2>2. \A i \in 1..put : line[i] \in RxByte
    BY <2>1, ElementOfSeq DEF TypeOK
  <2> QED
    BY <1>1, <1>2, <2>1, <2>2, SubSeqProperties DEF TypeOK
<1>4. ring' = ring \o stored
  BY DEF IrqCallback
<1>5. ring' \in Seq(RxByte) /\ Len(ring') = Len(ring) + put
  <2> HIDE DEF stored, put
  <2> QED
    BY <1>3, <1>4, ConcatProperties DEF TypeOK
<1>6. Len(ring') <= RingSize
  <2> HIDE DEF put
  <2> QED
    BY <1>1, <1>2, <1>5
<1>7. line' \in Seq(RxByte)
  <2>1. n + 1 \in Nat /\ n + 1 \in 1..(Len(line) + 1)
    BY <1>1
  <2>2. line' = SubSeq(line, n + 1, Len(line))
    BY DEF IrqCallback
  <2> QED
    BY <1>1, <2>1, <2>2, SubSeqProperties DEF TypeOK
<1>8. sem' = 1 /\ overrun' \in BOOLEAN
  BY DEF TypeOK, IrqCallback
<1> QED
  BY <1>5, <1>6, <1>7, <1>8 DEF TypeOK, IrqCallback

\* An answer puts the thread among the senders.
LEMMA AnswerTypeOK ==
    ASSUME TypeOK, Answer
    PROVE  thread' \in ThreadState /\ sender' \in [Sender -> SenderState]
<1>1. thread' \in ThreadState
  BY GotoTypeOK DEF TypeOK, Answer, ThreadGoto
<1>2. [pc |-> "lock", pos |-> 1] \in SenderState
  BY UartProtocolAssumption DEF SenderState
<1> QED
  BY <1>1, <1>2 DEF TypeOK, Answer

LEMMA ThreadTypeOK ==
    ASSUME TypeOK, ThreadStep \/ LookupFound \/ LookupMissing
    PROVE  TypeOK'
<1> USE DEF BackToRing, ThreadGoto
<1>1. CASE TakeSem
  <2>1. thread' \in ThreadState
    BY <1>1, GotoTypeOK DEF TypeOK, TakeSem
  <2> QED
    BY <1>1, <2>1 DEF TypeOK, TakeSem
<1>2. CASE RingGet
  <2>1. Head(ring) \in RxByte /\ Tail(ring) \in Seq(RxByte) /\ Len(Tail(ring)) = Len(ring) - 1
    BY <1>2, HeadTailProperties DEF TypeOK, RingGet
  <2>2. thread' \in ThreadState
    BY <1>2, <2>1 DEF TypeOK, RingGet, ThreadState
  <2>3. Len(Tail(ring)) <= RingSize
    BY <2>1, UartProtocolAssumption, LenProperties DEF TypeOK
  <2> QED
    BY <1>2, <2>1, <2>2, <2>3 DEF TypeOK, RingGet
<1>3. CASE RingEmpty
  <2>1. thread' \in ThreadState
    BY <1>3, GotoTypeOK DEF TypeOK, RingEmpty
  <2> QED
    BY <1>3, <2>1 DEF TypeOK, RingEmpty
<1>4. CASE Echo
  <2>1. thread' \in ThreadState
    BY <1>4, GotoTypeOK DEF TypeOK, Echo
  <2>2. out' \in [from : Sender \cup {"echo"}, pos : 1..FrameLen]
    BY <1>4, UartProtocolAssumption DEF Echo
  <2> QED
    BY <1>4, <2>1, <2>2 DEF TypeOK, Echo
<1>5. CASE ParseInside
  <2>1. thread' \in ThreadState
    BY <1>5, GotoTypeOK DEF TypeOK, ParseInside
  <2>2. thread.byte.frame \in RxFrame /\ thread.byte.pos \in 1..FrameLen
    BY DEF TypeOK, ThreadState, RxByte
  <2>3. thread.byte.pos \in 0..FrameLen
    BY <2>2, UartProtocolAssumption
  <2>4. parser' \in ParserState
    BY <1>5, <2>2, <2>3 DEF ParseInside, ParserState
  <2> QED
    BY <1>5, <2>1, <2>4 DEF TypeOK, ParseInside
<1>6. CASE ParseLast
  <2>1. thread.byte.frame \in RxFrame
    BY DEF TypeOK, ThreadState, RxByte
  <2>2. thread' \in ThreadState
    BY <1>6, <2>1 DEF TypeOK, ParseLast, ThreadState
  <2> QED
    BY <1>6, <2>2, IdleParserIsAState DEF TypeOK, ParseLast
<1>7. ASSUME NEW s \in {"idle", "lost"}, ParseDamaged(s) PROVE TypeOK'
  <2>1. thread' \in ThreadState
    BY <1>7, GotoTypeOK DEF TypeOK, ParseDamaged
  <2>2. parser' \in ParserState
    BY <1>7, IdleParserIsAState DEF ParseDamaged, ParserState
  <2> QED
    BY <1>7, <2>1, <2>2 DEF TypeOK, ParseDamaged
<1>8. CASE LookupFound
  <2>1. thread' \in ThreadState
    BY <1>8, GotoTypeOK DEF TypeOK, LookupFound
  <2>2. thread.frame.number \in 0..MaxSent
    BY UartProtocolAssumption DEF TypeOK, ThreadState, RxFrame
  <2> QED
    BY <1>8, <2>1, <2>2 DEF TypeOK, LookupFound
<1>9. CASE LookupMissing
  <2>1. thread.frame.number \in 0..MaxSent
    BY UartProtocolAssumption DEF TypeOK, ThreadState, RxFrame
  <2>2. Answer
    BY <1>9 DEF LookupMissing
  <2> QED
    BY <1>9, <2>1, <2>2, AnswerTypeOK DEF TypeOK, LookupMissing, Answer
<1>10. CASE HandlerAnswers
  <2>1. Answer
    BY <1>10 DEF HandlerAnswers
  <2> QED
    BY <1>10, <2>1, AnswerTypeOK DEF TypeOK, HandlerAnswers, Answer
<1>11. CASE HandlerReturns
  <2>1. thread' \in ThreadState
    BY <1>11, GotoTypeOK DEF TypeOK, HandlerReturns
  <2> QED
    BY <1>11, <2>1 DEF TypeOK, HandlerReturns
<1>12. CASE Answered
  <2>1. thread' \in ThreadState
    BY <1>12, GotoTypeOK DEF TypeOK, Answered
  <2> QED
    BY <1>12, <2>1 DEF TypeOK, Answered
<1> QED
  BY <1>1, <1>2, <1>3, <1>4, <1>5, <1>6, <1>7, <1>8, <1>9, <1>10, <1>11, <1>12
     DEF ThreadStep

LEMMA SendTypeOK ==
    ASSUME TypeOK, NEW c \in Caller, Send(c)
    PROVE  TypeOK'
<1>1. [pc |-> "lock", pos |-> 1] \in SenderState
  BY UartProtocolAssumption DEF SenderState
<1>2. sender' \in [Sender -> SenderState]
  BY <1>1 DEF TypeOK, Send
<1> QED
  BY <1>2 DEF TypeOK, Send

LEMMA TxStepTypeOK ==
    ASSUME TypeOK, NEW p \in Sender, TxStep(p)
    PROVE  TypeOK'
<1>1. /\ sender[p] \in SenderState
      /\ sender[p].pos \in 1..FrameLen
  BY DEF TypeOK, SenderState
<1>2. CASE LockTx(p)
  <2>1. [sender[p] EXCEPT !.pc = "put"] \in SenderState
    BY <1>1 DEF SenderState
  <2>2. sender' = [sender EXCEPT ![p] = [sender[p] EXCEPT !.pc = "put"]]
    BY <1>2 DEF LockTx
  <2>3. sender' \in [Sender -> SenderState]
    BY <2>1, <2>2 DEF TypeOK
  <2> QED
    BY <1>2, <2>3 DEF TypeOK, LockTx
<1>3. CASE PollOut(p)
  <2>1. ASSUME sender[p].pos # FrameLen PROVE sender[p].pos + 1 \in 1..FrameLen
    BY <1>1, <2>1, UartProtocolAssumption
  <2>2. FrameLen \in 1..FrameLen
    BY UartProtocolAssumption
  <2>3. AfterPollOut(sender[p]) \in SenderState
    BY <2>1, <2>2 DEF AfterPollOut, SenderState
  <2>4. sender' \in [Sender -> SenderState]
    BY <1>3, <2>3 DEF TypeOK, PollOut
  <2>5. out' \in [from : Sender \cup {"echo"}, pos : 1..FrameLen]
    BY <1>1, <1>3 DEF PollOut
  <2> QED
    BY <1>3, <2>4, <2>5 DEF TypeOK, PollOut
<1>4. CASE UnlockTx(p)
  <2>1. IdleSender \in SenderState
    BY UartProtocolAssumption DEF IdleSender, SenderState
  <2>2. sender' \in [Sender -> SenderState]
    BY <1>4, <2>1 DEF TypeOK, UnlockTx
  <2> QED
    BY <1>4, <2>2 DEF TypeOK, UnlockTx
<1> QED
  BY <1>2, <1>3, <1>4 DEF TxStep

LEMMA StoreTypeOK ==
    ASSUME TypeOK, NEW c \in Caller,
           \/ \E t \in Table \cup {<<>>} : StoreEntries(c, t)
           \/ StoreCount(c)
    PROVE  TypeOK'
<1>1. ASSUME NEW t \in Table \cup {<<>>}, StoreEntries(c, t) PROVE TypeOK'
  <2>1. [busy |-> TRUE, table |-> t] \in WriterState
    BY DEF WriterState
  <2>2. writer' \in [Caller -> WriterState]
    BY <1>1, <2>1 DEF TypeOK, StoreEntries
  <2> QED
    BY <1>1, <2>2 DEF TypeOK, StoreEntries, Sender
<1>2. CASE StoreCount(c)
  <2>1. IdleWriter \in WriterState
    BY DEF IdleWriter, WriterState
  <2>2. writer' \in [Caller -> WriterState]
    BY <1>2, <2>1 DEF TypeOK, StoreCount
  <2>3. writer[c].table \in Seq(Cmd)
    <3>1. writer[c].table \in Table \cup {<<>>}
      BY DEF TypeOK, WriterState
    <3>2. <<>> \in Seq(Cmd)
      OBVIOUS
    <3> QED
      BY <3>1, <3>2, UartProtocolAssumption
  <2>4. entry_count' \in Nat
    BY <1>2, <2>3, LenProperties DEF StoreCount
  <2>5. mutex' \in Sender \cup {NoOne}
    BY <1>2 DEF StoreCount
  <2> QED
    BY <1>2, <2>2, <2>4, <2>5 DEF TypeOK, StoreCount
<1> QED
  BY <1>1, <1>2

LEMMA NextTypeOK == TypeOK /\ [Next]_vars => TypeOK'
<1> SUFFICES ASSUME TypeOK, [Next]_vars PROVE TypeOK'
  OBVIOUS
<1>1. CASE UNCHANGED vars
  BY <1>1 DEF TypeOK, vars
<1>2. CASE Next
  BY <1>2, ArriveTypeOK, IrqCallbackTypeOK, ThreadTypeOK, SendTypeOK, TxStepTypeOK,
     StoreTypeOK DEF Next
<1> QED
  BY <1>1, <1>2

\* Every variable keeps its type; in particular the ring never holds more
\* bytes than its buffer, however many the interrupt reads at a time.
THEOREM DeviceTypeCorrect == Spec => []TypeOK
BY InitTypeOK, NextTypeOK, PTL DEF Spec

-----------------------------------------------------------------------------
(***************************************************************************)
(* The binary semaphore.                                                   *)
(***************************************************************************)
LEMMA WakeUpStep == TypeOK /\ NoLostWakeUp /\ [Next]_vars => NoLostWakeUp'
<1> SUFFICES ASSUME TypeOK, NoLostWakeUp, [Next]_vars,
                    thread'.pc = "take", ring' # <<>>
             PROVE  sem' = 1
  BY DEF NoLostWakeUp
<1> USE DEF BackToRing, ThreadGoto, Answer, NoLostWakeUp
<1>1. ASSUME NEW c \in Cmd, Arrive(c) PROVE sem' = 1
  BY <1>1 DEF Arrive
<1>2. ASSUME NEW n \in 1..IrqReadSize, IrqCallback(n) PROVE sem' = 1
  BY <1>2 DEF IrqCallback
\* The thread waits only after it has found the ring empty.
<1>3. ASSUME RingEmpty PROVE FALSE
  BY <1>3 DEF RingEmpty
\* Every other step of the thread leads elsewhere.
<1>4. ASSUME \/ TakeSem \/ RingGet \/ Echo \/ ParseInside \/ ParseLast
             \/ LookupFound \/ LookupMissing
             \/ HandlerAnswers \/ HandlerReturns \/ Answered
      PROVE  FALSE
  <2>1. ASSUME TakeSem PROVE FALSE
    BY <2>1 DEF TakeSem, TypeOK, ThreadState
  <2>2. ASSUME RingGet PROVE FALSE
    BY <2>2 DEF RingGet, TypeOK, ThreadState
  <2>3. ASSUME Echo PROVE FALSE
    BY <2>3 DEF Echo, TypeOK, ThreadState
  <2>4. ASSUME ParseInside PROVE FALSE
    BY <2>4 DEF ParseInside, TypeOK, ThreadState
  <2>5. ASSUME ParseLast PROVE FALSE
    BY <2>5 DEF ParseLast, TypeOK, ThreadState
  <2>6. ASSUME LookupFound PROVE FALSE
    BY <2>6 DEF LookupFound, TypeOK, ThreadState
  <2>7. ASSUME LookupMissing PROVE FALSE
    BY <2>7 DEF LookupMissing, TypeOK, ThreadState
  <2>8. ASSUME HandlerAnswers PROVE FALSE
    BY <2>8 DEF HandlerAnswers, TypeOK, ThreadState
  <2>9. ASSUME HandlerReturns PROVE FALSE
    BY <2>9 DEF HandlerReturns, TypeOK, ThreadState
  <2>10. ASSUME Answered PROVE FALSE
    BY <2>10 DEF Answered, TypeOK, ThreadState
  <2> QED
    BY <1>4, <2>1, <2>2, <2>3, <2>4, <2>5, <2>6, <2>7, <2>8, <2>9, <2>10
<1>5. ASSUME NEW s \in {"idle", "lost"}, ParseDamaged(s) PROVE FALSE
  BY <1>5 DEF ParseDamaged, TypeOK, ThreadState
<1>6. ASSUME NEW c \in Caller, Send(c) PROVE sem' = 1
  BY <1>6 DEF Send
<1>7. ASSUME NEW p \in Sender, TxStep(p) PROVE sem' = 1
  BY <1>7 DEF TxStep, LockTx, PollOut, UnlockTx
<1>8. ASSUME NEW c \in Caller, NEW t \in Table \cup {<<>>}, StoreEntries(c, t)
      PROVE  sem' = 1
  BY <1>8 DEF StoreEntries
<1>9. ASSUME NEW c \in Caller, StoreCount(c) PROVE sem' = 1
  BY <1>9 DEF StoreCount
<1>10. CASE UNCHANGED vars
  BY <1>10 DEF vars
<1> QED
  BY <1>1, <1>2, <1>3, <1>4, <1>5, <1>6, <1>7, <1>8, <1>9, <1>10 DEF Next, ThreadStep

\* A waiting thread with bytes in the ring has the semaphore given, whenever
\* and in whatever portions the interrupt brings the bytes.
THEOREM NoByteIsSleptOver == Spec => []NoLostWakeUp
<1>1. Init => NoLostWakeUp
  BY DEF Init, NoLostWakeUp
<1> QED
  BY <1>1, InitTypeOK, NextTypeOK, WakeUpStep, PTL DEF Spec

-----------------------------------------------------------------------------
(***************************************************************************)
(* The command table: the fields differ only while a thread that holds the *)
(* mutex is between its two stores.                                        *)
(***************************************************************************)
WritersHoldTheMutex ==
    /\ mutex \in Caller \cup {NoOne}
    /\ \A c \in Caller : writer[c].busy <=> mutex = c
EntriesAreTheWriters == \A c \in Caller : writer[c].busy => entries = writer[c].table
TableIsWhole == mutex = NoOne => entry_count = Len(entries)

TableInv == WritersHoldTheMutex /\ EntriesAreTheWriters /\ TableIsWhole

LEMMA InitTableInv == Init => TableInv
<1> SUFFICES ASSUME Init PROVE TableInv
  OBVIOUS
<1>1. \A c \in Caller : writer[c].busy = FALSE /\ mutex # c
  BY UartProtocolAssumption DEF Init, IdleWriter
<1>2. mutex = NoOne /\ entry_count = Len(entries)
  BY DEF Init
<1> QED
  BY <1>1, <1>2 DEF TableInv, WritersHoldTheMutex, EntriesAreTheWriters, TableIsWhole

LEMMA StoreKeepsTable ==
    ASSUME TypeOK, TableInv, NEW c \in Caller, NEW t \in Table \cup {<<>>},
           StoreEntries(c, t)
    PROVE  TableInv'
<1> USE DEF TableInv, WritersHoldTheMutex, EntriesAreTheWriters, TableIsWhole
<1>1. c # NoOne
  BY UartProtocolAssumption
<1>2. writer' = [writer EXCEPT ![c] = [busy |-> TRUE, table |-> t]]
  BY DEF StoreEntries
<1>3. writer'[c].busy /\ writer'[c].table = t
  BY <1>2 DEF TypeOK
<1>4. \A d \in Caller \ {c} : writer'[d] = writer[d] /\ ~writer[d].busy
  BY <1>1, <1>2, UartProtocolAssumption DEF StoreEntries, TypeOK
<1>5. mutex' = c /\ entries' = t
  BY DEF StoreEntries
<1> QED
  BY <1>1, <1>3, <1>4, <1>5

LEMMA CountMakesTableWhole ==
    ASSUME TypeOK, TableInv, NEW c \in Caller, StoreCount(c)
    PROVE  TableInv'
<1> USE DEF TableInv, WritersHoldTheMutex, EntriesAreTheWriters, TableIsWhole
<1>1. writer' = [writer EXCEPT ![c] = IdleWriter]
  BY DEF StoreCount
<1>2. writer'[c].busy = FALSE
  BY <1>1 DEF TypeOK, IdleWriter
<1>3. \A d \in Caller \ {c} : writer'[d] = writer[d] /\ ~writer[d].busy
  BY <1>1 DEF StoreCount, TypeOK
<1>4. mutex' = NoOne /\ \A d \in Caller : mutex' # d
  BY UartProtocolAssumption DEF StoreCount
<1>5. entry_count' = Len(entries')
  BY DEF StoreCount
<1>6. \A d \in Caller : ~writer'[d].busy
  BY <1>2, <1>3
<1> QED
  BY <1>4, <1>5, <1>6

LEMMA TableStep == TypeOK /\ TableInv /\ [Next]_vars => TableInv'
<1> SUFFICES ASSUME TypeOK, TableInv, [Next]_vars PROVE TableInv'
  OBVIOUS
<1>1. ASSUME UNCHANGED tableVars PROVE TableInv'
  BY <1>1 DEF TableInv, WritersHoldTheMutex, EntriesAreTheWriters, TableIsWhole
<1>2. ASSUME NEW c \in Cmd, Arrive(c) PROVE UNCHANGED tableVars
  BY <1>2 DEF Arrive
<1>3. ASSUME NEW n \in 1..IrqReadSize, IrqCallback(n) PROVE UNCHANGED tableVars
  BY <1>3 DEF IrqCallback
<1>4. ASSUME ThreadStep \/ LookupFound \/ LookupMissing PROVE UNCHANGED tableVars
  BY <1>4 DEF ThreadStep, TakeSem, RingGet, RingEmpty, Echo, ParseInside, ParseLast,
     ParseDamaged, LookupFound, LookupMissing, HandlerAnswers, HandlerReturns, Answered
<1>5. ASSUME NEW c \in Caller, Send(c) PROVE UNCHANGED tableVars
  BY <1>5 DEF Send
<1>6. ASSUME NEW p \in Sender, TxStep(p) PROVE UNCHANGED tableVars
  BY <1>6 DEF TxStep, LockTx, PollOut, UnlockTx
<1>7. CASE UNCHANGED vars
  BY <1>1, <1>7 DEF vars
<1>8. CASE Next
  BY <1>1, <1>2, <1>3, <1>4, <1>5, <1>6, <1>8, StoreKeepsTable, CountMakesTableWhole
     DEF Next
<1> QED
  BY <1>7, <1>8

\* The protocol thread never searches a table of which another thread has
\* replaced one field only.
THEOREM TablesAreReadWhole == Spec => []LookupsSeeAWholeTable
<1>1. TableInv => LookupsSeeAWholeTable
  BY DEF TableInv, TableIsWhole, LookupsSeeAWholeTable
<1> QED
  BY <1>1, InitTypeOK, NextTypeOK, InitTableInv, TableStep, PTL DEF Spec

-----------------------------------------------------------------------------
(***************************************************************************)
(* The transmitter.  Between messages the last byte sent is the last one   *)
(* of its message; the thread that holds tx_mutex has sent all the bytes   *)
(* before the one it stands at.                                            *)
(***************************************************************************)
OnlyHolderSends ==
    \A p \in Sender : sender[p].pc \in {"put", "unlock"} <=> tx_mutex = p
WaitersStartAtTheBeginning ==
    \A p \in Sender : sender[p].pc = "lock" => sender[p].pos = 1
Between == out.pos = FrameLen
Inside(p) == out.from = p /\ sender[p].pos = out.pos + 1
LastByteFits ==
    /\ tx_mutex = NoOne => Between
    /\ \A p \in Sender :
         /\ sender[p].pc = "put" => (sender[p].pos = 1 /\ Between) \/ Inside(p)
         /\ sender[p].pc = "unlock" => Between
EchoOnRequest == thread.pc = "echo" => echo_rx_raw
ThreadSendsAnAnswer == sender[Thread].pc # "idle" => thread.pc = "answer"

TxInv ==
    /\ OnlyHolderSends
    /\ WaitersStartAtTheBeginning
    /\ ~echo_rx_raw => LastByteFits
    /\ EchoOnRequest
    /\ ThreadSendsAnAnswer

LEMMA InitTxInv == Init => TxInv
<1> SUFFICES ASSUME Init PROVE TxInv
  OBVIOUS
<1>1. \A p \in Sender : sender[p].pc = "idle" /\ tx_mutex # p
  BY UartProtocolAssumption DEF Init, IdleSender, Sender
<1>2. Between /\ thread.pc = "take" /\ Thread \in Sender
  BY DEF Init, Between, Sender
<1> QED
  BY <1>1, <1>2 DEF TxInv, OnlyHolderSends, WaitersStartAtTheBeginning, LastByteFits,
     EchoOnRequest, ThreadSendsAnAnswer

\* One sender moves; the others stay where they are.
LEMMA OneSenderMoves ==
    ASSUME TypeOK, NEW p \in Sender, NEW s \in SenderState,
           sender' = [sender EXCEPT ![p] = s]
    PROVE  /\ sender'[p] = s
           /\ \A q \in Sender \ {p} : sender'[q] = sender[q]
BY DEF TypeOK

\* A thread that begins to send waits at the beginning of its message.
LEMMA WaitKeepsTx ==
    ASSUME TypeOK, TxInv, NEW p \in Sender, sender[p].pc = "idle",
           sender' = [sender EXCEPT ![p] = [pc |-> "lock", pos |-> 1]],
           UNCHANGED <<tx_mutex, out, echo_rx_raw>>
    PROVE  /\ OnlyHolderSends' /\ WaitersStartAtTheBeginning'
           /\ (~echo_rx_raw => LastByteFits)'
<1>1. [pc |-> "lock", pos |-> 1] \in SenderState
  BY UartProtocolAssumption DEF SenderState
<1>2. sender'[p] = [pc |-> "lock", pos |-> 1]
      /\ \A q \in Sender \ {p} : sender'[q] = sender[q]
  BY <1>1, OneSenderMoves
<1>3. tx_mutex # p
  BY DEF TxInv, OnlyHolderSends
<1>4. OnlyHolderSends'
  BY <1>2, <1>3 DEF TxInv, OnlyHolderSends
<1>5. WaitersStartAtTheBeginning'
  BY <1>2 DEF TxInv, WaitersStartAtTheBeginning
<1>6. (~echo_rx_raw => LastByteFits)'
  BY <1>2 DEF TxInv, LastByteFits, Between, Inside
<1> QED
  BY <1>4, <1>5, <1>6

LEMMA LockKeepsTx ==
    ASSUME TypeOK, TxInv, NEW p \in Sender, LockTx(p)
    PROVE  TxInv'
<1> DEFINE s == [sender[p] EXCEPT !.pc = "put"]
<1>1. sender[p] \in SenderState /\ sender[p].pos = 1
  BY DEF TypeOK, TxInv, WaitersStartAtTheBeginning, LockTx
<1>2. s \in SenderState /\ s.pc = "put" /\ s.pos = 1
  BY <1>1 DEF SenderState
<1>3. sender' = [sender EXCEPT ![p] = s]
  BY DEF LockTx
<1>4. sender'[p] = s /\ \A q \in Sender \ {p} : sender'[q] = sender[q]
  <2> HIDE DEF s
  <2> QED
    BY <1>2, <1>3, OneSenderMoves
<1> HIDE DEF s
<1>5. \A q \in Sender : sender[q].pc \notin {"put", "unlock"}
  BY UartProtocolAssumption DEF TxInv, OnlyHolderSends, LockTx, Sender
<1>6. tx_mutex' = p /\ tx_mutex = NoOne /\ UNCHANGED <<out, thread, echo_rx_raw>>
  BY DEF LockTx
<1>7. OnlyHolderSends'
  BY <1>2, <1>4, <1>5, <1>6 DEF OnlyHolderSends
<1>8. WaitersStartAtTheBeginning'
  BY <1>2, <1>4 DEF TxInv, WaitersStartAtTheBeginning
<1>9. ASSUME ~echo_rx_raw PROVE LastByteFits'
  <2>1. Between /\ Between'
    BY <1>6, <1>9 DEF TxInv, LastByteFits, Between
  <2>2. tx_mutex' # NoOne
    BY <1>6, UartProtocolAssumption DEF Sender
  <2> QED
    BY <1>2, <1>4, <1>5, <2>1, <2>2 DEF LastByteFits
<1>10. EchoOnRequest'
  BY <1>6 DEF TxInv, EchoOnRequest
<1>11. ThreadSendsAnAnswer'
  BY <1>4, <1>6 DEF TxInv, ThreadSendsAnAnswer, LockTx, Sender
<1> QED
  BY <1>6, <1>7, <1>8, <1>9, <1>10, <1>11 DEF TxInv

\* The byte that is sent, and where it leaves its sender.
LEMMA PollOutKeepsTx ==
    ASSUME TypeOK, TxInv, NEW p \in Sender, PollOut(p)
    PROVE  TxInv' /\ (~echo_rx_raw => Follows(out, out'))
<1> DEFINE s == AfterPollOut(sender[p])
<1>1. sender[p].pos \in 1..FrameLen /\ FrameLen \in Nat /\ FrameLen > 1
  BY UartProtocolAssumption DEF TypeOK, SenderState
<1>2. s \in SenderState /\ s.pc \in {"put", "unlock"}
  <2>1. CASE sender[p].pos = FrameLen
    BY <1>1, <2>1 DEF AfterPollOut, SenderState
  <2>2. CASE sender[p].pos # FrameLen
    <3>1. sender[p].pos + 1 \in 1..FrameLen
      BY <1>1, <2>2
    <3> QED
      BY <2>2, <3>1 DEF AfterPollOut, SenderState
  <2> QED
    BY <2>1, <2>2
<1>3. out' = [from |-> p, pos |-> sender[p].pos] /\ UNCHANGED <<tx_mutex, thread, echo_rx_raw>>
  BY DEF PollOut
<1>4. sender'[p] = s /\ \A q \in Sender \ {p} : sender'[q] = sender[q]
  <2>1. sender' = [sender EXCEPT ![p] = s]
    BY DEF PollOut
  <2> HIDE DEF s
  <2> QED
    BY <1>2, <2>1, OneSenderMoves
<1>5. tx_mutex = p /\ p # NoOne /\ \A q \in Sender \ {p} : sender[q].pc \notin {"put", "unlock"}
  BY UartProtocolAssumption DEF TxInv, OnlyHolderSends, PollOut, Sender
<1>6. \/ s.pc = "unlock" /\ out'.pos = FrameLen
      \/ s.pc = "put" /\ s.pos = out'.pos + 1
  <2>1. CASE sender[p].pos = FrameLen
    BY <1>3, <2>1 DEF AfterPollOut
  <2>2. CASE sender[p].pos # FrameLen
    BY <1>3, <2>2 DEF AfterPollOut
  <2> QED
    BY <2>1, <2>2
<1> HIDE DEF s
<1>7. OnlyHolderSends'
  BY <1>2, <1>3, <1>4, <1>5 DEF OnlyHolderSends
<1>8. WaitersStartAtTheBeginning'
  BY <1>2, <1>4 DEF TxInv, WaitersStartAtTheBeginning
<1>9. LastByteFits'
  <2>1. out'.from = p
    BY <1>3
  <2>2. sender'[p].pc = "put" => Inside(p)'
    BY <1>4, <1>6, <2>1 DEF Inside
  <2>3. sender'[p].pc = "unlock" => Between'
    BY <1>4, <1>6 DEF Between
  <2>4. \A q \in Sender \ {p} : sender'[q].pc \notin {"put", "unlock"}
    BY <1>4, <1>5
  <2>5. tx_mutex' # NoOne
    BY <1>3, <1>5
  <2> QED
    BY <2>2, <2>3, <2>4, <2>5 DEF LastByteFits
<1>10. EchoOnRequest'
  BY <1>3 DEF TxInv, EchoOnRequest
<1>11. ThreadSendsAnAnswer'
  BY <1>3, <1>4 DEF TxInv, ThreadSendsAnAnswer, PollOut, Sender
<1>12. ASSUME ~echo_rx_raw PROVE Follows(out, out')
  <2>1. (sender[p].pos = 1 /\ Between) \/ Inside(p)
    BY <1>12 DEF TxInv, LastByteFits, PollOut
  <2>2. CASE sender[p].pos = 1 /\ Between
    BY <1>3, <2>2 DEF Follows, Between
  <2>3. CASE Inside(p)
    BY <1>3, <2>3 DEF Follows, Inside
  <2> QED
    BY <2>1, <2>2, <2>3
<1> QED
  BY <1>7, <1>8, <1>9, <1>10, <1>11, <1>12 DEF TxInv

LEMMA UnlockKeepsTx ==
    ASSUME TypeOK, TxInv, NEW p \in Sender, UnlockTx(p)
    PROVE  TxInv'
<1>1. IdleSender \in SenderState /\ IdleSender.pc = "idle"
  BY UartProtocolAssumption DEF IdleSender, SenderState
<1>2. sender'[p] = IdleSender /\ \A q \in Sender \ {p} : sender'[q] = sender[q]
  <2>1. sender' = [sender EXCEPT ![p] = IdleSender]
    BY DEF UnlockTx
  <2> QED
    BY <1>1, <2>1, OneSenderMoves
<1>3. tx_mutex' = NoOne /\ UNCHANGED <<out, thread, echo_rx_raw>>
  BY DEF UnlockTx
<1>4. \A q \in Sender \ {p} : sender[q].pc \notin {"put", "unlock"}
  BY DEF TxInv, OnlyHolderSends, UnlockTx
<1>5. \A q \in Sender : sender'[q].pc \notin {"put", "unlock"}
  BY <1>1, <1>2, <1>4
<1>6. OnlyHolderSends'
  BY <1>3, <1>5, UartProtocolAssumption DEF OnlyHolderSends, Sender
<1>7. WaitersStartAtTheBeginning'
  BY <1>1, <1>2 DEF TxInv, WaitersStartAtTheBeginning
<1>8. ASSUME ~echo_rx_raw PROVE LastByteFits'
  <2>1. Between'
    BY <1>3, <1>8 DEF TxInv, LastByteFits, Between, UnlockTx
  <2> QED
    BY <1>5, <2>1 DEF LastByteFits
<1>9. EchoOnRequest'
  BY <1>3 DEF TxInv, EchoOnRequest
<1>10. ThreadSendsAnAnswer'
  BY <1>1, <1>2, <1>3 DEF TxInv, ThreadSendsAnAnswer, Sender
<1> QED
  BY <1>3, <1>6, <1>7, <1>8, <1>9, <1>10 DEF TxInv

\* A step of the thread that sends nothing: it may echo only if it is told to,
\* and it goes on from its answer only when that has been sent.
LEMMA QuietThreadKeepsTx ==
    ASSUME TypeOK, TxInv, UNCHANGED <<echo_rx_raw, tx_mutex, sender>>,
           out' = out \/ echo_rx_raw,
           thread'.pc = "echo" => echo_rx_raw,
           thread.pc = "answer" => sender[Thread].pc = "idle"
    PROVE  TxInv' /\ (~echo_rx_raw /\ out' # out => Follows(out, out'))
<1>1. OnlyHolderSends' /\ WaitersStartAtTheBeginning'
  BY DEF TxInv, OnlyHolderSends, WaitersStartAtTheBeginning
<1>2. ASSUME ~echo_rx_raw PROVE LastByteFits'
  BY <1>2 DEF TxInv, LastByteFits, Between, Inside
<1>3. EchoOnRequest' /\ ThreadSendsAnAnswer'
  BY DEF TxInv, EchoOnRequest, ThreadSendsAnAnswer
<1> QED
  BY <1>1, <1>2, <1>3 DEF TxInv

LEMMA AnswerKeepsTx ==
    ASSUME TypeOK, TxInv, Answer, thread.pc # "answer", UNCHANGED echo_rx_raw
    PROVE  TxInv' /\ out' = out
<1>1. Thread \in Sender /\ sender[Thread].pc = "idle"
  BY DEF TxInv, ThreadSendsAnAnswer, Sender
<1>2. thread'.pc = "answer"
  BY DEF Answer, ThreadGoto, TypeOK, ThreadState
<1>3. /\ sender' = [sender EXCEPT ![Thread] = [pc |-> "lock", pos |-> 1]]
      /\ UNCHANGED <<tx_mutex, out>>
  BY DEF Answer
<1>4. OnlyHolderSends' /\ WaitersStartAtTheBeginning' /\ (~echo_rx_raw => LastByteFits)'
  BY <1>1, <1>3, WaitKeepsTx
<1>5. EchoOnRequest' /\ ThreadSendsAnAnswer'
  BY <1>2 DEF EchoOnRequest, ThreadSendsAnAnswer
<1> QED
  BY <1>3, <1>4, <1>5 DEF TxInv

LEMMA ThreadKeepsTx ==
    ASSUME TypeOK, TxInv, ThreadStep \/ LookupFound \/ LookupMissing
    PROVE  TxInv' /\ (~echo_rx_raw /\ out' # out => Follows(out, out'))
<1> DEFINE Goal == TxInv' /\ (~echo_rx_raw /\ out' # out => Follows(out, out'))
<1> USE DEF BackToRing, ThreadGoto
<1>1. CASE TakeSem
  <2>1. thread'.pc = "get" /\ thread.pc = "take"
    BY <1>1 DEF TakeSem, TypeOK, ThreadState
  <2> QED
    BY <1>1, <2>1, QuietThreadKeepsTx DEF TakeSem
<1>2. CASE RingGet
  <2>1. thread'.pc = (IF echo_rx_raw THEN "echo" ELSE "parse") /\ thread.pc = "get"
    BY <1>2 DEF RingGet, TypeOK, ThreadState
  <2> QED
    BY <1>2, <2>1, QuietThreadKeepsTx DEF RingGet
<1>3. CASE RingEmpty
  <2>1. thread'.pc = "take" /\ thread.pc = "get"
    BY <1>3 DEF RingEmpty, TypeOK, ThreadState
  <2> QED
    BY <1>3, <2>1, QuietThreadKeepsTx DEF RingEmpty
<1>4. CASE Echo
  <2>1. thread'.pc = "parse" /\ thread.pc = "echo" /\ echo_rx_raw
    BY <1>4 DEF Echo, TypeOK, ThreadState, TxInv, EchoOnRequest
  <2> QED
    BY <1>4, <2>1, QuietThreadKeepsTx DEF Echo
<1>5. CASE ParseInside
  <2>1. thread'.pc = "get" /\ thread.pc = "parse"
    BY <1>5 DEF ParseInside, TypeOK, ThreadState
  <2> QED
    BY <1>5, <2>1, QuietThreadKeepsTx DEF ParseInside
<1>6. CASE ParseLast
  <2>1. thread'.pc = "lookup" /\ thread.pc = "parse"
    BY <1>6 DEF ParseLast, TypeOK, ThreadState
  <2> QED
    BY <1>6, <2>1, QuietThreadKeepsTx DEF ParseLast
<1>7. ASSUME NEW s \in {"idle", "lost"}, ParseDamaged(s) PROVE Goal
  <2>1. thread'.pc = "get" /\ thread.pc = "parse"
    BY <1>7 DEF ParseDamaged, TypeOK, ThreadState
  <2> QED
    BY <1>7, <2>1, QuietThreadKeepsTx DEF ParseDamaged
<1>8. CASE LookupFound
  <2>1. thread'.pc = "handler" /\ thread.pc = "lookup"
    BY <1>8 DEF LookupFound, TypeOK, ThreadState
  <2> QED
    BY <1>8, <2>1, QuietThreadKeepsTx DEF LookupFound
<1>9. CASE LookupMissing
  BY <1>9, AnswerKeepsTx DEF LookupMissing
<1>10. CASE HandlerAnswers
  BY <1>10, AnswerKeepsTx DEF HandlerAnswers
<1>11. CASE HandlerReturns
  <2>1. thread'.pc = "get" /\ thread.pc = "handler"
    BY <1>11 DEF HandlerReturns, TypeOK, ThreadState
  <2> QED
    BY <1>11, <2>1, QuietThreadKeepsTx DEF HandlerReturns
<1>12. CASE Answered
  <2>1. thread'.pc = "get" /\ sender[Thread].pc = "idle"
    BY <1>12 DEF Answered, TypeOK, ThreadState
  <2> QED
    BY <1>12, <2>1, QuietThreadKeepsTx DEF Answered
<1> QED
  BY <1>1, <1>2, <1>3, <1>4, <1>5, <1>6, <1>7, <1>8, <1>9, <1>10, <1>11, <1>12
     DEF ThreadStep

LEMMA TxInvStep ==
    TypeOK /\ TxInv /\ [Next]_vars
      => TxInv' /\ (~echo_rx_raw /\ out' # out => Follows(out, out'))
<1> DEFINE Goal == TxInv' /\ (~echo_rx_raw /\ out' # out => Follows(out, out'))
<1> SUFFICES ASSUME TypeOK, TxInv, [Next]_vars PROVE Goal
  OBVIOUS
<1>1. ASSUME UNCHANGED <<echo_rx_raw, thread, txVars>> PROVE Goal
  BY <1>1 DEF TxInv, OnlyHolderSends, WaitersStartAtTheBeginning, LastByteFits,
     Between, Inside, EchoOnRequest, ThreadSendsAnAnswer
<1>2. ASSUME NEW c \in Cmd, Arrive(c) PROVE Goal
  BY <1>1, <1>2 DEF Arrive
<1>3. ASSUME NEW n \in 1..IrqReadSize, IrqCallback(n) PROVE Goal
  BY <1>1, <1>3 DEF IrqCallback
<1>4. ASSUME NEW c \in Caller, Send(c) PROVE Goal
  <2>1. OnlyHolderSends' /\ WaitersStartAtTheBeginning' /\ (~echo_rx_raw => LastByteFits)'
    BY <1>4, WaitKeepsTx DEF Send, Sender
  <2>2. sender'[Thread] = sender[Thread]
    BY <1>4, UartProtocolAssumption DEF Send, TypeOK, Sender
  <2>3. EchoOnRequest' /\ ThreadSendsAnAnswer'
    BY <1>4, <2>2 DEF Send, TxInv, EchoOnRequest, ThreadSendsAnAnswer
  <2> QED
    BY <1>4, <2>1, <2>3 DEF TxInv, Send
<1>5. ASSUME NEW p \in Sender, TxStep(p) PROVE Goal
  <2>1. CASE LockTx(p)
    BY <2>1, LockKeepsTx DEF LockTx
  <2>2. CASE PollOut(p)
    BY <2>2, PollOutKeepsTx
  <2>3. CASE UnlockTx(p)
    BY <2>3, UnlockKeepsTx DEF UnlockTx
  <2> QED
    BY <1>5, <2>1, <2>2, <2>3 DEF TxStep
<1>6. ASSUME NEW c \in Caller,
             \/ \E t \in Table \cup {<<>>} : StoreEntries(c, t)
             \/ StoreCount(c)
      PROVE  Goal
  BY <1>1, <1>6 DEF StoreEntries, StoreCount
<1>7. CASE UNCHANGED vars
  BY <1>1, <1>7 DEF vars
<1>8. CASE Next
  BY <1>2, <1>3, <1>4, <1>5, <1>6, <1>8, ThreadKeepsTx DEF Next
<1> QED
  BY <1>7, <1>8

\* Without echo, no byte of another thread ever gets into a message, however
\* many threads send beside the protocol thread.
THEOREM OutputIsNotTorn == Spec => MessagesAreContiguous
<1>1. TypeOK /\ TxInv /\ [Next]_vars
        => [~echo_rx_raw /\ out' # out => Follows(out, out')]_vars
  BY TxInvStep
<1> QED
  BY <1>1, InitTypeOK, NextTypeOK, InitTxInv, TxInvStep, PTL
     DEF Spec, MessagesAreContiguous

-----------------------------------------------------------------------------
(***************************************************************************)
(* The way of a byte: the line, the ring, the thread.  What is on it is in *)
(* the order it was sent in; without an overflow nothing is missing, the   *)
(* parser knows the byte it stands at, and the frame it gives away is the  *)
(* one after the last that was handled.                                    *)
(***************************************************************************)
Current == IF thread.pc \in {"echo", "parse"} THEN <<thread.byte>> ELSE <<>>

\* The bytes that the parser has not seen, the next one first.
Stream == (Current \o ring) \o line

\* The last frame that the parser has given away.
Done == IF thread.pc = "lookup" THEN thread.frame.number ELSE handled

\* a was sent before b; nothing was sent between them.
SentBefore(a, b) ==
    \/ a.frame.number < b.frame.number
    \/ a.frame.number = b.frame.number /\ a.pos < b.pos
Adjacent(a, b) ==
    IF a.pos = FrameLen THEN b.frame.number = a.frame.number + 1 /\ b.pos = 1
                        ELSE b.frame = a.frame /\ b.pos = a.pos + 1
LastSent(b) == b.frame.number = sent /\ b.pos = FrameLen

\* The last byte that the parser has seen, if none is missing.
Cursor ==
    IF parser.state = "inside"
    THEN [frame |-> parser.frame, pos |-> parser.pos]
    ELSE [frame |-> [number |-> Done], pos |-> FrameLen]

StreamIsAhead ==
    \A i \in 1..Len(Stream) :
        Done < Stream[i].frame.number /\ Stream[i].frame.number <= sent
StreamIsOrdered ==
    \A i, j \in 1..Len(Stream) : i < j => SentBefore(Stream[i], Stream[j])
ParserIsInStep ==
    /\ parser.state # "lost"
    /\ parser.state = "inside" =>
         parser.frame.number = handled + 1 /\ parser.pos < FrameLen /\ thread.pc # "lookup"
    /\ thread.pc = "lookup" => thread.frame.number = handled + 1
StreamIsWhole ==
    IF Stream = <<>>
    THEN LastSent(Cursor)
    ELSE /\ Adjacent(Cursor, Stream[1])
         /\ LastSent(Stream[Len(Stream)])
         /\ \A i \in 1..(Len(Stream) - 1) : Adjacent(Stream[i], Stream[i + 1])

OrderInv ==
    /\ Done <= sent
    /\ thread.pc = "lookup" => handled < thread.frame.number
    /\ StreamIsAhead
    /\ StreamIsOrdered
    /\ ~overrun => ParserIsInStep /\ StreamIsWhole

\* The elements of three sequences, one after the other.
LEMMA ThreeParts ==
    ASSUME NEW S, NEW s \in Seq(S), NEW t \in Seq(S), NEW u \in Seq(S)
    PROVE  LET w == (s \o t) \o u IN
           /\ w \in Seq(S) /\ Len(w) = Len(s) + Len(t) + Len(u)
           /\ Len(s) \in Nat /\ Len(t) \in Nat /\ Len(u) \in Nat
           /\ \A i \in 1..Len(s) : w[i] = s[i]
           /\ \A i \in 1..Len(t) : w[Len(s) + i] = t[i]
           /\ \A i \in 1..Len(u) : w[Len(s) + Len(t) + i] = u[i]
<1> DEFINE v == s \o t
<1>1. Len(s) \in Nat /\ Len(t) \in Nat /\ Len(u) \in Nat
  BY LenProperties
<1>2. /\ v \in Seq(S) /\ Len(v) = Len(s) + Len(t)
      /\ \A i \in 1..(Len(s) + Len(t)) : v[i] = IF i <= Len(s) THEN s[i] ELSE t[i - Len(s)]
  BY ConcatProperties
<1> HIDE DEF v
<1> DEFINE w == v \o u
<1>3. /\ w \in Seq(S) /\ Len(w) = Len(v) + Len(u)
      /\ \A i \in 1..(Len(v) + Len(u)) : w[i] = IF i <= Len(v) THEN v[i] ELSE u[i - Len(v)]
  <2>1. v \in Seq(S)
    BY <1>2
  <2>2. QED BY <2>1, ConcatProperties
<1> HIDE DEF w
<1>4. ASSUME NEW i \in 1..Len(s) PROVE w[i] = s[i]
  <2>1. /\ i \in 1..(Len(v) + Len(u)) /\ i <= Len(v)
        /\ i \in 1..(Len(s) + Len(t)) /\ i <= Len(s)
    BY <1>1, <1>2
  <2>2. QED BY <2>1, <1>2, <1>3
<1>5. ASSUME NEW i \in 1..Len(t) PROVE w[Len(s) + i] = t[i]
  <2> DEFINE j == Len(s) + i
  <2>1. /\ j \in 1..(Len(v) + Len(u)) /\ j <= Len(v)
        /\ j \in 1..(Len(s) + Len(t)) /\ ~(j <= Len(s)) /\ j - Len(s) = i
    BY <1>1, <1>2
  <2> HIDE DEF j
  <2>2. w[j] = t[i]
    BY <2>1, <1>2, <1>3
  <2>3. QED BY <2>2 DEF j
<1>6. ASSUME NEW i \in 1..Len(u) PROVE w[Len(s) + Len(t) + i] = u[i]
  <2> DEFINE j == Len(s) + Len(t) + i
  <2>1. j \in 1..(Len(v) + Len(u)) /\ ~(j <= Len(v)) /\ j - Len(v) = i
    BY <1>1, <1>2
  <2> HIDE DEF j
  <2>2. w[j] = u[i]
    BY <2>1, <1>3
  <2>3. QED BY <2>2 DEF j
<1>7. w \in Seq(S) /\ Len(w) = Len(s) + Len(t) + Len(u)
  BY <1>1, <1>2, <1>3
<1>8. QED BY <1>1, <1>4, <1>5, <1>6, <1>7 DEF w, v

LEMMA StreamType ==
    ASSUME TypeOK
    PROVE  /\ Current \in Seq(RxByte) /\ ring \in Seq(RxByte) /\ line \in Seq(RxByte)
           /\ Stream \in Seq(RxByte) /\ Len(Stream) \in Nat
           /\ \A i \in 1..Len(Stream) :
                /\ Stream[i] \in RxByte /\ Stream[i].frame \in RxFrame
                /\ Stream[i].frame.number \in Nat /\ Stream[i].pos \in 1..FrameLen
           /\ FrameLen \in Nat /\ FrameLen > 1 /\ MaxSent \in Nat
           /\ sent \in Nat /\ handled \in Nat /\ Done \in Nat /\ thread.frame.number \in Nat
<1>1. FrameLen \in Nat /\ FrameLen > 1 /\ MaxSent \in Nat
  BY UartProtocolAssumption
<1>2. thread.byte \in RxByte /\ thread.frame \in RxFrame
  BY DEF TypeOK, ThreadState
<1>3. Current \in Seq(RxByte)
  <2>1. <<thread.byte>> \in Seq(RxByte) /\ <<>> \in Seq(RxByte)
    BY <1>2
  <2>2. QED BY <2>1 DEF Current
<1>4. ring \in Seq(RxByte) /\ line \in Seq(RxByte)
  BY DEF TypeOK
<1>5. Stream \in Seq(RxByte)
  BY <1>3, <1>4, ThreeParts DEF Stream
<1>6. Len(Stream) \in Nat
  BY <1>5, LenProperties
<1>7. ASSUME NEW i \in 1..Len(Stream)
      PROVE  /\ Stream[i] \in RxByte /\ Stream[i].frame \in RxFrame
             /\ Stream[i].frame.number \in Nat /\ Stream[i].pos \in 1..FrameLen
  <2>1. Stream[i] \in RxByte
    BY <1>5, ElementOfSeq
  <2>2. QED BY <1>1, <2>1 DEF RxByte, RxFrame
<1>8. sent \in Nat /\ handled \in Nat
  BY <1>1 DEF TypeOK
<1>9. thread.frame.number \in Nat
  BY <1>1, <1>2 DEF RxFrame
<1>10. QED BY <1>1, <1>3, <1>4, <1>5, <1>6, <1>7, <1>8, <1>9 DEF Done

\* Taking a byte out of the ring leaves it on its way.
LEMMA GetKeepsStream ==
    ASSUME TypeOK, RingGet
    PROVE  Stream' = Stream
<1> DEFINE h == <<Head(ring)>>
           t == Tail(ring)
<1>1. /\ ring \in Seq(RxByte) /\ ring # <<>> /\ Current = <<>>
      /\ ring' = t /\ Current' = h /\ line' = line
  BY DEF RingGet, Current, TypeOK, ThreadState
<1>2. /\ Head(ring) \in RxByte /\ Head(ring) = ring[1] /\ Len(ring) \in Nat
      /\ t \in Seq(RxByte) /\ Len(t) = Len(ring) - 1
      /\ \A i \in 1..(Len(ring) - 1) : t[i] = ring[i + 1]
  BY <1>1, HeadTailProperties, LenProperties
<1>3. h \in Seq(RxByte) /\ Len(h) = 1 /\ h[1] = ring[1]
  BY <1>2
<1> HIDE DEF h, t
<1>4. h \o t = ring
  <2> DEFINE w == h \o t
  <2>1. /\ w \in Seq(RxByte) /\ Len(w) = Len(h) + Len(t)
        /\ \A i \in 1..(Len(h) + Len(t)) : w[i] = IF i <= Len(h) THEN h[i] ELSE t[i - Len(h)]
    BY <1>2, <1>3, ConcatProperties
  <2> HIDE DEF w
  <2>2. Len(w) = Len(ring)
    BY <1>2, <1>3, <2>1
  <2>3. ASSUME NEW i \in 1..Len(w) PROVE w[i] = ring[i]
    <3>1. CASE i = 1
      BY <3>1, <1>2, <1>3, <2>1, <2>2
    <3>2. CASE i # 1
      <4>1. i - 1 \in 1..(Len(ring) - 1) /\ (i - 1) + 1 = i /\ ~(i <= 1)
            /\ i \in 1..(Len(h) + Len(t))
        BY <3>2, <1>2, <2>1, <2>2
      <4>2. w[i] = t[i - 1]
        BY <4>1, <1>3, <2>1
      <4>3. t[i - 1] = ring[(i - 1) + 1]
        BY <4>1, <1>2
      <4>4. QED BY <4>1, <4>2, <4>3
    <3>3. QED BY <3>1, <3>2
  <2>4. w = ring
    BY <1>1, <2>1, <2>2, <2>3, SeqEqual
  <2>5. QED BY <2>4 DEF w
<1>5. <<>> \o ring = ring
  BY <1>1, ConcatEmptySeq
<1>6. QED BY <1>1, <1>4, <1>5 DEF Stream

\* Parsing takes the first byte off the way.
LEMMA ParseTakesTheFirst ==
    ASSUME TypeOK, thread.pc = "parse", thread'.pc \in {"get", "lookup"},
           UNCHANGED <<ring, line>>
    PROVE  /\ Stream # <<>> /\ Len(Stream) >= 1 /\ Stream[1] = thread.byte
           /\ Stream' \in Seq(RxByte) /\ Len(Stream') = Len(Stream) - 1
           /\ \A i \in 1..Len(Stream') : Stream'[i] = Stream[i + 1]
<1> DEFINE c == <<thread.byte>>
           e == <<>>
<1>1. Current = c /\ Current' = e /\ ring' = ring /\ line' = line
  BY DEF Current
<1>2. /\ c \in Seq(RxByte) /\ Len(c) = 1 /\ c[1] = thread.byte
      /\ e \in Seq(RxByte) /\ Len(e) = 0
  BY DEF TypeOK, ThreadState
<1>3. ring \in Seq(RxByte) /\ line \in Seq(RxByte)
  BY DEF TypeOK
<1> HIDE DEF c, e
<1> DEFINE s == (c \o ring) \o line
           t == (e \o ring) \o line
<1>4. s = Stream /\ t = Stream'
  BY <1>1 DEF Stream
<1>5. /\ Len(s) = Len(c) + Len(ring) + Len(line)
      /\ Len(ring) \in Nat /\ Len(line) \in Nat
      /\ \A i \in 1..Len(c) : s[i] = c[i]
      /\ \A i \in 1..Len(ring) : s[Len(c) + i] = ring[i]
      /\ \A i \in 1..Len(line) : s[Len(c) + Len(ring) + i] = line[i]
  <2>1. c \in Seq(RxByte) /\ ring \in Seq(RxByte) /\ line \in Seq(RxByte)
    BY <1>2, <1>3
  <2>2. QED BY <2>1, ThreeParts
<1>6. /\ t \in Seq(RxByte) /\ Len(t) = Len(e) + Len(ring) + Len(line)
      /\ \A i \in 1..Len(ring) : t[Len(e) + i] = ring[i]
      /\ \A i \in 1..Len(line) : t[Len(e) + Len(ring) + i] = line[i]
  BY <1>2, <1>3, ThreeParts
<1> HIDE DEF s, t
<1>7. Len(s) >= 1 /\ s[1] = thread.byte /\ Len(t) = Len(s) - 1
  BY <1>2, <1>5, <1>6
<1>8. ASSUME NEW i \in 1..Len(t) PROVE t[i] = s[i + 1]
  <2>1. CASE i <= Len(ring)
    <3>1. i \in 1..Len(ring) /\ Len(e) + i = i /\ Len(c) + i = i + 1
      BY <2>1, <1>2, <1>5, <1>6
    <3>2. t[Len(e) + i] = s[Len(c) + i]
      BY <3>1, <1>5, <1>6
    <3>3. QED BY <3>1, <3>2
  <2>2. CASE ~(i <= Len(ring))
    <3> DEFINE k == i - Len(ring)
    <3>1. /\ k \in 1..Len(line) /\ Len(e) + Len(ring) + k = i
          /\ Len(c) + Len(ring) + k = i + 1
      BY <2>2, <1>2, <1>5, <1>6
    <3> HIDE DEF k
    <3>2. t[Len(e) + Len(ring) + k] = s[Len(c) + Len(ring) + k]
      BY <3>1, <1>5, <1>6
    <3>3. QED BY <3>1, <3>2
  <2>3. QED BY <2>1, <2>2
<1>9. s # <<>>
  <2>1. Len(<<>>) = 0
    OBVIOUS
  <2>2. QED BY <1>7, <2>1
<1>10. QED BY <1>4, <1>6, <1>7, <1>8, <1>9

\* The bytes of a frame come to the end of the way.
LEMMA ArriveExtendsStream ==
    ASSUME TypeOK, NEW c \in Cmd, Arrive(c)
    PROVE  LET f == [number |-> sent + 1, cmd |-> c] IN
           /\ f \in RxFrame /\ sent' = sent + 1
           /\ Stream' \in Seq(RxByte) /\ Len(Stream') = Len(Stream) + FrameLen
           /\ \A i \in 1..Len(Stream) : Stream'[i] = Stream[i]
           /\ \A k \in 1..FrameLen : Stream'[Len(Stream) + k] = [frame |-> f, pos |-> k]
<1> DEFINE f == [number |-> sent + 1, cmd |-> c]
           bytes == [k \in 1..FrameLen |-> [frame |-> f, pos |-> k]]
<1>1. sent' = sent + 1 /\ sent + 1 \in 1..MaxSent /\ FrameLen \in Nat
  BY UartProtocolAssumption DEF TypeOK, Arrive
<1>2. f \in RxFrame
  BY <1>1 DEF RxFrame
<1> HIDE DEF f
<1>3. \A k \in 1..FrameLen : [frame |-> f, pos |-> k] \in RxByte
  BY <1>2 DEF RxByte
<1>4. bytes \in [1..FrameLen -> RxByte]
  BY <1>3
<1>5. \A k \in 1..FrameLen : bytes[k] = [frame |-> f, pos |-> k]
  OBVIOUS
<1>6. line' = line \o bytes /\ ring' = ring /\ Current' = Current
  BY DEF Arrive, Current, f
<1> HIDE DEF bytes
<1>7. bytes \in Seq(RxByte) /\ Len(bytes) = FrameLen
  <2>1. bytes \in Seq(RxByte)
    BY <1>1, <1>4, IsASeq
  <2>2. DOMAIN bytes = 1..FrameLen
    BY <1>4
  <2>3. QED BY <1>1, <2>1, <2>2, LenProperties
<1>8. /\ Current \in Seq(RxByte) /\ ring \in Seq(RxByte) /\ line \in Seq(RxByte)
      /\ Stream \in Seq(RxByte) /\ Len(Stream) \in Nat
  BY StreamType
<1>9. Stream' = Stream \o bytes
  <2>1. Stream' = (Current \o ring) \o (line \o bytes)
    BY <1>6 DEF Stream
  <2> DEFINE u == Current \o ring
  <2>2. u \in Seq(RxByte)
    BY <1>8, ConcatProperties
  <2>3. Stream = u \o line /\ Stream' = u \o (line \o bytes)
    BY <2>1 DEF Stream
  <2> HIDE DEF u
  <2>4. (u \o line) \o bytes = u \o (line \o bytes)
    BY <1>7, <1>8, <2>2, ConcatAssociative
  <2>5. QED BY <2>3, <2>4
<1> DEFINE s == Stream
           w == s \o bytes
<1>10. w = Stream' /\ s \in Seq(RxByte) /\ Len(s) \in Nat /\ s = Stream
  BY <1>8, <1>9
<1> HIDE DEF s
<1>11. /\ w \in Seq(RxByte) /\ Len(w) = Len(s) + Len(bytes)
       /\ \A i \in 1..(Len(s) + Len(bytes)) : w[i] = IF i <= Len(s) THEN s[i] ELSE bytes[i - Len(s)]
  BY <1>7, <1>10, ConcatProperties
<1> HIDE DEF w
<1>12. ASSUME NEW i \in 1..Len(s) PROVE w[i] = s[i]
  <2>1. i \in 1..(Len(s) + Len(bytes)) /\ i <= Len(s)
    BY <1>1, <1>7, <1>10
  <2>2. QED BY <2>1, <1>11
<1>13. ASSUME NEW k \in 1..FrameLen PROVE w[Len(s) + k] = [frame |-> f, pos |-> k]
  <2> DEFINE j == Len(s) + k
  <2>1. j \in 1..(Len(s) + Len(bytes)) /\ ~(j <= Len(s)) /\ j - Len(s) = k
    BY <1>1, <1>7, <1>10
  <2> HIDE DEF j
  <2>2. w[j] = bytes[k]
    BY <2>1, <1>11
  <2>3. QED BY <2>2, <1>5 DEF j
<1>14. QED BY <1>1, <1>2, <1>7, <1>10, <1>11, <1>12, <1>13 DEF f

\* The interrupt takes out of the way the bytes that the ring has no room for,
\* and leaves the others in their order.
LEMMA IrqThinsStream ==
    ASSUME TypeOK, NEW n \in 1..IrqReadSize, IrqCallback(n)
    PROVE  \E kept, lost \in Nat :
             /\ Len(Stream') + lost = Len(Stream) /\ kept <= Len(Stream')
             /\ Stream' \in Seq(RxByte) /\ Len(Stream') \in Nat
             /\ \A i \in 1..Len(Stream') :
                  Stream'[i] = Stream[IF i <= kept THEN i ELSE i + lost]
             /\ ~overrun' => ~overrun /\ lost = 0
<1> DEFINE room == RingSize - Len(ring)
           put == IF n <= room THEN n ELSE room
           a == SubSeq(line, 1, put)
           b == SubSeq(line, n + 1, Len(line))
<1>1. /\ Current \in Seq(RxByte) /\ ring \in Seq(RxByte) /\ line \in Seq(RxByte)
      /\ Len(Current) \in Nat /\ Len(ring) \in Nat /\ Len(line) \in Nat
  BY StreamType, LenProperties
<1>2. /\ n \in Nat /\ n <= Len(line) /\ put \in Nat /\ put <= n
      /\ ring' = ring \o a /\ line' = b /\ Current' = Current
      /\ overrun' = (overrun \/ put < n)
  <2>1. RingSize \in Nat /\ Len(ring) <= RingSize /\ n \in Nat /\ n <= Len(line)
    BY UartProtocolAssumption DEF TypeOK, IrqCallback
  <2>2. put \in Nat /\ put <= n
    BY <1>1, <2>1
  <2>3. QED BY <2>1, <2>2 DEF IrqCallback, Current
<1> HIDE DEF put
<1>3. /\ a \in Seq(RxByte) /\ Len(a) = put /\ \A i \in 1..put : a[i] = line[i]
  <2>1. \A i \in 1..put : i \in 1..Len(line) /\ line[i] \in RxByte
    BY <1>1, <1>2, ElementOfSeq
  <2>2. QED BY <1>1, <1>2, <2>1, SubSeqProperties
<1>4. /\ b \in Seq(RxByte) /\ Len(b) = Len(line) - n
      /\ \A i \in 1..Len(b) : b[i] = line[n + i]
  <2>1. n + 1 \in 1..(Len(line) + 1)
    BY <1>1, <1>2
  <2>2. QED BY <1>1, <1>2, <2>1, SubSeqProperties
<1> HIDE DEF a, b
<1> DEFINE r == ring \o a
<1>5. /\ r \in Seq(RxByte) /\ Len(r) = Len(ring) + put
      /\ \A i \in 1..(Len(ring) + put) : r[i] = IF i <= Len(ring) THEN ring[i] ELSE a[i - Len(ring)]
  BY <1>1, <1>3, ConcatProperties
<1>6. r = ring'
  BY <1>2
<1> HIDE DEF r
<1> DEFINE c == Current
           x == Len(c)
           y == Len(ring)
           s == (c \o ring) \o line
           t == (c \o r) \o b
<1>7. s = Stream /\ t = Stream' /\ c \in Seq(RxByte)
  BY <1>1, <1>2, <1>6 DEF Stream
<1> HIDE DEF c
<1>8. /\ Len(s) = x + y + Len(line) /\ x \in Nat
      /\ \A i \in 1..x : s[i] = c[i]
      /\ \A i \in 1..y : s[x + i] = ring[i]
      /\ \A i \in 1..Len(line) : s[x + y + i] = line[i]
  <2>1. c \in Seq(RxByte) /\ ring \in Seq(RxByte) /\ line \in Seq(RxByte)
    BY <1>1, <1>7
  <2>2. QED BY <2>1, ThreeParts
<1>9. /\ t \in Seq(RxByte) /\ Len(t) = x + Len(r) + Len(b) /\ x \in Nat
      /\ \A i \in 1..x : t[i] = c[i]
      /\ \A i \in 1..Len(r) : t[x + i] = r[i]
      /\ \A i \in 1..Len(b) : t[x + Len(r) + i] = b[i]
  <2>1. c \in Seq(RxByte) /\ r \in Seq(RxByte) /\ b \in Seq(RxByte)
    BY <1>4, <1>5, <1>7
  <2>2. QED BY <2>1, ThreeParts
<1> HIDE DEF s, t, x
<1> DEFINE kept == x + y + put
           lost == n - put
<1>10. /\ kept \in Nat /\ lost \in Nat /\ Len(t) + lost = Len(s) /\ kept <= Len(t) /\ Len(t) \in Nat
  BY <1>1, <1>2, <1>4, <1>5, <1>8, <1>9
<1>11. ASSUME NEW i \in 1..Len(t) PROVE t[i] = s[IF i <= kept THEN i ELSE i + lost]
  <2>1. CASE i <= x
    <3>1. i \in 1..x /\ i <= kept
      BY <2>1, <1>1, <1>2, <1>8
    <3>2. QED BY <3>1, <1>8, <1>9
  <2>2. CASE ~(i <= x) /\ i <= x + y
    <3> DEFINE k == i - x
    <3>1. /\ k \in 1..y /\ k \in 1..Len(r) /\ k \in 1..(y + put) /\ k <= y
          /\ x + k = i /\ i <= kept
      BY <2>2, <1>1, <1>2, <1>5, <1>8
    <3> HIDE DEF k
    <3>2. t[x + k] = r[k] /\ r[k] = ring[k] /\ s[x + k] = ring[k]
      BY <3>1, <1>5, <1>8, <1>9
    <3>3. QED BY <3>1, <3>2
  <2>3. CASE ~(i <= x + y) /\ i <= kept
    <3> DEFINE k == i - x
               l == i - (x + y)
    <3>1. /\ k \in 1..Len(r) /\ k \in 1..(y + put) /\ ~(k <= y) /\ k - y = l
          /\ l \in 1..put /\ l \in 1..Len(line) /\ x + k = i /\ x + y + l = i
      BY <2>3, <1>1, <1>2, <1>5, <1>8
    <3> HIDE DEF k, l
    <3>2. t[x + k] = r[k] /\ r[k] = a[l] /\ a[l] = line[l] /\ s[x + y + l] = line[l]
      BY <3>1, <1>3, <1>5, <1>8, <1>9
    <3>3. QED BY <2>3, <3>1, <3>2
  <2>4. CASE ~(i <= kept)
    <3> DEFINE k == i - kept
    <3>1. /\ k \in 1..Len(b) /\ x + Len(r) + k = i
          /\ n + k \in 1..Len(line) /\ x + y + (n + k) = i + lost
      <4>1. /\ Len(t) = x + Len(r) + Len(b) /\ Len(r) = y + put /\ Len(b) = Len(line) - n
            /\ x \in Nat /\ y \in Nat /\ put \in Nat /\ n \in Nat /\ put <= n
            /\ Len(line) \in Nat /\ n <= Len(line)
        BY <1>1, <1>2, <1>4, <1>5, <1>8, <1>9
      <4>2. k \in 1..Len(b)
        BY <2>4, <4>1
      <4>3. x + Len(r) + k = i
        BY <2>4, <4>1
      <4>4. n + k \in 1..Len(line)
        BY <4>1, <4>2
      <4>5. x + y + (n + k) = i + lost
        BY <2>4, <4>1
      <4>6. QED BY <4>2, <4>3, <4>4, <4>5
    <3> HIDE DEF k
    <3>2. t[x + Len(r) + k] = b[k] /\ b[k] = line[n + k] /\ s[x + y + (n + k)] = line[n + k]
      BY <3>1, <1>4, <1>8, <1>9
    <3>3. QED BY <2>4, <3>1, <3>2
  <2>5. QED BY <2>1, <2>2, <2>3, <2>4
<1>12. ~overrun' => ~overrun /\ lost = 0
  <2>1. ~(put < n) => lost = 0
    BY <1>2
  <2>2. ~overrun' => ~overrun /\ ~(put < n)
    BY <1>2
  <2>3. QED BY <2>1, <2>2
<1> HIDE DEF kept, lost
<1>13. QED BY <1>7, <1>9, <1>10, <1>11, <1>12

\* A step that neither parses nor looks up, and brings and takes no byte.
LEMMA OrderKept ==
    ASSUME TypeOK, OrderInv, Stream' = Stream,
           UNCHANGED <<sent, overrun, parser, handled>>,
           thread'.pc # "lookup", thread.pc # "lookup"
    PROVE  OrderInv'
<1>1. Done' = Done /\ Cursor' = Cursor
  BY DEF Done, Cursor
<1>2. StreamIsAhead' /\ StreamIsOrdered'
  BY <1>1 DEF OrderInv, StreamIsAhead, StreamIsOrdered, SentBefore
<1>3. ~overrun => ParserIsInStep' /\ StreamIsWhole'
  BY <1>1 DEF OrderInv, ParserIsInStep, StreamIsWhole, Adjacent, LastSent
<1>4. QED BY <1>1, <1>2, <1>3 DEF OrderInv

\* The steps that touch neither the way nor the thread.
LEMMA OrderUntouched ==
    ASSUME OrderInv, UNCHANGED <<sent, line, overrun, ring, thread, parser, handled>>
    PROVE  OrderInv'
<1>1. Stream' = Stream /\ Done' = Done /\ Cursor' = Cursor
  BY DEF Stream, Current, Done, Cursor
<1>2. StreamIsAhead' /\ StreamIsOrdered'
  BY <1>1 DEF OrderInv, StreamIsAhead, StreamIsOrdered, SentBefore
<1>3. ~overrun => ParserIsInStep' /\ StreamIsWhole'
  BY <1>1 DEF OrderInv, ParserIsInStep, StreamIsWhole, Adjacent, LastSent
<1>4. QED BY <1>1, <1>2, <1>3 DEF OrderInv

LEMMA OrderArrive ==
    ASSUME TypeOK, OrderInv, NEW c \in Cmd, Arrive(c)
    PROVE  OrderInv'
<1> DEFINE f == [number |-> sent + 1, cmd |-> c]
           s == Stream
           t == Stream'
           n == Len(s)
<1>1. /\ f \in RxFrame /\ f.number = sent + 1 /\ sent' = sent + 1
      /\ t \in Seq(RxByte) /\ Len(t) = n + FrameLen
      /\ \A i \in 1..n : t[i] = s[i]
      /\ \A k \in 1..FrameLen : t[n + k] = [frame |-> f, pos |-> k]
  BY ArriveExtendsStream
<1>2. UNCHANGED <<overrun, parser, handled, thread>>
  BY DEF Arrive
<1>3. Done' = Done /\ Cursor' = Cursor
  BY <1>2 DEF Done, Cursor
<1>4. /\ n \in Nat /\ FrameLen \in Nat /\ FrameLen > 1 /\ sent \in Nat /\ Done \in Nat
      /\ \A i \in 1..n : s[i].frame.number \in Nat
  BY StreamType
<1>5. \A i \in 1..n : Done < s[i].frame.number /\ s[i].frame.number <= sent
  BY DEF OrderInv, StreamIsAhead
<1>6. \A i, j \in 1..n : i < j => SentBefore(s[i], s[j])
  BY DEF OrderInv, StreamIsOrdered
<1>7. Done <= sent /\ (thread.pc = "lookup" => handled < thread.frame.number)
  BY DEF OrderInv
<1>8. s = <<>> <=> n = 0
  BY StreamType, EmptySeq
<1> HIDE DEF f, s, t, n
<1>9. ASSUME NEW k \in 1..FrameLen
      PROVE  t[n + k].frame = f /\ t[n + k].frame.number = sent + 1 /\ t[n + k].pos = k
  <2>1. t[n + k] = [frame |-> f, pos |-> k]
    BY <1>1
  <2>2. QED BY <2>1, <1>1
\* An index of the longer way is one of the old or one of the frame.
<1>10. ASSUME NEW i \in 1..Len(t)
       PROVE  i \in 1..n \/ \E k \in 1..FrameLen : i = n + k
  <2>1. CASE i <= n
    BY <2>1, <1>1, <1>4
  <2>2. CASE ~(i <= n)
    <3>1. i - n \in 1..FrameLen /\ i = n + (i - n)
      BY <2>2, <1>1, <1>4
    <3>2. QED BY <3>1
  <2>3. QED BY <2>1, <2>2
<1>11. \A i \in 1..Len(t) : Done < t[i].frame.number /\ t[i].frame.number <= sent + 1
  <2>1. ASSUME NEW i \in 1..n PROVE Done < t[i].frame.number /\ t[i].frame.number <= sent + 1
    BY <1>1, <1>4, <1>5
  <2>2. ASSUME NEW k \in 1..FrameLen
        PROVE  Done < t[n + k].frame.number /\ t[n + k].frame.number <= sent + 1
    BY <1>4, <1>7, <1>9
  <2>3. QED BY <2>1, <2>2, <1>10
<1>12. \A i, j \in 1..Len(t) : i < j => SentBefore(t[i], t[j])
  <2> SUFFICES ASSUME NEW i \in 1..Len(t), NEW j \in 1..Len(t), i < j
               PROVE  SentBefore(t[i], t[j])
    OBVIOUS
  <2>1. CASE i \in 1..n /\ j \in 1..n
    BY <2>1, <1>1, <1>6
  <2>2. CASE i \in 1..n /\ \E k \in 1..FrameLen : j = n + k
    <3>1. t[i].frame.number <= sent /\ t[i].frame.number \in Nat
      BY <2>2, <1>1, <1>4, <1>5
    <3>2. t[j].frame.number = sent + 1
      BY <2>2, <1>9
    <3>3. t[i].frame.number < t[j].frame.number
      BY <3>1, <3>2, <1>4
    <3>4. QED BY <3>3 DEF SentBefore
  <2>3. CASE (\E k \in 1..FrameLen : i = n + k) /\ (\E k \in 1..FrameLen : j = n + k)
    <3>1. PICK k \in 1..FrameLen : i = n + k
      BY <2>3
    <3>2. PICK l \in 1..FrameLen : j = n + l
      BY <2>3
    <3>3. k < l
      BY <1>4, <3>1, <3>2
    <3>4. t[i].frame.number = t[j].frame.number /\ t[i].pos = k /\ t[j].pos = l
      BY <3>1, <3>2, <1>9
    <3>5. QED BY <3>3, <3>4 DEF SentBefore
  <2>4. CASE (\E k \in 1..FrameLen : i = n + k) /\ j \in 1..n
    BY <2>4, <1>4
  <2>5. QED BY <2>1, <2>2, <2>3, <2>4, <1>10
<1>13. ASSUME ~overrun PROVE ParserIsInStep' /\ StreamIsWhole'
  <2>1. ParserIsInStep /\ StreamIsWhole
    BY <1>13 DEF OrderInv
  <2>2. ParserIsInStep'
    BY <1>2, <2>1 DEF ParserIsInStep
  <2>3. t # <<>> /\ Len(t) \in Nat /\ Len(t) >= 1
    <3>1. Len(t) \in Nat /\ Len(t) >= 1
      BY <1>1, <1>4
    <3>2. Len(<<>>) = 0
      OBVIOUS
    <3>3. QED BY <3>1, <3>2
  <2>4. t[Len(t)].frame.number = sent + 1 /\ t[Len(t)].pos = FrameLen
    <3>1. FrameLen \in 1..FrameLen
      BY <1>4
    <3>2. QED BY <3>1, <1>1, <1>9
  <2>5. t[n + 1].frame.number = sent + 1 /\ t[n + 1].pos = 1
    <3>1. 1 \in 1..FrameLen
      BY <1>4
    <3>2. QED BY <3>1, <1>9
  <2>6. Adjacent(Cursor, t[1])
    <3>1. CASE s = <<>>
      <4>1. LastSent(Cursor) /\ n + 1 = 1
        BY <3>1, <2>1, <1>8 DEF StreamIsWhole, s
      <4>2. QED BY <4>1, <2>5 DEF Adjacent, LastSent
    <3>2. CASE s # <<>>
      <4>1. 1 \in 1..n
        BY <3>2, <1>4, <1>8
      <4>2. Adjacent(Cursor, s[1])
        BY <3>2, <2>1 DEF StreamIsWhole, s
      <4>3. QED BY <4>1, <4>2, <1>1
    <3>3. QED BY <3>1, <3>2
  <2>7. ASSUME NEW i \in 1..(Len(t) - 1) PROVE Adjacent(t[i], t[i + 1])
    <3>1. CASE i < n
      <4>1. i \in 1..n /\ i + 1 \in 1..n /\ i \in 1..(n - 1) /\ n # 0
        BY <3>1, <1>4
      <4>2. Adjacent(s[i], s[i + 1])
        BY <4>1, <2>1, <1>8 DEF StreamIsWhole, s, n
      <4>3. QED BY <4>1, <4>2, <1>1
    <3>2. CASE i = n
      <4>1. n # 0 /\ n \in 1..n
        BY <3>2, <1>4
      <4>2. s[n].frame.number = sent /\ s[n].pos = FrameLen
        BY <4>1, <2>1, <1>8 DEF StreamIsWhole, LastSent, s, n
      <4>3. t[n] = s[n]
        BY <4>1, <1>1
      <4>4. QED BY <3>2, <4>2, <4>3, <2>5 DEF Adjacent
    <3>3. CASE i > n
      <4> DEFINE k == i - n
      <4>1. k \in 1..FrameLen /\ k + 1 \in 1..FrameLen /\ n + k = i /\ n + (k + 1) = i + 1 /\ k # FrameLen
        BY <3>3, <1>1, <1>4
      <4> HIDE DEF k
      <4>2. /\ t[n + k].frame = f /\ t[n + k].pos = k
            /\ t[n + (k + 1)].frame = f /\ t[n + (k + 1)].pos = k + 1
        BY <4>1, <1>9
      <4>3. QED BY <4>1, <4>2 DEF Adjacent
    <3>4. i < n \/ i = n \/ i > n
      BY <1>4
    <3>5. QED BY <3>1, <3>2, <3>3, <3>4
  <2>8. StreamIsWhole'
    BY <1>1, <1>3, <2>3, <2>4, <2>6, <2>7 DEF StreamIsWhole, Adjacent, LastSent, t
  <2>9. QED BY <2>2, <2>8
<1>14. Done' <= sent' /\ (thread'.pc = "lookup" => handled' < thread'.frame.number)
  BY <1>1, <1>2, <1>3, <1>4, <1>7
<1>15. StreamIsAhead' /\ StreamIsOrdered'
  BY <1>1, <1>3, <1>11, <1>12 DEF StreamIsAhead, StreamIsOrdered, SentBefore, t
<1>16. QED BY <1>2, <1>13, <1>14, <1>15 DEF OrderInv

LEMMA OrderIrq ==
    ASSUME TypeOK, OrderInv, NEW n \in 1..IrqReadSize, IrqCallback(n)
    PROVE  OrderInv'
<1> DEFINE s == Stream
           t == Stream'
<1>1. UNCHANGED <<sent, parser, handled, thread>>
  BY DEF IrqCallback
<1>2. Done' = Done /\ Cursor' = Cursor
  BY <1>1 DEF Done, Cursor
<1>3. PICK kept, lost \in Nat :
        /\ Len(t) + lost = Len(s) /\ kept <= Len(t)
        /\ t \in Seq(RxByte) /\ Len(t) \in Nat
        /\ \A i \in 1..Len(t) : t[i] = s[IF i <= kept THEN i ELSE i + lost]
        /\ ~overrun' => ~overrun /\ lost = 0
  BY IrqThinsStream
<1>4. s \in Seq(RxByte)
  BY StreamType
<1>5. \A i \in 1..Len(s) : Done < s[i].frame.number /\ s[i].frame.number <= sent
  BY DEF OrderInv, StreamIsAhead
<1>6. \A i, j \in 1..Len(s) : i < j => SentBefore(s[i], s[j])
  BY DEF OrderInv, StreamIsOrdered
<1> HIDE DEF s, t
<1> DEFINE at(i) == IF i <= kept THEN i ELSE i + lost
<1>7. \A i \in 1..Len(t) : at(i) \in 1..Len(s) /\ t[i] = s[at(i)]
  BY <1>3
<1>8. \A i, j \in 1..Len(t) : i < j => at(i) < at(j)
  BY <1>3
<1> HIDE DEF at
<1>9. StreamIsAhead'
  BY <1>1, <1>2, <1>5, <1>7 DEF StreamIsAhead, t
<1>10. \A i, j \in 1..Len(t) : i < j => SentBefore(t[i], t[j])
  <2> SUFFICES ASSUME NEW i \in 1..Len(t), NEW j \in 1..Len(t), i < j
               PROVE  SentBefore(t[i], t[j])
    OBVIOUS
  <2>1. at(i) \in 1..Len(s) /\ at(j) \in 1..Len(s) /\ at(i) < at(j)
    BY <1>7, <1>8
  <2>2. SentBefore(s[at(i)], s[at(j)])
    BY <2>1, <1>6
  <2>3. QED BY <2>2, <1>7
<1>11. StreamIsOrdered'
  BY <1>10 DEF StreamIsOrdered, SentBefore, t
<1>12. ASSUME ~overrun' PROVE ParserIsInStep' /\ StreamIsWhole'
  <2>1. ~overrun /\ lost = 0
    BY <1>3, <1>12
  <2>2. Len(t) = Len(s)
    BY <1>3, <2>1
  <2>3. \A i \in 1..Len(t) : t[i] = s[i]
    BY <1>3, <2>1
  <2>4. t = s
    BY <1>3, <1>4, <2>2, <2>3, SeqEqual
  <2>5. ParserIsInStep /\ StreamIsWhole
    BY <2>1 DEF OrderInv
  <2>6. ParserIsInStep'
    BY <1>1, <2>5 DEF ParserIsInStep
  <2>7. StreamIsWhole'
    BY <1>1, <1>2, <2>4, <2>5 DEF StreamIsWhole, Adjacent, LastSent, s, t
  <2>8. QED BY <2>6, <2>7
<1>13. Done' <= sent' /\ (thread'.pc = "lookup" => handled' < thread'.frame.number)
  BY <1>1, <1>2 DEF OrderInv
<1>14. QED BY <1>9, <1>11, <1>12, <1>13 DEF OrderInv

\* The parser sees the next byte: of a frame that goes on or, without an
\* overflow, of one that is complete.
LEMMA OrderParse ==
    ASSUME TypeOK, OrderInv,
           ParseInside \/ ParseLast \/ \E s \in {"idle", "lost"} : ParseDamaged(s)
    PROVE  OrderInv'
<1> DEFINE s == Stream
           t == Stream'
           b == thread.byte
<1>1. /\ thread.pc = "parse" /\ UNCHANGED <<sent, line, overrun, ring, handled>>
      /\ thread'.pc \in {"get", "lookup"} /\ b \in RxByte
      /\ thread'.pc = "lookup" <=> ParseLast
      /\ ParseLast => thread'.frame = b.frame
  BY DEF ParseInside, ParseLast, ParseDamaged, Continues, BackToRing, ThreadGoto,
         TypeOK, ThreadState
<1>2. /\ s # <<>> /\ Len(s) >= 1 /\ s[1] = b
      /\ t \in Seq(RxByte) /\ Len(t) = Len(s) - 1
      /\ \A i \in 1..Len(t) : t[i] = s[i + 1]
  BY <1>1, ParseTakesTheFirst
<1>3. /\ Len(s) \in Nat /\ sent \in Nat /\ handled \in Nat /\ FrameLen \in Nat /\ FrameLen > 1
      /\ \A i \in 1..Len(s) : s[i].frame.number \in Nat /\ s[i].pos \in 1..FrameLen
  BY StreamType
<1>4. \A i \in 1..Len(s) : handled < s[i].frame.number /\ s[i].frame.number <= sent
  BY <1>1 DEF OrderInv, StreamIsAhead, Done
<1>5. \A i, j \in 1..Len(s) : i < j => SentBefore(s[i], s[j])
  BY DEF OrderInv, StreamIsOrdered
<1>6. Done = handled /\ Done' = (IF ParseLast THEN b.frame.number ELSE handled)
  BY <1>1 DEF Done
<1>7. ParseLast => b.pos = FrameLen
  BY DEF ParseLast
<1> HIDE DEF s, t, b
<1>8. 1 \in 1..Len(s) /\ handled < b.frame.number /\ b.frame.number <= sent
      /\ b.frame.number \in Nat /\ b.pos \in 1..FrameLen
  <2>1. 1 \in 1..Len(s)
    BY <1>2, <1>3
  <2>2. QED BY <2>1, <1>2, <1>3, <1>4
<1>9. Done' <= sent' /\ (thread'.pc = "lookup" => handled' < thread'.frame.number)
  <2>1. handled <= sent
    BY <1>6 DEF OrderInv
  <2>2. QED BY <2>1, <1>1, <1>6, <1>8
<1>10. \A i \in 1..Len(t) : i + 1 \in 1..Len(s) /\ t[i] = s[i + 1]
  BY <1>2, <1>3
<1>11. \A i \in 1..Len(t) : Done' < t[i].frame.number /\ t[i].frame.number <= sent
  <2> SUFFICES ASSUME NEW i \in 1..Len(t)
               PROVE  Done' < s[i + 1].frame.number /\ s[i + 1].frame.number <= sent
    BY <1>10
  <2>1. handled < s[i + 1].frame.number /\ s[i + 1].frame.number <= sent
    BY <1>4, <1>10
  <2>2. ASSUME ParseLast PROVE b.frame.number < s[i + 1].frame.number
    <3>1. 1 < i + 1 /\ i + 1 \in 1..Len(s)
      BY <1>10
    <3>2. SentBefore(b, s[i + 1])
      BY <3>1, <1>2, <1>5, <1>8
    <3>3. ~(b.pos < s[i + 1].pos)
      BY <2>2, <3>1, <1>3, <1>7
    <3>4. QED BY <3>2, <3>3 DEF SentBefore
  <2>3. QED BY <2>1, <2>2, <1>6
<1>12. \A i, j \in 1..Len(t) : i < j => SentBefore(t[i], t[j])
  <2> SUFFICES ASSUME NEW i \in 1..Len(t), NEW j \in 1..Len(t), i < j
               PROVE  SentBefore(t[i], t[j])
    OBVIOUS
  <2>1. i + 1 \in 1..Len(s) /\ j + 1 \in 1..Len(s) /\ i + 1 < j + 1
    BY <1>10
  <2>2. SentBefore(s[i + 1], s[j + 1])
    BY <2>1, <1>5
  <2>3. QED BY <2>2, <1>10
<1>13. StreamIsAhead' /\ StreamIsOrdered'
  BY <1>1, <1>11, <1>12 DEF StreamIsAhead, StreamIsOrdered, SentBefore, t
<1>14. ASSUME ~overrun PROVE ParserIsInStep' /\ StreamIsWhole'
  <2>1. /\ ParserIsInStep
        /\ Adjacent(Cursor, b)
        /\ LastSent(s[Len(s)])
        /\ \A i \in 1..(Len(s) - 1) : Adjacent(s[i], s[i + 1])
    BY <1>2, <1>14 DEF OrderInv, StreamIsWhole, s
  <2>2. parser.state \in {"idle", "inside"}
    BY <2>1 DEF ParserIsInStep, TypeOK, ParserState
  <2>3. Continues(b) /\ b.frame.number = handled + 1
    <3>1. CASE parser.state = "inside"
      <4>1. Cursor.pos = parser.pos /\ Cursor.frame = parser.frame
        BY <3>1 DEF Cursor
      <4>2. parser.frame.number = handled + 1 /\ parser.pos < FrameLen /\ parser.pos \in Nat
        BY <2>1, <3>1, <1>3 DEF ParserIsInStep, TypeOK, ParserState
      <4>3. Cursor.pos # FrameLen
        BY <4>1, <4>2, <1>3
      <4>4. b.frame = parser.frame /\ b.pos = parser.pos + 1
        BY <2>1, <4>1, <4>3 DEF Adjacent
      <4>5. QED BY <3>1, <4>2, <4>4 DEF Continues
    <3>2. CASE parser.state = "idle"
      <4>1. Cursor.pos = FrameLen /\ Cursor.frame.number = handled
        BY <3>2, <1>6 DEF Cursor
      <4>2. b.frame.number = handled + 1 /\ b.pos = 1
        BY <2>1, <4>1 DEF Adjacent
      <4>3. QED BY <3>2, <4>2 DEF Continues
    <3>3. QED BY <2>2, <3>1, <3>2
  <2>4. ParseInside \/ ParseLast
    BY <2>3 DEF ParseDamaged, b
  <2>5. /\ ParseInside => /\ parser' = [state |-> "inside", frame |-> b.frame, pos |-> b.pos]
                          /\ b.pos < FrameLen /\ ~ParseLast
        /\ ParseLast => parser'.state = "idle" /\ thread'.frame.number = b.frame.number
    BY <1>1, <1>3 DEF ParseInside, ParseLast, IdleParser, b
  <2>6. ParserIsInStep'
    BY <1>1, <2>3, <2>4, <2>5 DEF ParserIsInStep
  <2>7. /\ Cursor'.frame.number = b.frame.number /\ Cursor'.pos = b.pos
        /\ b.pos # FrameLen => Cursor'.frame = b.frame
    <3>1. CASE ParseInside
      BY <2>5, <3>1 DEF Cursor
    <3>2. CASE ParseLast
      BY <2>5, <3>2, <1>6, <1>7 DEF Cursor
    <3>3. QED BY <2>4, <3>1, <3>2
  <2>8. CASE t = <<>>
    <3>1. Len(s) = 1
      <4>1. Len(t) = 0
        BY <2>8
      <4>2. QED BY <4>1, <1>2, <1>3
    <3>2. LastSent(b)
      BY <2>1, <3>1, <1>2
    <3>3. LastSent(Cursor)'
      BY <3>2, <2>7, <1>1 DEF LastSent
    <3>4. QED BY <2>6, <2>8, <3>3 DEF StreamIsWhole, t
  <2>9. CASE t # <<>>
    <3>1. Len(t) \in Nat /\ Len(t) >= 1
      <4>1. Len(t) # 0 /\ Len(t) \in Nat
        BY <2>9, <1>2, EmptySeq, LenProperties
      <4>2. QED BY <4>1
    <3>2. 1 \in 1..(Len(s) - 1) /\ 1 \in 1..Len(t) /\ Len(t) \in 1..Len(t) /\ Len(t) + 1 = Len(s)
      BY <3>1, <1>2, <1>3
    <3>3. Adjacent(Cursor', t[1])
      <4>1. Adjacent(b, t[1])
        <5>1. t[1] = s[1 + 1]
          BY <3>2, <1>2
        <5>2. QED BY <5>1, <3>2, <2>1, <1>2
      <4>2. QED BY <4>1, <2>7 DEF Adjacent
    <3>4. t[Len(t)].frame.number = sent' /\ t[Len(t)].pos = FrameLen
      <4>1. t[Len(t)] = s[Len(s)]
        BY <3>2, <1>2
      <4>2. QED BY <4>1, <2>1, <1>1 DEF LastSent
    <3>5. ASSUME NEW i \in 1..(Len(t) - 1) PROVE Adjacent(t[i], t[i + 1])
      <4>1. i \in 1..Len(t) /\ i + 1 \in 1..Len(t) /\ i + 1 \in 1..(Len(s) - 1)
        BY <3>1, <3>2, <1>3
      <4>2. Adjacent(s[i + 1], s[(i + 1) + 1])
        BY <4>1, <2>1
      <4>3. QED BY <4>1, <4>2, <1>2
    <3>6. StreamIsWhole'
      BY <2>9, <3>3, <3>4, <3>5 DEF StreamIsWhole, Adjacent, LastSent, t
    <3>7. QED BY <2>6, <3>6
  <2>10. QED BY <2>8, <2>9
<1>15. QED BY <1>1, <1>9, <1>13, <1>14 DEF OrderInv

\* The frame that the parser has given away gets its turn.
LEMMA OrderLookup ==
    ASSUME TypeOK, OrderInv, LookupFound \/ LookupMissing
    PROVE  /\ OrderInv'
           /\ handled' > handled /\ (overrun \/ handled' = handled + 1)
<1>1. /\ thread.pc = "lookup" /\ handled' = thread.frame.number
      /\ thread'.pc \in {"handler", "answer"}
      /\ UNCHANGED <<sent, line, overrun, ring, parser>>
  BY DEF LookupFound, LookupMissing, Answer, ThreadGoto, TypeOK, ThreadState
<1>2. Stream' = Stream
  BY <1>1 DEF Stream, Current
<1>3. Done' = Done /\ Cursor' = Cursor
  BY <1>1 DEF Done, Cursor
<1>4. StreamIsAhead' /\ StreamIsOrdered'
  BY <1>1, <1>2, <1>3 DEF OrderInv, StreamIsAhead, StreamIsOrdered, SentBefore
<1>5. ~overrun => ParserIsInStep' /\ StreamIsWhole'
  <2>1. ~overrun => StreamIsWhole'
    BY <1>1, <1>2, <1>3 DEF OrderInv, StreamIsWhole, Adjacent, LastSent
  <2>2. ~overrun => ParserIsInStep'
    BY <1>1 DEF OrderInv, ParserIsInStep
  <2>3. QED BY <2>1, <2>2
<1>6. Done' <= sent'
  BY <1>1, <1>3 DEF OrderInv
<1>7. handled < thread.frame.number /\ (~overrun => thread.frame.number = handled + 1)
  BY <1>1 DEF OrderInv, ParserIsInStep
<1>8. handled \in Nat /\ thread.frame.number \in Nat
  BY StreamType
<1>9. QED BY <1>1, <1>4, <1>5, <1>6, <1>7, <1>8 DEF OrderInv

\* The other steps of the thread move no byte but the one that goes from the
\* ring to the thread.
LEMMA OrderThread ==
    ASSUME TypeOK, OrderInv, ThreadStep
    PROVE  OrderInv' /\ handled' = handled
<1> USE DEF BackToRing, ThreadGoto, TypeOK, ThreadState
<1>1. ASSUME UNCHANGED <<sent, line, overrun, ring, parser, handled>>,
             thread.pc # "lookup", thread'.pc # "lookup", Current' = Current
      PROVE  OrderInv' /\ handled' = handled
  <2>1. Stream' = Stream
    BY <1>1 DEF Stream
  <2>2. QED BY <1>1, <2>1, OrderKept
<1>2. CASE TakeSem
  <2>1. Current' = Current
    BY <1>2 DEF TakeSem, Current
  <2>2. QED BY <1>1, <1>2, <2>1 DEF TakeSem
<1>3. CASE RingGet
  <2>1. /\ UNCHANGED <<sent, overrun, parser, handled>>
        /\ thread.pc # "lookup" /\ thread'.pc # "lookup"
    BY <1>3 DEF RingGet
  <2>2. QED BY <1>3, <2>1, GetKeepsStream, OrderKept
<1>4. CASE RingEmpty
  <2>1. Current' = Current
    BY <1>4 DEF RingEmpty, Current
  <2>2. QED BY <1>1, <1>4, <2>1 DEF RingEmpty
<1>5. CASE Echo
  <2>1. Current' = Current
    BY <1>5 DEF Echo, Current
  <2>2. QED BY <1>1, <1>5, <2>1 DEF Echo
<1>6. CASE ParseInside \/ ParseLast \/ \E s \in {"idle", "lost"} : ParseDamaged(s)
  BY <1>6, OrderParse DEF ParseInside, ParseLast, ParseDamaged
<1>7. CASE HandlerAnswers
  <2>1. Current' = Current
    BY <1>7 DEF HandlerAnswers, Answer, Current
  <2>2. QED BY <1>1, <1>7, <2>1 DEF HandlerAnswers, Answer
<1>8. CASE HandlerReturns
  <2>1. Current' = Current
    BY <1>8 DEF HandlerReturns, Current
  <2>2. QED BY <1>1, <1>8, <2>1 DEF HandlerReturns
<1>9. CASE Answered
  <2>1. Current' = Current
    BY <1>9 DEF Answered, Current
  <2>2. QED BY <1>1, <1>9, <2>1 DEF Answered
<1>10. QED
  BY <1>2, <1>3, <1>4, <1>5, <1>6, <1>7, <1>8, <1>9 DEF ThreadStep

LEMMA OrderStep ==
    TypeOK /\ OrderInv /\ [Next]_vars
      => /\ OrderInv'
         /\ handled' # handled =>
              handled' > handled /\ (overrun \/ handled' = handled + 1)
<1> DEFINE Goal == /\ OrderInv'
                   /\ handled' # handled =>
                        handled' > handled /\ (overrun \/ handled' = handled + 1)
<1> SUFFICES ASSUME TypeOK, OrderInv, [Next]_vars PROVE Goal
  OBVIOUS
<1>1. ASSUME UNCHANGED <<sent, line, overrun, ring, thread, parser, handled>> PROVE Goal
  BY <1>1, OrderUntouched
<1>2. ASSUME NEW c \in Cmd, Arrive(c) PROVE Goal
  BY <1>2, OrderArrive DEF Arrive
<1>3. ASSUME NEW n \in 1..IrqReadSize, IrqCallback(n) PROVE Goal
  BY <1>3, OrderIrq DEF IrqCallback
<1>4. CASE ThreadStep
  BY <1>4, OrderThread
<1>5. CASE LookupFound \/ LookupMissing
  BY <1>5, OrderLookup
<1>6. ASSUME NEW c \in Caller, Send(c) PROVE Goal
  BY <1>1, <1>6 DEF Send
<1>7. ASSUME NEW p \in Sender, TxStep(p) PROVE Goal
  BY <1>1, <1>7 DEF TxStep, LockTx, PollOut, UnlockTx
<1>8. ASSUME NEW c \in Caller,
             \/ \E t \in Table \cup {<<>>} : StoreEntries(c, t)
             \/ StoreCount(c)
      PROVE  Goal
  BY <1>1, <1>8 DEF StoreEntries, StoreCount
<1>9. CASE UNCHANGED vars
  BY <1>1, <1>9 DEF vars
<1>10. QED
  BY <1>2, <1>3, <1>4, <1>5, <1>6, <1>7, <1>8, <1>9 DEF Next

LEMMA InitOrderInv == Init => OrderInv
<1> SUFFICES ASSUME Init PROVE OrderInv
  OBVIOUS
<1>1. Current = <<>> /\ ring = <<>> /\ line = <<>> /\ thread.pc = "take"
  BY DEF Init, Current
<1>2. Stream = <<>>
  <2>1. <<>> \in Seq(RxByte)
    OBVIOUS
  <2>2. <<>> \o <<>> = <<>>
    BY <2>1, ConcatEmptySeq
  <2>3. QED BY <1>1, <2>2 DEF Stream
<1>3. Len(Stream) = 0
  BY <1>2
<1>4. Done = 0 /\ sent = 0 /\ handled = 0
  BY <1>1 DEF Done, Init
<1>5. parser.state = "idle"
  BY DEF Init, IdleParser
<1>6. LastSent(Cursor)
  BY <1>4, <1>5 DEF LastSent, Cursor
<1>7. StreamIsAhead /\ StreamIsOrdered
  BY <1>3 DEF StreamIsAhead, StreamIsOrdered
<1>8. ParserIsInStep /\ StreamIsWhole
  BY <1>1, <1>2, <1>5, <1>6 DEF ParserIsInStep, StreamIsWhole
<1>9. QED BY <1>1, <1>4, <1>7, <1>8 DEF OrderInv

\* No frame is handled twice or after a later one, and without an overflow of
\* the ring none is left out: whatever the portions are in which the interrupt
\* reads, however long the thread is busy with a frame, and whoever replaces
\* the table meanwhile.
THEOREM FramesAreTakenInTurn == Spec => FramesAreHandledInOrder
<1>1. TypeOK /\ OrderInv /\ [Next]_vars
        => [handled' # handled =>
              handled' > handled /\ (overrun \/ handled' = handled + 1)]_vars
  BY OrderStep
<1>2. QED
  BY <1>1, InitTypeOK, NextTypeOK, InitOrderInv, OrderStep, PTL
     DEF Spec, FramesAreHandledInOrder
=============================================================================
