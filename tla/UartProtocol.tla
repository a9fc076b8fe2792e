---------------------------- MODULE UartProtocol -----------------------------
(***************************************************************************)
(* The UART protocol device (drivers/uart_protocol/uart_protocol.c): the   *)
(* receive interrupt fills a ring, the protocol thread empties it byte by  *)
(* byte, dispatches the frames it recognises through the command table and *)
(* answers those it has no entry for; application threads send and replace *)
(* the table.  The interrupt takes no lock; one mutex protects the table,  *)
(* another one the transmitter.                                            *)
(*                                                                         *)
(* A byte on the line stands for its place in a frame; the parser is       *)
(* UartParser seen from outside: it hands over a frame that arrives whole, *)
(* nothing else, and how long a damaged one keeps it busy is left open.    *)
(* Left out: argument checks and logging.                                  *)
(***************************************************************************)
EXTENDS Naturals, Sequences, FiniteSets

CONSTANTS
    Cmd,          \* commands of received frames
    ResponseCmds, \* those that carry UART_PROTOCOL_RSP_FLAG
    Table,        \* command tables an application may register: the commands
                  \* with a handler, in order
    Caller,       \* application threads, each for one that sends and one that
                  \* changes the table
    Thread,       \* the protocol thread
    NoOne,        \* the holder of a free mutex
    RingSize,     \* rx-ring-size of the devicetree
    IrqReadSize,  \* UART_PROTOCOL_IRQ_READ_SIZE
    FrameLen,     \* bytes of a frame
    MaxSent       \* bound: frames that arrive

ASSUME UartProtocolAssumption ==
    /\ ResponseCmds \subseteq Cmd
    /\ Table \subseteq Seq(Cmd)
    /\ Thread \notin Caller
    /\ NoOne \notin Caller \cup {Thread}
    /\ RingSize \in Nat \ {0}
    /\ IrqReadSize \in Nat \ {0}
    /\ FrameLen \in Nat \ {0, 1}
    /\ MaxSent \in Nat \ {0}
    /\ Cmd # {}

Sender == Caller \cup {Thread}

VARIABLES
    echo_rx_raw,  \* echo-rx-raw of the devicetree; it never changes
    sent,         \* how many frames the other end has sent
    line,         \* their bytes that the interrupt has not read yet
    overrun,      \* the ring has overflowed
    ring, sem,    \* rx_ring, rx_sem
    thread,       \* where the protocol thread stands, its byte and its frame
    parser,       \* what the parser has of the frame on the line
    handled,      \* the last frame that went to its handler or was answered
    entries,      \* the command table, <<>> for NULL,
    entry_count,  \* and the number of its entries
    mutex,        \* who holds the mutex of the table
    writer,       \* what each application thread is storing there
    tx_mutex,     \* who holds the mutex of the transmitter
    sender,       \* where each sending thread stands
    out           \* the last byte sent

lineVars == <<echo_rx_raw, sent, line>>
ringVars == <<overrun, ring, sem>>
threadVars == <<thread, parser, handled>>
tableVars == <<entries, entry_count, mutex, writer>>
txVars == <<tx_mutex, sender, out>>
vars == <<lineVars, ringVars, threadVars, tableVars, txVars>>

RxFrame == [number : 1..MaxSent, cmd : Cmd]
RxByte == [frame : RxFrame, pos : 1..FrameLen]

\* pos bytes of frame have come when the parser is inside of it.
ParserState == [state : {"idle", "inside", "lost"}, frame : RxFrame, pos : 0..FrameLen]

NoFrame == [number |-> 1, cmd |-> CHOOSE c \in Cmd : TRUE]
NoByte == [frame |-> NoFrame, pos |-> 1]
IdleParser == [state |-> "idle", frame |-> NoFrame, pos |-> 0]

ThreadState == [pc : {"take", "get", "echo", "parse", "lookup", "handler", "answer"},
                byte : RxByte, frame : RxFrame]
WriterState == [busy : BOOLEAN, table : Table \cup {<<>>}]
IdleWriter == [busy |-> FALSE, table |-> <<>>]

SenderState == [pc : {"idle", "lock", "put", "unlock"}, pos : 1..FrameLen]
IdleSender == [pc |-> "idle", pos |-> 1]

TypeOK ==
    /\ echo_rx_raw \in BOOLEAN
    /\ sent \in 0..MaxSent
    /\ line \in Seq(RxByte)
    /\ overrun \in BOOLEAN
    /\ ring \in Seq(RxByte) /\ Len(ring) <= RingSize
    /\ sem \in 0..1
    /\ thread \in ThreadState
    /\ parser \in ParserState
    /\ handled \in 0..MaxSent
    /\ entries \in Table \cup {<<>>}
    /\ entry_count \in Nat
    /\ mutex \in Sender \cup {NoOne}
    /\ writer \in [Caller -> WriterState]
    /\ tx_mutex \in Sender \cup {NoOne}
    /\ sender \in [Sender -> SenderState]
    /\ out \in [from : Sender \cup {"echo"}, pos : 1..FrameLen]

\* uart_protocol_init: nothing has arrived, and the thread waits.
Init ==
    /\ echo_rx_raw \in BOOLEAN
    /\ sent = 0 /\ line = <<>>
    /\ overrun = FALSE /\ ring = <<>> /\ sem = 0
    /\ thread = [pc |-> "take", byte |-> NoByte, frame |-> NoFrame]
    /\ parser = IdleParser
    /\ handled = 0
    /\ entries = <<>> /\ entry_count = 0
    /\ mutex = NoOne /\ writer = [c \in Caller |-> IdleWriter]
    /\ tx_mutex = NoOne
    /\ sender = [p \in Sender |-> IdleSender]
    /\ out = [from |-> Thread, pos |-> FrameLen]

-----------------------------------------------------------------------------
(***************************************************************************)
(* The line and the interrupt.                                             *)
(***************************************************************************)

\* The other end sends a frame.
Arrive(c) ==
    LET f == [number |-> sent + 1, cmd |-> c] IN
    /\ sent < MaxSent
    /\ sent' = sent + 1
    /\ line' = line \o [k \in 1..FrameLen |-> [frame |-> f, pos |-> k]]
    /\ UNCHANGED <<echo_rx_raw, ringVars, threadVars, tableVars, txVars>>

\* Mutant of IrqCallback: the bytes are stored without a look at the room left.
IrqCallbackUnchecked(n) ==
    /\ n <= Len(line)
    /\ line' = SubSeq(line, n + 1, Len(line))
    /\ ring' = ring \o SubSeq(line, 1, n)
    /\ sem' = 1
    /\ UNCHANGED <<echo_rx_raw, sent, overrun, threadVars, tableVars, txVars>>

\* uart_protocol_irq_callback: n bytes are read from the controller and stored
\* as far as the ring has room; the semaphore counts to one.
IrqCallback(n) ==
    LET room == RingSize - Len(ring)
        put == IF n <= room THEN n ELSE room
    IN
    /\ n <= Len(line)
    /\ line' = SubSeq(line, n + 1, Len(line))
    /\ ring' = ring \o SubSeq(line, 1, put)
    /\ overrun' = (overrun \/ put < n)
    /\ sem' = 1
    /\ UNCHANGED <<echo_rx_raw, sent, threadVars, tableVars, txVars>>

-----------------------------------------------------------------------------
(***************************************************************************)
(* The protocol thread: uart_protocol_thread_entry, uart_protocol_parse_   *)
(* byte and uart_protocol_dispatch_frame.                                  *)
(***************************************************************************)
ThreadGoto(l) == thread' = [thread EXCEPT !.pc = l]

\* Mutant of BackToRing: the thread waits after every byte.
BackToSemaphore == ThreadGoto("take")

\* The thread goes on with the next byte of the ring.
BackToRing == ThreadGoto("get")

TakeSem ==
    /\ thread.pc = "take"
    /\ sem = 1
    /\ sem' = 0
    /\ BackToRing
    /\ UNCHANGED <<lineVars, overrun, ring, parser, handled, tableVars, txVars>>

RingGet ==
    /\ thread.pc = "get"
    /\ ring # <<>>
    /\ thread' = [thread EXCEPT !.pc = IF echo_rx_raw THEN "echo" ELSE "parse",
                                !.byte = Head(ring)]
    /\ ring' = Tail(ring)
    /\ UNCHANGED <<lineVars, overrun, sem, parser, handled, tableVars, txVars>>

RingEmpty ==
    /\ thread.pc = "get"
    /\ ring = <<>>
    /\ ThreadGoto("take")
    /\ UNCHANGED <<lineVars, ringVars, parser, handled, tableVars, txVars>>

\* The byte is echoed without the mutex of the transmitter.
Echo ==
    /\ thread.pc = "echo"
    /\ out' = [from |-> "echo", pos |-> 1]
    /\ ThreadGoto("parse")
    /\ UNCHANGED <<lineVars, ringVars, parser, handled, tableVars, tx_mutex, sender>>

\* The byte is the one that the parser has to see next in an undamaged frame.
Continues(b) ==
    \/ parser.state = "idle" /\ b.pos = 1
    \/ parser.state = "inside" /\ b.frame = parser.frame /\ b.pos = parser.pos + 1

ParseInside ==
    /\ thread.pc = "parse"
    /\ Continues(thread.byte)
    /\ thread.byte.pos < FrameLen
    /\ parser' = [state |-> "inside", frame |-> thread.byte.frame, pos |-> thread.byte.pos]
    /\ BackToRing
    /\ UNCHANGED <<lineVars, ringVars, handled, tableVars, txVars>>

\* The last byte: the checksum is right and the frame is dispatched.
ParseLast ==
    /\ thread.pc = "parse"
    /\ Continues(thread.byte)
    /\ thread.byte.pos = FrameLen
    /\ parser' = IdleParser
    /\ thread' = [thread EXCEPT !.pc = "lookup", !.frame = thread.byte.frame]
    /\ UNCHANGED <<lineVars, ringVars, handled, tableVars, txVars>>

\* A byte is missing: what the parser has is not a frame.  It notices at once
\* or later, and ignores a byte or takes it for the start of a frame.
ParseDamaged(s) ==
    /\ thread.pc = "parse"
    /\ ~Continues(thread.byte)
    /\ parser' = [IdleParser EXCEPT !.state = s]
    /\ BackToRing
    /\ UNCHANGED <<lineVars, ringVars, handled, tableVars, txVars>>

\* uart_protocol_find_entry
HasEntry(c) == \E i \in 1..entry_count : entries[i] = c

LookupFound ==
    /\ thread.pc = "lookup"
    /\ mutex = NoOne
    /\ HasEntry(thread.frame.cmd)
    /\ ThreadGoto("handler")
    /\ handled' = thread.frame.number
    /\ UNCHANGED <<lineVars, ringVars, parser, tableVars, txVars>>

\* A response is sent through the same transmitter as everything else.
Answer ==
    /\ ThreadGoto("answer")
    /\ sender' = [sender EXCEPT ![Thread] = [pc |-> "lock", pos |-> 1]]
    /\ UNCHANGED <<tx_mutex, out>>

\* Mutant of LookupMissing: a frame without an entry is dropped.
LookupMissingUnanswered ==
    /\ thread.pc = "lookup"
    /\ mutex = NoOne
    /\ ~HasEntry(thread.frame.cmd)
    /\ BackToRing
    /\ UNCHANGED <<lineVars, ringVars, parser, handled, tableVars, txVars>>

\* Without an entry, the answer is -ENOENT.
LookupMissing ==
    /\ thread.pc = "lookup"
    /\ mutex = NoOne
    /\ ~HasEntry(thread.frame.cmd)
    /\ Answer
    /\ handled' = thread.frame.number
    /\ UNCHANGED <<lineVars, ringVars, parser, tableVars>>

\* The handler is called with the mutex released.  It answers a request with
\* uart_protocol_send_response,
HandlerAnswers ==
    /\ thread.pc = "handler"
    /\ thread.frame.cmd \notin ResponseCmds
    /\ Answer
    /\ UNCHANGED <<lineVars, ringVars, parser, handled, tableVars>>

\* or does not.
HandlerReturns ==
    /\ thread.pc = "handler"
    /\ BackToRing
    /\ UNCHANGED <<lineVars, ringVars, parser, handled, tableVars, txVars>>

Answered ==
    /\ thread.pc = "answer"
    /\ sender[Thread].pc = "idle"
    /\ BackToRing
    /\ UNCHANGED <<lineVars, ringVars, parser, handled, tableVars, txVars>>

-----------------------------------------------------------------------------
(***************************************************************************)
(* Sending: the loop of uart_protocol_send_frame and uart_protocol_send_   *)
(* raw, one byte after the other.                                          *)
(***************************************************************************)
Send(c) ==
    /\ sender[c].pc = "idle"
    /\ sender' = [sender EXCEPT ![c] = [pc |-> "lock", pos |-> 1]]
    /\ UNCHANGED <<lineVars, ringVars, threadVars, tableVars, tx_mutex, out>>

\* Mutant of LockTx: the mutex is not waited for.
LockTxAtOnce(p) ==
    /\ sender[p].pc = "lock"
    /\ tx_mutex' = p
    /\ sender' = [sender EXCEPT ![p].pc = "put"]
    /\ UNCHANGED <<lineVars, ringVars, threadVars, tableVars, out>>

LockTx(p) ==
    /\ sender[p].pc = "lock"
    /\ tx_mutex = NoOne
    /\ tx_mutex' = p
    /\ sender' = [sender EXCEPT ![p].pc = "put"]
    /\ UNCHANGED <<lineVars, ringVars, threadVars, tableVars, out>>

\* The loop goes on with the next byte, or ends.
AfterPollOut(s) ==
    IF s.pos = FrameLen THEN [pc |-> "unlock", pos |-> FrameLen]
                        ELSE [pc |-> "put", pos |-> s.pos + 1]

\* uart_poll_out
PollOut(p) ==
    /\ sender[p].pc = "put"
    /\ out' = [from |-> p, pos |-> sender[p].pos]
    /\ sender' = [sender EXCEPT ![p] = AfterPollOut(@)]
    /\ UNCHANGED <<lineVars, ringVars, threadVars, tableVars, tx_mutex>>

\* Mutant of UnlockTx: the call returns with the mutex locked.
UnlockTxForgotten(p) ==
    /\ sender[p].pc = "unlock"
    /\ sender' = [sender EXCEPT ![p] = IdleSender]
    /\ UNCHANGED <<lineVars, ringVars, threadVars, tableVars, tx_mutex, out>>

UnlockTx(p) ==
    /\ sender[p].pc = "unlock"
    /\ tx_mutex' = NoOne
    /\ sender' = [sender EXCEPT ![p] = IdleSender]
    /\ UNCHANGED <<lineVars, ringVars, threadVars, tableVars, out>>

-----------------------------------------------------------------------------
(***************************************************************************)
(* The command table: the two stores of uart_protocol_register_handlers    *)
(* and, with an empty table, of uart_protocol_clear_handlers.              *)
(***************************************************************************)

\* Mutant of StoreEntries: the mutex is not taken.
StoreEntriesUnlocked(c, t) ==
    /\ ~writer[c].busy
    /\ entries' = t
    /\ writer' = [writer EXCEPT ![c] = [busy |-> TRUE, table |-> t]]
    /\ UNCHANGED <<lineVars, ringVars, threadVars, entry_count, mutex, txVars>>

StoreEntries(c, t) ==
    /\ ~writer[c].busy
    /\ mutex = NoOne
    /\ mutex' = c
    /\ entries' = t
    /\ writer' = [writer EXCEPT ![c] = [busy |-> TRUE, table |-> t]]
    /\ UNCHANGED <<lineVars, ringVars, threadVars, entry_count, txVars>>

StoreCount(c) ==
    /\ writer[c].busy
    /\ entry_count' = Len(writer[c].table)
    /\ mutex' = NoOne
    /\ writer' = [writer EXCEPT ![c] = IdleWriter]
    /\ UNCHANGED <<lineVars, ringVars, threadVars, entries, txVars>>

-----------------------------------------------------------------------------
ThreadStep ==
    \/ TakeSem \/ RingGet \/ RingEmpty \/ Echo
    \/ ParseInside \/ ParseLast
    \/ \E s \in {"idle", "lost"} : ParseDamaged(s)
    \/ HandlerAnswers \/ HandlerReturns \/ Answered

TxStep(p) == LockTx(p) \/ PollOut(p) \/ UnlockTx(p)

Next ==
    \/ \E c \in Cmd : Arrive(c)
    \/ \E n \in 1..IrqReadSize : IrqCallback(n)
    \/ ThreadStep
    \/ LookupFound \/ LookupMissing
    \/ \E c \in Caller : Send(c)
    \/ \E p \in Sender : TxStep(p)
    \/ \E c \in Caller, t \in Table \cup {<<>>} : StoreEntries(c, t)
    \/ \E c \in Caller : StoreCount(c)

Spec == Init /\ [][Next]_vars

\* The controller interrupts while it has bytes; threads that can run do run;
\* a mutex is handed to a waiting thread, so that one that waits for it again
\* and again gets it; handlers return.  Nobody is bound to send anything, on
\* either end, or to change the table.
Fairness ==
    /\ WF_vars(\E n \in 1..IrqReadSize : IrqCallback(n))
    /\ WF_vars(ThreadStep)
    /\ SF_vars(LookupFound \/ LookupMissing)
    /\ \A p \in Sender : SF_vars(LockTx(p)) /\ WF_vars(PollOut(p) \/ UnlockTx(p))
    /\ \A c \in Caller : WF_vars(StoreCount(c))

FairSpec == Spec /\ Fairness

-----------------------------------------------------------------------------
(***************************************************************************)
(* Properties.                                                             *)
(***************************************************************************)

\* The thread never sleeps over bytes: although the interrupt may come between
\* its last look into the ring and its wait, and the semaphore does not count
\* beyond one, a byte in the ring of a waiting thread has given the semaphore.
NoLostWakeUp == thread.pc = "take" /\ ring # <<>> => sem = 1

\* The table is read only when its two fields belong together, whatever other
\* table is being registered: the search never runs beyond its end.
LookupsSeeAWholeTable ==
    thread.pc = "lookup" /\ mutex = NoOne => entry_count = Len(entries)

\* The byte b follows the byte a: in one message, or at the start of one after
\* the end of another.
Follows(a, b) ==
    \/ a.from = b.from /\ b.pos = a.pos + 1
    \/ a.pos = FrameLen /\ b.pos = 1

\* Frames and raw data leave the device in one piece, although application
\* threads and the protocol thread, which answers, share the transmitter.  It
\* holds when received bytes are not echoed: the echo does not take the mutex.
MessagesAreContiguous ==
    [][~echo_rx_raw /\ out' # out => Follows(out, out')]_vars

\* Frames go to their handlers, or are answered, in the order they were sent in
\* and once each; as long as the ring has not overflowed none is passed over,
\* whatever the table was when its turn came.
FramesAreHandledInOrder ==
    [][handled' # handled =>
         handled' > handled /\ (overrun \/ handled' = handled + 1)]_vars

\* Every frame that arrives goes to its handler or is answered, unless the
\* ring has overflowed.
FramesAreHandled == \A n \in 1..MaxSent : sent >= n ~> (handled >= n \/ overrun)

\* Every call that sends returns, whoever else sends.
SendsReturn == \A p \in Sender : sender[p].pc # "idle" ~> sender[p].pc = "idle"
=============================================================================
