\* One application thread beside the protocol thread, a request with and one
\* without an entry in the table; the ring may overflow.
SPECIFICATION FairSpec
CONSTANTS
    Known = known
    Other = other
    Cmd <- MCCmd
    ResponseCmds = {other}
    Table <- MCTable
    Caller = {c1}
    Thread = thread0
    NoOne = noone
    RingSize = 4
    IrqReadSize = 2
    FrameLen = 3
    MaxSent = 2
INVARIANTS
    TypeOK
    NoLostWakeUp
    LookupsSeeAWholeTable
PROPERTIES
    MessagesAreContiguous
    FramesAreHandled
    SendsReturn
    FramesAreHandledInOrder
