\* Any byte of any frame may be hit by a fault, and a second one may follow.
SPECIFICATION LineSpec
CONSTANTS
    MaxPayload = 3
    Crc <- Crc16
    Message <- MCMessage
    Noise <- MCNoise
    MaxFrames = 3
    MaxFaults = 2
    Resync = 1
INVARIANTS
    TypeOK
    DispatchedFramesWereReceived
    ChecksumIsTheRemainder
PROPERTIES
    
    IntactFramesAreDispatched
    ParserResynchronises
CHECK_DEADLOCK FALSE
