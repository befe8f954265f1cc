\* A stream that is full for a moment.
SPECIFICATION FairSpec
CONSTANTS
    SeqNumber = {0}
    Length = {1}
    Null = Null
    HighWater = 2
    MaxPackets = 3
PROPERTY ParserEnds
CHECK_DEADLOCK FALSE
