\* Every width of a sequence number and of a length.
SPECIFICATION FairSpec
CONSTANTS
    SeqNumber <- Edges
    Length = {0, 1, 127, 128, 200}
    Null = Null
    HighWater = 2
    MaxPackets = 3
INVARIANTS
    DataFound
    ParserInv
PROPERTIES
    EndsUnlessFull
CHECK_DEADLOCK FALSE
