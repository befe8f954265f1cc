\* The network thread alone, two users.
SPECIFICATION FairSpec
CONSTANTS
    User = {blue, red}
    Thread = {network}
    Heap = {}
    None = None
    MaxPackets = 4
INVARIANTS
    RecordsInOrder
    BytesNotOlder
    OneThreadInv
PROPERTIES
    HandledIsRecorded
CHECK_DEADLOCK FALSE
