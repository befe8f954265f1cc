\* Two packets of the network thread, one right after the other.
SPECIFICATION Spec
CONSTANTS
    User = {blue, red}
    Thread = {network}
    Heap = {}
    None = None
    MaxPackets = 2
INVARIANT RecordedAsSent
CHECK_DEADLOCK FALSE
