\* Three requests, two at once: Docker failures, a crash; two of them with a locked database and overlaps too.
SPECIFICATION Spec
CONSTANTS
    q1 = q1
    q2 = q2
    q3 = q3
    p1 = p1
    p2 = p2
    x = x
    y = y
    Request = {q1, q2, q3}
    Player = {p1, p2}
    Port = {x, y}
    Pair <- Pairs
    NumGames = 2
    Attacked = {2}
    None = None
    MaxActive = 2
    MaxDisturbed = 2
    MaxCrashes = 1
    Faults = {"db", "docker", "overlap"}
SYMMETRY Symmetry
INVARIANT TypeOK
INVARIANT RowsStayOwned
INVARIANT MemoryIsKept
INVARIANT SettledIsComplete
INVARIANT RejectedIsCleared
INVARIANT CalmInv
INVARIANT NeverStuck
PROPERTY RemovedIsGone
PROPERTY StepsAdvance
CHECK_DEADLOCK FALSE
