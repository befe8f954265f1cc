\* Two attacks, two calls that fail, two crashes; a tick is a third of a second.
SPECIFICATION FairSpec
CONSTANTS
    NumRounds = 5
    Attacked = {1, 3}
    None = None
    Delay = 3
    CliTimeout = 3
    MaxCalls = 1
    MaxFailures = 2
    MaxCrashes = 2
INVARIANTS
    UnmuteAhead
    FakeOverSilence
    MutedAsScheduled
    IndInv
PROPERTIES
    MutedIsHeard
CHECK_DEADLOCK FALSE
