\* Three rounds, two answers, two crashes; silent clients; saves reordered and lost.
SPECIFICATION FairSpec
CONSTANTS
    Player = {blue, red}
    NumRounds = 3
    Option = {a, b}
    Undefined = Undefined
    NoTimer = NoTimer
    MaxSaves = 1
    MaxCrashes = 2
INVARIANTS
    TypeOK
    OnlyCurrentRoundOpen
    OneContinuation
    SavedNotAhead
    IndInv
PROPERTIES
    AnswersFinal
    RoundsInOrder
    StartKept
    ImplementsLifecycle
    StartedGameEnds
