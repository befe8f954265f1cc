\* A restart after a saved answer.
SPECIFICATION Spec
CONSTANTS
    Player = {blue, red}
    NumRounds = 2
    Option = {a}
    Undefined = Undefined
    NoTimer = NoTimer
    MaxSaves = 1
    MaxCrashes = 1
PROPERTIES
    RestartKeepsAnswers
