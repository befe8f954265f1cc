\* A crash; a query that fails.
SPECIFICATION Spec
CONSTANTS
    blue = blue
    red = red
    s1 = s1
    s2 = s2
    Player = {blue, red}
    Socket = {s1, s2}
    NumGames = 3
    MaxSaves = 1
    MaxCrashes = 1
    MaxFailures = 1
SYMMETRY Symmetry
INVARIANTS
    TypeOK
    NoGameSkipped
    ChainInv
