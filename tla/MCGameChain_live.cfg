\* No crash, no failure: two sockets for the players, one left behind.
SPECIFICATION FairSpec
CONSTANTS
    blue = blue
    red = red
    s1 = s1
    s2 = s2
    s3 = s3
    Player = {blue, red}
    Socket = {s1, s2, s3}
    NumGames = 3
    MaxSaves = 1
    MaxCrashes = 0
    MaxFailures = 0
INVARIANTS
    OneGamePlayed
    ReadyIsConnected
    PlayedInOrder
PROPERTIES
    PointerForward
    MovesOn
    ImplementsTurns
