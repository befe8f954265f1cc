\* A crash between the end of a game and setCurrentGame.
SPECIFICATION FairSpec
CONSTANTS
    blue = blue
    red = red
    s1 = s1
    s2 = s2
    Player = {blue, red}
    Socket = {s1, s2}
    NumGames = 2
    MaxSaves = 1
    MaxCrashes = 1
    MaxFailures = 0
PROPERTIES
    MovesOn
