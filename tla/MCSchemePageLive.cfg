CONSTANTS
    w1 = w1
    w2 = w2
    c1 = c1
    c2 = c2
    Empty = Empty
    Bad = Bad
    None = None
    DayLength = 7
    Default = 2
    MaxMinutes = 4
    Durations = {1, 2, 4}
    Coworking = {c1, c2}
    Workspace = {w1, w2}
    CoworkingOf <- TwoCoworkings
    First = c1
    Links <- PlainLinks
    Call = {k1, k2}
    Start = {1, 5, Empty}
    End = {1, 4, Empty}
    OpenAt = 1
    Others <- OthersBook
    MaxMoves = 2
SPECIFICATION FairSpec
PROPERTIES CatchesUp
