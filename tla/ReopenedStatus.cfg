CONSTANTS
    User = {u1, u2}
    Workspace = {w1}
    Null = Null
    Request = {r1, r2}
    CancelWindow = 4
    CancelBlock = 2
    MaxDuration = 1
    MaxAhead = 1
    MaxBookings = 2
    MaxTime = 1
    Limit = {1}
    Interval <- RaceIntervals
SPECIFICATION Spec
PROPERTIES StatusIsFinal
