CONSTANTS
    User = {u1}
    Workspace = {w1}
    Null = Null
    Request = {r1}
    CancelWindow = 4
    CancelBlock = 2
    MaxDuration = 1
    MaxAhead = 1
    MaxBookings = 1
    MaxTime = 2
    Limit = {2}
    Interval <- CompletionIntervals
SPECIFICATION FairSpec
PROPERTIES PeriodicSweep
