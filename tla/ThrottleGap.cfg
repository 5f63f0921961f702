CONSTANTS
    User = {u1}
    Workspace = {w1}
    Null = Null
    Request = {r1}
    CancelWindow = 3
    CancelBlock = 2
    MaxDuration = 1
    MaxAhead = 5
    MaxBookings = 3
    MaxTime = 5
    Limit = {1}
    Interval <- ThrottleIntervals
SPECIFICATION Spec
INVARIANTS ThrottleBlocks
