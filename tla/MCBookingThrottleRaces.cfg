CONSTANTS
    User = {u1}
    Workspace = {w1}
    Null = Null
    Request = {r1, r2}
    CancelWindow = 3
    CancelBlock = 2
    MaxDuration = 1
    MaxAhead = 5
    MaxBookings = 5
    MaxTime = 2
    Limit = {2}
    Interval <- ThrottleIntervals
SYMMETRY RequestSymmetry
SPECIFICATION UserSpec
INVARIANTS FourthWaits
