CONSTANTS
    User = {u1, u2}
    Workspace = {w1, w2}
    Null = Null
    Request = {r1}
    CancelWindow = 4
    CancelBlock = 2
    MaxDuration = 2
    MaxAhead = 1
    MaxBookings = 2
    MaxTime = 2
    Limit = {1, 2}
    Interval <- SerialIntervals
SYMMETRY UserWorkspaceSymmetry
SPECIFICATION Spec
INVARIANTS NoDoubleBooking NoUserOverlap
PROPERTIES LimitHolds NoDisabledBooked NoActiveErased StatusIsFinal
