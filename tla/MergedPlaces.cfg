CONSTANTS
    User = {u1}
    Workspace = {w1, w2}
    Place = {w1, w2}
    Null = Null
    Request = {r1}
    CancelWindow = 4
    CancelBlock = 2
    MaxDuration = 1
    MaxAhead = 1
    MaxBookings = 2
    MaxTime = 1
    Day = 1
    TopPlaces = 1
    TopUsers = 2
    Limit = {2}
    Interval <- ReportIntervals
    Period <- ReportPeriods
    PlaceOf <- OneName
SPECIFICATION CountedSpec
INVARIANTS PlacesCounted
