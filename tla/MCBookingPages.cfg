CONSTANTS
    User = {u1}
    Workspace = {w1}
    Null = Null
    Request = {r1}
    Visitor = {v1}
    CancelWindow = 4
    CancelBlock = 2
    MaxDuration = 2
    MaxAhead = 2
    MaxBookings = 2
    MaxTime = 1
    Day = 2
    Limit = {2}
    Interval <- PageIntervals
    AdminFilter <- PageFilters
SPECIFICATION PagesSpec
INVARIANTS PageTypeOK OverdueShownIsRace FreeSeatStaysFree
