---------------------------- MODULE MCBookingPages ----------------------------
EXTENDS BookingPages, TLC

Slot(s, e) == [start |-> s, end |-> e]

\* Two slots that touch and the interval that spans them.
PageIntervals == {Slot(0, 1), Slot(1, 2), Slot(0, 2)}

\* Everything, what is active, one user on one place, and a period.
PageFilters ==
    LET all == [status |-> Null, user |-> Null, workspace |-> Null, from |-> Null, to |-> Null]
    IN {all,
        [all EXCEPT !.status = "CONFIRMED"],
        [all EXCEPT !.user = CHOOSE u \in User : TRUE, !.workspace = CHOOSE w \in Workspace : TRUE],
        [all EXCEPT !.from = 1, !.to = 2]}
=============================================================================
