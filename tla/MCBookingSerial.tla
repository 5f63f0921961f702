--------------------------- MODULE MCBookingSerial ---------------------------
EXTENDS BookingSafety, TLC

Hours(s, e) == [start |-> s, end |-> e]

\* One interval overlaps two that touch each other; one is empty.
SerialIntervals == {Hours(0, 2), Hours(1, 3), Hours(2, 3), Hours(1, 1)}

UserWorkspaceSymmetry == Permutations(User) \cup Permutations(Workspace)
=============================================================================
