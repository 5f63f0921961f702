--------------------------- MODULE MCBookingRaces ---------------------------
EXTENDS BookingSafety, TLC

\* Two intervals that touch: each overlaps itself only.
RaceIntervals == {[start |-> 0, end |-> 1], [start |-> 1, end |-> 2]}

RaceSymmetry == Permutations(User) \cup Permutations(Workspace) \cup Permutations(Request)
=============================================================================
