------------------------- MODULE MCBookingCompletion -------------------------
EXTENDS BookingSafety

\* One booking that is over early and one that is over when the clock stops.
CompletionIntervals == {[start |-> 0, end |-> 1], [start |-> 1, end |-> 2]}
=============================================================================
