-------------------------- MODULE MCBookingThrottle --------------------------
EXTENDS BookingSafety, TLC

\* One interval still ahead whenever the clock stops.
ThrottleIntervals == {[start |-> 5, end |-> 6]}

RequestSymmetry == Permutations(Request)

\* The users alone, several requests at a time: no administrator acts.
UserNext ==
    \/ \E r \in Request :
          \/ \E u \in User, w \in Workspace, iv \in Interval : BeginCreate(r, u, w, iv)
          \/ \E u \in User, id \in KnownId : BeginCancel(r, u, id)
          \/ CreateStep(r)
          \/ CancelStep(r)
          \/ Abort(r)
    \/ Tick

UserSpec == Init /\ [][UserNext]_vars
=============================================================================
