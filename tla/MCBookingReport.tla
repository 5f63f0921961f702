--------------------------- MODULE MCBookingReport ---------------------------
EXTENDS BookingReport, TLC

Slot(s, e) == [start |-> s, end |-> e]

\* On two days.
ReportIntervals == {Slot(0, 1), Slot(1, 2)}

\* Both days, and none.
ReportPeriods == {[from |-> 0, to |-> 2], [from |-> 1, to |-> 1]}

\* Every workspace has the name of the other, in another coworking.
OneName == [w \in Workspace |-> CHOOSE p \in Place : TRUE]

\* Every workspace has a name of its own: Place = Workspace.
OwnName == [w \in Workspace |-> w]

\* Of the handlers, those that make, close and erase bookings: no workspace is
\* disabled and no setting changed.
WriterNext ==
    \/ \E r \in Request :
          \/ \E u \in User, w \in Workspace, iv \in Interval : BeginCreate(r, u, w, iv)
          \/ \E id \in KnownId, target \in Status : BeginStatus(r, id, target)
          \/ \E w \in Workspace : BeginDelete(r, w)
          \/ \E id \in KnownId : AdminCancel(r, id)
          \/ BeginVisit(r)
          \/ Proceed(r)
    \/ Tick

CountedNext ==
    \/ WriterNext /\ UNCHANGED report
    \/ \E p \in Period : OpenReport(p)
    \/ ReportStep

CountedInit == ReportInit /\ available = [w \in Workspace |-> TRUE]

CountedSpec == CountedInit /\ [][CountedNext]_reportVars

ReportSymmetry == Permutations(User) \cup Permutations(Workspace)
=============================================================================
