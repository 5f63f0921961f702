--------------------------- MODULE BookingSafety ---------------------------
(***************************************************************************)
(* What the booking handlers guarantee: when several requests are in       *)
(* progress, when only one is, and what they do not.                       *)
(***************************************************************************)
EXTENDS BookingService

Overlapping(a, b) == Overlaps(a, bookings[b].start, bookings[b].end)

SamePlace(a, b) == bookings[a].workspace = bookings[b].workspace

SameUser(a, b) == bookings[a].user = bookings[b].user

Gone(i) == i \in Rows \ DOMAIN bookings'

-----------------------------------------------------------------------------
(* However many requests are in progress *)

\* Two overlapping bookings of one workspace arise in one way only: the row of
\* the earlier was inserted after the later one's request had run HasConflict.
DoubleBookingIsRace ==
    \A a, b \in Rows :
        /\ a < b /\ SamePlace(a, b) /\ Overlapping(a, b)
        /\ Confirmed(a) /\ Confirmed(b)
        => a >= saw[b].place

\* The same for the bookings of one user and HasUserConflict.
UserOverlapIsRace ==
    \A a, b \in Rows :
        /\ a < b /\ SameUser(a, b) /\ Overlapping(a, b)
        /\ Confirmed(a) /\ Confirmed(b)
        => a >= saw[b].person

\* Of the rows a create request could count, those that are active now are
\* fewer than the limit it had read: only rows inserted between its count and
\* its own insert take a user over the limit.
CountedBelowLimit ==
    \A b \in Rows :
        Cardinality({a \in ActiveOf(bookings[b].user, now) : a < saw[b].count}) < saw[b].limit

\* What a create request has checked still holds of the rows it could see: a
\* concurrent step may add a conflicting row above the mark, never below it.
RequestSaw ==
    \A r \in Request :
        LET c == req[r] IN
        /\ c.pc \in {"settings", "count", "userconflict", "insert"} =>
               /\ c.saw.place <= nextId
               /\ \A a \in Rows : /\ a < c.saw.place
                                  /\ bookings[a].workspace = c.workspace /\ Confirmed(a)
                                  => ~Overlaps(a, c.start, c.end)
        /\ c.pc = "count" => c.at <= now
        /\ c.pc \in {"userconflict", "insert"} =>
               /\ c.saw.count <= nextId
               /\ Cardinality({a \in ActiveOf(c.user, now) : a < c.saw.count}) < c.saw.limit
        /\ c.pc = "insert" =>
               /\ c.saw.person <= nextId
               /\ \A a \in Rows : /\ a < c.saw.person
                                  /\ bookings[a].user = c.user /\ Confirmed(a)
                                  => ~Overlaps(a, c.start, c.end)

\* The time of cancellation is never ahead of the clock, an open booking has
\* none, and a cancellation by the user, which the throttle looks back on,
\* always has one.
CancellationTimed ==
    \A i \in Rows :
        /\ bookings[i].cancelledAt # Null => bookings[i].cancelledAt <= now
        /\ Confirmed(i) => bookings[i].cancelledAt = Null
        /\ bookings[i].status = "CANCELLED_BY_USER" => bookings[i].cancelledAt # Null

\* A booking that is closed is left alone by everybody, sweeps and cancellations
\* under way included, but for one step: UpdateStatus of a form that had read the
\* row as CONFIRMED, before it was closed.  It writes nothing but the status.
RewrittenIsRace ==
    [][\A i \in Rows : ~Confirmed(i) /\ ~Gone(i) /\ bookings'[i] # bookings[i] =>
           \E r \in Request :
               /\ At(r, "statusUpdate")
               /\ req[r].booking = i
               /\ req[r].found = "CONFIRMED"
               /\ req[r].target \in {"COMPLETED", "CANCELLED_BY_ADMIN"}
               /\ bookings'[i] = [bookings[i] EXCEPT !.status = req[r].target]]_vars

\* Deleting a workspace takes an active booking with it only if the booking
\* was inserted after WorkspaceRepo.Delete had looked for one.
ErasedIsRace ==
    [][\A i \in Rows : Gone(i) /\ i \in ActiveOf(bookings[i].user, now) =>
           \E r \in Request : At(r, "deleteRow") /\ i >= req[r].place]_vars

\* The handlers implement the promises of BookingLedger: CONFIRMED is open.  A place
\* is a workspace that exists: a booking is made and erased with it, though its
\* INSERT comes statements after FindWorkspace and a deletion may run in between.
Ledger == INSTANCE BookingLedger WITH
    Holder <- User,
    Place  <- Workspace,
    fresh  <- nextId,
    places <- DOMAIN available,
    ledger <- [i \in Rows |-> [holder |-> bookings[i].user,
                               place  |-> bookings[i].workspace,
                               start  |-> bookings[i].start,
                               end    |-> bookings[i].end,
                               state  |-> IF Confirmed(i) THEN "open" ELSE "closed"]]

KeepsLedger == Ledger!Spec

-----------------------------------------------------------------------------
(* With one request at a time *)

\* full_description rule 2: no workspace is booked twice for one moment.
NoDoubleBooking ==
    \A a, b \in Rows :
        a # b /\ SamePlace(a, b) /\ Confirmed(a) /\ Confirmed(b) => ~Overlapping(a, b)

\* Nobody has two bookings for one moment.
NoUserOverlap ==
    \A a, b \in Rows :
        a # b /\ SameUser(a, b) /\ Confirmed(a) /\ Confirmed(b) => ~Overlapping(a, b)

\* A new booking never takes its user over the limit in force.
LimitHolds ==
    [][\A u \in User :
           (\E i \in DOMAIN bookings' \ Rows : bookings'[i].user = u)
           => CountActiveByUser(u, now)' <= maxActive]_vars

\* A new booking is never for a workspace that is disabled or gone.
NoDisabledBooked ==
    [][\A i \in DOMAIN bookings' \ Rows :
           LET w == bookings'[i].workspace IN w \in DOMAIN available /\ available[w]]_vars

\* Deleting a workspace never takes an active booking with it.
NoActiveErased ==
    [][\A i \in Rows : Gone(i) => i \notin ActiveOf(bookings[i].user, now)]_vars

\* A booking that is completed or cancelled keeps its status for ever.
StatusIsFinal ==
    [][\A i \in Rows \cap DOMAIN bookings' :
           Confirmed(i) \/ bookings'[i].status = bookings[i].status]_vars

-----------------------------------------------------------------------------
(* The cancellation throttle *)

CancelledByUser(u) == {i \in Rows : bookings[i].user = u /\ bookings[i].status = "CANCELLED_BY_USER"}

\* The fourth of any four cancellations by a user comes at least CancelBlock
\* after the first.  Every request in progress next to it lets one more through:
\* all of them may have passed CooldownUntil before the third was written.
FourthWaits ==
    \A u \in User : \A S \in kSubset(3 + Cardinality(Request), CancelledByUser(u)) :
        LET times == {bookings[i].cancelledAt : i \in S}
        IN  Max(times) - Min(times) >= CancelBlock

\* One request at a time: a user told to wait until a moment waits until that
\* moment, unless the workspace of a cancelled booking is deleted.
BlockIsSteady ==
    [][\A u \in User :
           /\ InCooldown(u, now)
           /\ now' < CooldownUntil(u, now)
           /\ ~(\E i \in Rows : Gone(i))
           => CooldownUntil(u, now)' = CooldownUntil(u, now)]_vars

\* Only a cancellation blocks: neither the passing of time nor the removal of
\* a workspace with its cancellations ever starts a block.
BlockNeedsCancel ==
    [][\A u \in User : ~InCooldown(u, now) /\ InCooldown(u, now)' =>
           \E i \in Rows \cap DOMAIN bookings' :
               bookings[i].user = u /\ Confirmed(i) /\ bookings'[i].status = "CANCELLED_BY_USER"]_vars

\* 01_schema.sql on the throttle: three cancellations within 24 hours block
\* the user for 12 hours.
ThrottleBlocks ==
    \A u \in User : \A S \in kSubset(3, CancelledByUser(u)) :
        LET times == {bookings[i].cancelledAt : i \in S}
        IN  /\ Max(times) - Min(times) <= CancelWindow
            /\ now < Max(times) + CancelBlock
            => InCooldown(u, now)

-----------------------------------------------------------------------------
(* Completion of past bookings *)

Overdue(i) == i \in Rows /\ Confirmed(i) /\ bookings[i].end <= now

\* If pages that complete past bookings are loaded for ever, a booking that is
\* over does not stay CONFIRMED.
OverdueIsSwept ==
    (\E r \in Request : []<><<Sweep(r)>>_vars)
    => \A i \in 1 .. MaxBookings : Overdue(i) ~> ~Overdue(i)

\* MarkPastCompleted's comment: it is called "as a periodic sweep on the
\* server", so a booking that is over is completed without anyone's visit.
PeriodicSweep == \A i \in 1 .. MaxBookings : Overdue(i) ~> ~Overdue(i)
=============================================================================
