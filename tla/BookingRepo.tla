---------------------------- MODULE BookingRepo ----------------------------
(***************************************************************************)
(* The bookings table (db/init/01_schema.sql) and the SQL statements of    *)
(* internal/repo/bookings.go: a query is an operator, an UPDATE or an      *)
(* INSERT is the value of the table after it.  PostgreSQL runs each one    *)
(* atomically; the handlers that string them together without a            *)
(* transaction are in BookingService.                                      *)
(***************************************************************************)
EXTENDS Integers, FiniteSets, FiniteSetsExt

CONSTANTS
    User,           \* users.user_id
    Workspace,      \* workspaces.workspace_id
    Null,           \* SQL NULL
    CancelWindow,   \* look-back of the cancellation throttle (24 h)
    CancelBlock     \* length of a throttle block (12 h)

ASSUME NullAssumption == Null \notin Nat
ASSUME CancelAssumption ==
    /\ CancelWindow \in Nat
    /\ CancelBlock \in Nat
    /\ CancelBlock <= CancelWindow

VARIABLES
    bookings,       \* existing row id -> row
    nextId          \* number of the next row: a row is named by its place in
                    \* the order of insertion (booking_id is a random UUID)

Status == {"CONFIRMED", "COMPLETED", "CANCELLED_BY_USER", "CANCELLED_BY_ADMIN"}

Row == [user: User, workspace: Workspace, start: Nat, end: Nat,
        status: Status, cancelledAt: Nat \cup {Null}]

RepoType ==
    /\ nextId \in Nat \ {0}
    /\ DOMAIN bookings \subseteq 1 .. nextId - 1
    /\ bookings \in [DOMAIN bookings -> Row]

RepoInit ==
    /\ bookings = [i \in {} |-> Null]
    /\ nextId = 1

Rows == DOMAIN bookings

Confirmed(i) == bookings[i].status = "CONFIRMED"

-----------------------------------------------------------------------------
(* Queries *)

\* Half-open intervals: touching ends do not overlap.
Overlaps(i, start, end) == bookings[i].start < end /\ bookings[i].end > start

\* Mutant: sees only a booking already running when the new one starts.
HasConflictLate(w, start, end) ==
    \E i \in Rows : /\ bookings[i].workspace = w /\ Confirmed(i)
                    /\ bookings[i].start < start /\ bookings[i].end > start

HasConflict(w, start, end) ==
    \E i \in Rows : bookings[i].workspace = w /\ Confirmed(i) /\ Overlaps(i, start, end)

\* Mutant: the same slip in the user's own bookings.
HasUserConflictLate(u, start, end) ==
    \E i \in Rows : /\ bookings[i].user = u /\ Confirmed(i)
                    /\ bookings[i].start < start /\ bookings[i].end > start

HasUserConflict(u, start, end) ==
    \E i \in Rows : bookings[i].user = u /\ Confirmed(i) /\ Overlaps(i, start, end)

ActiveOf(u, t) ==
    {i \in Rows : bookings[i].user = u /\ Confirmed(i) /\ bookings[i].end > t}

CountActiveByUser(u, t) == Cardinality(ActiveOf(u, t))

\* Mutant: a booking that has started is not in the future.
HasFutureStart(w, t) ==
    \E i \in Rows : bookings[i].workspace = w /\ Confirmed(i) /\ bookings[i].start > t

\* The EXISTS of WorkspaceRepo.Delete.
HasFuture(w, t) ==
    \E i \in Rows : bookings[i].workspace = w /\ Confirmed(i) /\ bookings[i].end > t

\* The cancellations the throttle looks back on at time t.
Recent(u, t) ==
    {i \in Rows : /\ bookings[i].user = u
                  /\ bookings[i].status = "CANCELLED_BY_USER"
                  /\ bookings[i].cancelledAt # Null
                  /\ bookings[i].cancelledAt >= t - CancelWindow}

\* Mutant: ORDER BY cancelled_at ASC.
EarliestThree(S) ==
    CHOOSE T \in kSubset(3, S) :
        \A i \in T, j \in S \ T : bookings[i].cancelledAt <= bookings[j].cancelledAt

\* ORDER BY cancelled_at DESC LIMIT 3: three rows no other row is later than.
LatestThree(S) ==
    CHOOSE T \in kSubset(3, S) :
        \A i \in T, j \in S \ T : bookings[i].cancelledAt >= bookings[j].cancelledAt

\* Mutant: the throttle starts at the fourth cancellation.
CooldownOffByOne(u, t) ==
    IF Cardinality(Recent(u, t)) <= 3 THEN 0
    ELSE LET oldest == Min({bookings[i].cancelledAt : i \in LatestThree(Recent(u, t))})
         IN IF oldest + CancelBlock > t THEN oldest + CancelBlock ELSE 0

\* Mutant: the block is counted from the moment of the question.
CooldownRolling(u, t) ==
    IF Cardinality(Recent(u, t)) < 3 THEN 0
    ELSE LET oldest == Min({bookings[i].cancelledAt : i \in LatestThree(Recent(u, t))})
         IN IF oldest + CancelBlock > t THEN t + CancelBlock ELSE 0

\* The end of the block that holds at time t, 0 (the zero time) if none does.
CooldownUntil(u, t) ==
    IF Cardinality(Recent(u, t)) < 3 THEN 0
    ELSE LET oldest == Min({bookings[i].cancelledAt : i \in LatestThree(Recent(u, t))})
         IN IF oldest + CancelBlock > t THEN oldest + CancelBlock ELSE 0

InCooldown(u, t) == CooldownUntil(u, t) # 0

-----------------------------------------------------------------------------
(* Statements that write *)

Create(u, w, start, end) ==
    /\ bookings' = [i \in Rows \cup {nextId} |->
                      IF i = nextId
                      THEN [user |-> u, workspace |-> w, start |-> start, end |-> end,
                            status |-> "CONFIRMED", cancelledAt |-> Null]
                      ELSE bookings[i]]
    /\ nextId' = nextId + 1

\* UPDATE bookings SET status = s WHERE booking_id \in S
SetStatus(S, s) ==
    /\ bookings' = [i \in Rows |-> IF i \in S
                                   THEN [bookings[i] EXCEPT !.status = s]
                                   ELSE bookings[i]]
    /\ UNCHANGED nextId

\* Mutant: the comparison with the clock is swapped.
MarkPastCompletedSwapped(t) ==
    SetStatus({i \in Rows : Confirmed(i) /\ bookings[i].end >= t}, "COMPLETED")

\* Mutant: a booking that ends at the time of the sweep is left open.
MarkPastCompletedStrict(t) ==
    SetStatus({i \in Rows : Confirmed(i) /\ bookings[i].end < t}, "COMPLETED")

MarkPastCompleted(t) ==
    SetStatus({i \in Rows : Confirmed(i) /\ bookings[i].end <= t}, "COMPLETED")

\* No condition on the status the row has now.
UpdateStatus(id, s) == SetStatus({id}, s)

\* Mutant: the condition on the status is dropped.
CancelAny(id, s, t) ==
    /\ bookings' = [i \in Rows |-> IF i = id
                                   THEN [bookings[i] EXCEPT !.status = s, !.cancelledAt = t]
                                   ELSE bookings[i]]
    /\ UNCHANGED nextId

\* t is NOW() of the statement.
Cancel(id, s, t) ==
    /\ bookings' = [i \in Rows |-> IF i = id /\ Confirmed(i)
                                   THEN [bookings[i] EXCEPT !.status = s, !.cancelledAt = t]
                                   ELSE bookings[i]]
    /\ UNCHANGED nextId

\* ON DELETE CASCADE from workspaces.
DeleteByWorkspace(w) ==
    /\ bookings' = [i \in {j \in Rows : bookings[j].workspace # w} |-> bookings[i]]
    /\ UNCHANGED nextId
=============================================================================
