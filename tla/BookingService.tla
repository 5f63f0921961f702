--------------------------- MODULE BookingService ---------------------------
(***************************************************************************)
(* The booking handlers of internal/handlers running concurrently over the *)
(* tables of BookingRepo.                                                  *)
(*                                                                         *)
(* net/http runs every request on a goroutine of its own and no handler    *)
(* opens a transaction, so a request is a small state machine: one step is *)
(* one SQL statement together with the local code that follows it, up to   *)
(* the next statement.  A time the local code reads is kept in the request *)
(* and may be old when the next statement uses it.                         *)
(***************************************************************************)
EXTENDS BookingRepo

CONSTANTS
    Request,        \* requests that may be in progress at the same time
    Interval,       \* [start, end] pairs users ask for, valid or not
    Limit,          \* limits an administrator may save
    MaxDuration,    \* MaxBookingMinutes (3 h)
    MaxAhead,       \* MaxBookingAheadDays (3 days)
    MaxBookings,    \* bound: create requests ever admitted to the form
    MaxTime         \* bound: the clock stops here

ASSUME IntervalAssumption == Interval \subseteq [start: Nat, end: Nat]
ASSUME LimitAssumption == Limit \subseteq Nat \ {0} /\ Limit # {}
ASSUME BoundAssumption ==
    /\ MaxDuration \in Nat
    /\ MaxAhead \in Nat
    /\ MaxBookings \in Nat
    /\ MaxTime \in Nat

VARIABLES
    now,            \* the clock of the server and of the database
    available,      \* existing workspace -> is_available
    maxActive,      \* booking_settings.max_active_bookings_per_user
    req,            \* request -> its state, [pc |-> "idle"] when unused
    saw             \* history: booking -> what its request saw in the table

db == <<bookings, nextId, available, maxActive, saw>>
vars == <<bookings, nextId, now, available, maxActive, req, saw>>

\* place, count, person: value of nextId at HasConflict, CountActiveByUser and
\* HasUserConflict; the request saw the rows below it.  limit: the setting read.
Seen == [place: Nat, count: Nat, person: Nat, limit: Nat]

CreatePC == {"cooldown", "workspace", "conflict", "settings", "count", "userconflict", "insert"}

IdleReq   == [pc: {"idle"}]
CreateReq == [pc: CreatePC, user: User, workspace: Workspace, start: Nat, end: Nat,
              at: Nat, saw: Seen]
CancelReq == [pc: {"cancelFind", "cancelCooldown", "cancelUpdate"},
              user: User, booking: Nat, at: Nat]
\* found: history, the status of the row that was read.
StatusReq == [pc: {"statusFind", "statusUpdate"}, booking: Nat, target: Status,
              found: Status \cup {Null}]
DeleteReq == [pc: {"deleteCheck", "deleteRow"}, workspace: Workspace, at: Nat, place: Nat]
SweepReq  == [pc: {"sweep"}, at: Nat]

RequestState ==
    IdleReq \cup CreateReq \cup CancelReq \cup StatusReq \cup DeleteReq \cup SweepReq

TypeOK ==
    /\ RepoType
    /\ now \in Nat
    /\ DOMAIN available \subseteq Workspace
    /\ available \in [DOMAIN available -> BOOLEAN]
    /\ maxActive \in Limit
    /\ req \in [Request -> RequestState]
    /\ saw \in [Rows -> Seen]

Init ==
    /\ RepoInit
    /\ now = 0
    /\ available \in [Workspace -> BOOLEAN]
    /\ maxActive \in Limit
    /\ req = [r \in Request |-> [pc |-> "idle"]]
    /\ saw = [i \in {} |-> Null]

-----------------------------------------------------------------------------
At(r, pc) == req[r].pc = pc

Begin(r, state) == At(r, "idle") /\ req' = [req EXCEPT ![r] = state]

Goto(r, pc) == req' = [req EXCEPT ![r].pc = pc]

\* The response: a page, a redirect with a message or an error.
Answer(r) == req' = [req EXCEPT ![r] = [pc |-> "idle"]]

-----------------------------------------------------------------------------
(* POST /bookings/create: bookingCreateHandler *)

\* Bound: admitted creates and rows made never exceed MaxBookings.
RoomForCreate ==
    nextId + Cardinality({r \in Request : req[r].pc \in CreatePC}) <= MaxBookings

\* The clock is read for the throttle query.
BeginCreate(r, u, w, iv) ==
    /\ RoomForCreate
    /\ Begin(r, [pc |-> "cooldown", user |-> u, workspace |-> w,
                 start |-> iv.start, end |-> iv.end, at |-> now,
                 saw |-> [place |-> 0, count |-> 0, person |-> 0, limit |-> 0]])
    /\ UNCHANGED <<db, now>>

\* An interval that is over by now is refused, one that ends now is not.
ValidInterval(start, end) ==
    /\ end > start
    /\ end - start <= MaxDuration
    /\ ~(end < now)
    /\ ~(start > now + MaxAhead)

CheckCooldown(r) ==
    /\ At(r, "cooldown")
    /\ IF ~InCooldown(req[r].user, req[r].at) /\ ValidInterval(req[r].start, req[r].end)
       THEN Goto(r, "workspace")
       ELSE Answer(r)
    /\ UNCHANGED <<db, now>>

\* Mutant: is_available is not looked at.
FindWorkspaceAny(r) ==
    /\ At(r, "workspace")
    /\ IF req[r].workspace \in DOMAIN available
       THEN Goto(r, "conflict")
       ELSE Answer(r)
    /\ UNCHANGED <<db, now>>

FindWorkspace(r) ==
    LET w == req[r].workspace IN
    /\ At(r, "workspace")
    /\ IF w \in DOMAIN available /\ available[w]
       THEN Goto(r, "conflict")
       ELSE Answer(r)
    /\ UNCHANGED <<db, now>>

CheckConflict(r) ==
    /\ At(r, "conflict")
    /\ IF HasConflict(req[r].workspace, req[r].start, req[r].end)
       THEN Answer(r)
       ELSE req' = [req EXCEPT ![r].pc = "settings", ![r].saw.place = nextId]
    /\ UNCHANGED <<db, now>>

\* The limit and, after it, the clock for the count.
GetSettings(r) ==
    /\ At(r, "settings")
    /\ req' = [req EXCEPT ![r].pc = "count", ![r].saw.limit = maxActive, ![r].at = now]
    /\ UNCHANGED <<db, now>>

\* Mutant: one booking more than the limit.
CountActiveOffByOne(r) ==
    /\ At(r, "count")
    /\ IF CountActiveByUser(req[r].user, req[r].at) > req[r].saw.limit
       THEN Answer(r)
       ELSE req' = [req EXCEPT ![r].pc = "userconflict", ![r].saw.count = nextId]
    /\ UNCHANGED <<db, now>>

CountActive(r) ==
    /\ At(r, "count")
    /\ IF CountActiveByUser(req[r].user, req[r].at) >= req[r].saw.limit
       THEN Answer(r)
       ELSE req' = [req EXCEPT ![r].pc = "userconflict", ![r].saw.count = nextId]
    /\ UNCHANGED <<db, now>>

CheckUserConflict(r) ==
    /\ At(r, "userconflict")
    /\ IF HasUserConflict(req[r].user, req[r].start, req[r].end)
       THEN Answer(r)
       ELSE req' = [req EXCEPT ![r].pc = "insert", ![r].saw.person = nextId]
    /\ UNCHANGED <<db, now>>

\* Mutant: the table has no foreign key to workspaces.
InsertBookingUnkeyed(r) ==
    /\ At(r, "insert")
    /\ Create(req[r].user, req[r].workspace, req[r].start, req[r].end)
    /\ saw' = [i \in Rows \cup {nextId} |-> IF i = nextId THEN req[r].saw ELSE saw[i]]
    /\ Answer(r)
    /\ UNCHANGED <<now, available, maxActive>>

\* The foreign key refuses the row of a workspace deleted meanwhile.
InsertBooking(r) ==
    /\ At(r, "insert")
    /\ IF req[r].workspace \in DOMAIN available
       THEN /\ Create(req[r].user, req[r].workspace, req[r].start, req[r].end)
            /\ saw' = [i \in Rows \cup {nextId} |-> IF i = nextId THEN req[r].saw ELSE saw[i]]
       ELSE UNCHANGED <<bookings, nextId, saw>>
    /\ Answer(r)
    /\ UNCHANGED <<now, available, maxActive>>

CreateStep(r) ==
    \/ CheckCooldown(r)
    \/ FindWorkspace(r)
    \/ CheckConflict(r)
    \/ GetSettings(r)
    \/ CountActive(r)
    \/ CheckUserConflict(r)
    \/ InsertBooking(r)

-----------------------------------------------------------------------------
(* POST /bookings/cancel: bookingCancelHandler *)

BeginCancel(r, u, id) ==
    /\ Begin(r, [pc |-> "cancelFind", user |-> u, booking |-> id, at |-> 0])
    /\ UNCHANGED <<db, now>>

\* FindByID, then owner, status and end of the row that was read.
FindToCancel(r) ==
    LET id == req[r].booking IN
    /\ At(r, "cancelFind")
    /\ IF id \in Rows /\ bookings[id].user = req[r].user /\ Confirmed(id) /\ bookings[id].end > now
       THEN req' = [req EXCEPT ![r].pc = "cancelCooldown", ![r].at = now]
       ELSE Answer(r)
    /\ UNCHANGED <<db, now>>

CancelCooldown(r) ==
    /\ At(r, "cancelCooldown")
    /\ IF InCooldown(req[r].user, req[r].at)
       THEN Answer(r)
       ELSE Goto(r, "cancelUpdate")
    /\ UNCHANGED <<db, now>>

CancelUpdate(r) ==
    /\ At(r, "cancelUpdate")
    /\ Cancel(req[r].booking, "CANCELLED_BY_USER", now)
    /\ Answer(r)
    /\ UNCHANGED <<now, available, maxActive, saw>>

CancelStep(r) == FindToCancel(r) \/ CancelCooldown(r) \/ CancelUpdate(r)

-----------------------------------------------------------------------------
(* POST /admin/bookings/cancel and /admin/bookings/status *)

AdminCancel(r, id) ==
    /\ At(r, "idle")
    /\ Cancel(id, "CANCELLED_BY_ADMIN", now)
    /\ UNCHANGED <<now, available, maxActive, req, saw>>

\* Mutant: any change of status is allowed.
AllowedTransitionLoose(from, to) == from # to

\* adminStatusTransitions
AllowedTransition(from, to) ==
    from = "CONFIRMED" /\ to \in {"COMPLETED", "CANCELLED_BY_ADMIN"}

BeginStatus(r, id, target) ==
    /\ Begin(r, [pc |-> "statusFind", booking |-> id, target |-> target, found |-> Null])
    /\ UNCHANGED <<db, now>>

FindForStatus(r) ==
    LET id == req[r].booking IN
    /\ At(r, "statusFind")
    /\ IF id \in Rows /\ AllowedTransition(bookings[id].status, req[r].target)
       THEN req' = [req EXCEPT ![r].pc = "statusUpdate", ![r].found = bookings[id].status]
       ELSE Answer(r)
    /\ UNCHANGED <<db, now>>

StatusUpdate(r) ==
    /\ At(r, "statusUpdate")
    /\ UpdateStatus(req[r].booking, req[r].target)
    /\ Answer(r)
    /\ UNCHANGED <<now, available, maxActive, saw>>

StatusStep(r) == FindForStatus(r) \/ StatusUpdate(r)

-----------------------------------------------------------------------------
(* POST /admin/workspaces/delete: WorkspaceRepo.Delete *)

BeginDelete(r, w) ==
    /\ Begin(r, [pc |-> "deleteCheck", workspace |-> w, at |-> now, place |-> 0])
    /\ UNCHANGED <<db, now>>

DeleteCheck(r) ==
    /\ At(r, "deleteCheck")
    /\ IF HasFuture(req[r].workspace, req[r].at)
       THEN Answer(r)
       ELSE req' = [req EXCEPT ![r].pc = "deleteRow", ![r].place = nextId]
    /\ UNCHANGED <<db, now>>

\* A workspace that is gone has no bookings left: nothing changes then.
DeleteRow(r) ==
    LET w == req[r].workspace IN
    /\ At(r, "deleteRow")
    /\ DeleteByWorkspace(w)
    /\ available' = [x \in DOMAIN available \ {w} |-> available[x]]
    /\ saw' = [i \in {j \in Rows : bookings[j].workspace # w} |-> saw[i]]
    /\ Answer(r)
    /\ UNCHANGED <<now, maxActive>>

DeleteStep(r) == DeleteCheck(r) \/ DeleteRow(r)

-----------------------------------------------------------------------------
(* The pages that complete past bookings, and the one-statement handlers *)

\* GET /bookings, /admin and /workspaces/history read the clock...
BeginVisit(r) ==
    /\ Begin(r, [pc |-> "sweep", at |-> now])
    /\ UNCHANGED <<db, now>>

\* ... and run MarkPastCompleted before their own queries.
Sweep(r) ==
    /\ At(r, "sweep")
    /\ MarkPastCompleted(req[r].at)
    /\ Answer(r)
    /\ UNCHANGED <<now, available, maxActive, saw>>

\* POST /admin/workspaces/toggle, and the is_available of an update.
SetAvailable(r, w, flag) ==
    /\ At(r, "idle")
    /\ w \in DOMAIN available
    /\ available' = [available EXCEPT ![w] = flag]
    /\ UNCHANGED <<bookings, nextId, now, maxActive, req, saw>>

\* Mutant: the value is not checked.
UpdateSettingsUnchecked(r, n) ==
    /\ At(r, "idle")
    /\ maxActive' = n
    /\ UNCHANGED <<bookings, nextId, now, available, req, saw>>

\* POST /admin/settings: values that are not positive are refused.
UpdateSettings(r, n) ==
    /\ At(r, "idle")
    /\ n > 0
    /\ maxActive' = n
    /\ UNCHANGED <<bookings, nextId, now, available, req, saw>>

\* A failed statement, a closed connection or a restart ends the request.
Abort(r) ==
    /\ ~At(r, "idle")
    /\ Answer(r)
    /\ UNCHANGED <<db, now>>

Tick ==
    /\ now < MaxTime
    /\ now' = now + 1
    /\ UNCHANGED <<db, req>>

-----------------------------------------------------------------------------
\* Ids of bookings a form may carry, the erased ones included.
KnownId == 1 .. nextId - 1

Submit(r) ==
    \/ \E u \in User, w \in Workspace, iv \in Interval : BeginCreate(r, u, w, iv)
    \/ \E u \in User, id \in KnownId : BeginCancel(r, u, id)
    \/ \E id \in KnownId, target \in Status : BeginStatus(r, id, target)
    \/ \E w \in Workspace : BeginDelete(r, w)
    \/ BeginVisit(r)

OneStatement(r) ==
    \/ \E id \in KnownId : AdminCancel(r, id)
    \/ \E w \in Workspace, flag \in BOOLEAN : SetAvailable(r, w, flag)
    \/ \E n \in Limit \cup {0} : UpdateSettings(r, n)

Proceed(r) ==
    \/ CreateStep(r)
    \/ CancelStep(r)
    \/ StatusStep(r)
    \/ DeleteStep(r)
    \/ Sweep(r)

Next ==
    \/ \E r \in Request : Submit(r) \/ OneStatement(r) \/ Proceed(r) \/ Abort(r)
    \/ Tick

Spec == Init /\ [][Next]_vars

\* The server keeps running the requests it has and time passes.
FairSpec == Spec /\ WF_vars(Tick) /\ \A r \in Request : WF_vars(Proceed(r))
=============================================================================
