---------------------------- MODULE BookingPages ----------------------------
(***************************************************************************)
(* The pages that show bookings, made while the handlers of BookingService *)
(* write: /bookings, /workspaces/history and /admin first complete past    *)
(* bookings and then list, /scheme and /api/scheme show the seats of a     *)
(* coworking for an interval.  Every SQL statement of a page is a step of  *)
(* its own and the page shows what its statements read, however old that   *)
(* is by then.                                                             *)
(*                                                                         *)
(* A filter of a form is chosen where the code first reads it.  What a     *)
(* page shows of the layout (grids, names) is in LayoutPages.              *)
(***************************************************************************)
EXTENDS BookingService

CONSTANTS
    Visitor,        \* pages that may be in progress or on a screen at once
    Day,            \* length of a day
    AdminFilter     \* filters of the administrator's list

ASSUME PagesAssumption ==
    /\ Day \in Nat \ {0}
    /\ AdminFilter \subseteq [status: Status \cup {Null}, user: User \cup {Null},
                              workspace: Workspace \cup {Null},
                              from: Nat \cup {Null}, to: Nat \cup {Null}]

VARIABLE visit      \* visitor -> the page being made or shown

pagesVars == <<vars, visit>>

PagesInit == Init /\ visit = [v \in Visitor |-> [pc |-> "none"]]

On(v, pc) == visit[v].pc = pc

Open(v, page) == On(v, "none") /\ visit' = [visit EXCEPT ![v] = page]

NextStatement(v, pc) == visit' = [visit EXCEPT ![v].pc = pc]

Show(v, screen) == visit' = [visit EXCEPT ![v] = screen]

-----------------------------------------------------------------------------
(* Lists *)

\* of: the user, the workspace or nothing in particular.  The clock is read
\* for the sweep.
OpenList(v, page, of) ==
    /\ Open(v, [pc |-> "sweep", page |-> page, of |-> of, at |-> now, swept |-> FALSE, mark |-> 0])
    /\ UNCHANGED vars

AfterSweep(page) == IF page = "bookings" THEN "list" ELSE "tables"

\* MarkPastCompleted.  swept, mark: history, the sweep's outcome and nextId.
SweepPage(v) ==
    /\ On(v, "sweep")
    /\ MarkPastCompleted(visit[v].at)
    /\ visit' = [visit EXCEPT ![v].pc = AfterSweep(visit[v].page), ![v].swept = TRUE, ![v].mark = nextId]
    /\ UNCHANGED <<now, available, maxActive, req, saw>>

\* Its failure is only logged.
SweepPageFails(v) ==
    /\ On(v, "sweep")
    /\ NextStatement(v, AfterSweep(visit[v].page))
    /\ UNCHANGED vars

\* The history looks for its workspace; the panel reads coworkings, workspaces
\* and settings, of which only a failure matters here.
ReadTables(v) ==
    /\ On(v, "tables")
    /\ visit[v].page = "history" => visit[v].of \in DOMAIN available
    /\ NextStatement(v, "list")
    /\ UNCHANGED vars

ListByUser(u) == {i \in Rows : bookings[i].user = u}

ListByWorkspace(w) == {i \in Rows : bookings[i].workspace = w /\ Confirmed(i)}

ListAll(f) ==
    {i \in Rows : /\ f.status \in {Null, bookings[i].status}
                  /\ f.user \in {Null, bookings[i].user}
                  /\ f.workspace \in {Null, bookings[i].workspace}
                  /\ f.from # Null => bookings[i].start >= f.from
                  /\ f.to # Null => bookings[i].start < f.to}

StatusMatches(i, filter) ==
    \/ filter = "ALL"
    \/ filter = bookings[i].status
    \/ filter = "CANCELLED" /\ bookings[i].status \in {"CANCELLED_BY_USER", "CANCELLED_BY_ADMIN"}

PeriodMatches(i, period) ==
    CASE period = "future" -> bookings[i].end > now
      [] period = "past"   -> bookings[i].end <= now
      [] OTHER             -> TRUE

\* The filters of the history; the day is the one the clock is in.
HistoryMatches(i, filter) ==
    LET startOfDay == (now \div Day) * Day
        b == bookings[i]
    IN CASE filter = "today"  -> b.end >= startOfDay /\ b.start < startOfDay + Day
         [] filter = "active" -> b.start < now /\ b.end > now
         [] filter = "future" -> b.start > now
         [] filter = "past"   -> b.end < now
         [] OTHER             -> TRUE

\* The page lists the rows of S by a filter's name, with the status they have.
ShowRows(v, filter, S) ==
    /\ Show(v, [pc |-> "shown", page |-> visit[v].page, of |-> visit[v].of, filter |-> filter,
                at |-> visit[v].at, swept |-> visit[v].swept, mark |-> visit[v].mark,
                rows |-> [i \in S |-> bookings[i].status]])
    /\ UNCHANGED vars

ListBookings(v) ==
    \E status \in {"ALL", "CONFIRMED", "COMPLETED", "CANCELLED"}, period \in {"all", "future", "past"} :
        /\ On(v, "list") /\ visit[v].page = "bookings"
        /\ ShowRows(v, period, {i \in ListByUser(visit[v].of) :
                                   StatusMatches(i, status) /\ PeriodMatches(i, period)})

ListHistory(v) ==
    \E filter \in {"all", "today", "active", "future", "past"} :
        /\ On(v, "list") /\ visit[v].page = "history"
        /\ ShowRows(v, filter, {i \in ListByWorkspace(visit[v].of) : HistoryMatches(i, filter)})

ListForAdmin(v) ==
    \E f \in AdminFilter :
        /\ On(v, "list") /\ visit[v].page = "admin"
        /\ ShowRows(v, "all", ListAll(f))

-----------------------------------------------------------------------------
(* The scheme: schemeHandler and schemeAPIHandler *)

\* error: the form is wrong or carries the message of a redirect.
OpenScheme(v, u, iv, error) ==
    /\ Open(v, [pc |-> "seats", page |-> "scheme", of |-> u, start |-> iv.start, end |-> iv.end,
                error |-> error])
    /\ UNCHANGED vars

\* ListByCoworking: the seats with their is_available.
ReadSeats(v) ==
    LET q == visit[v] IN
    /\ On(v, "seats")
    /\ Show(v, [pc |-> "busy", page |-> "scheme", of |-> q.of, start |-> q.start, end |-> q.end,
                error |-> q.error, seats |-> available, mark |-> 0, until |-> [w \in {} |-> 0]])
    /\ UNCHANGED vars

\* Mutant: only bookings already running when the interval starts.
BusyDetailsLate(start, end) ==
    LET busy == {i \in Rows : Confirmed(i) /\ bookings[i].start < start /\ bookings[i].end > start}
    IN [w \in {bookings[i].workspace : i \in busy} |->
          Min({bookings[i].end : i \in {j \in busy : bookings[j].workspace = w}})]

\* DISTINCT ON (workspace_id) ... ORDER BY end_time: for each busy workspace the
\* end of the booking that ends first.
BusyDetails(start, end) ==
    LET busy == {i \in Rows : Confirmed(i) /\ Overlaps(i, start, end)}
    IN [w \in {bookings[i].workspace : i \in busy} |->
          Min({bookings[i].end : i \in {j \in busy : bookings[j].workspace = w}})]

\* skipBusy: after an error nothing is asked and no seat is busy.
ReadBusy(v) ==
    LET q == visit[v] IN
    /\ On(v, "busy")
    /\ visit' = [visit EXCEPT ![v].pc = "cooldown",
                              ![v].mark = nextId,
                              ![v].until = IF q.error THEN q.until ELSE BusyDetails(q.start, q.end)]
    /\ UNCHANGED vars

Free(q) == {w \in DOMAIN q.seats : q.seats[w] /\ w \notin DOMAIN q.until}

\* Mutant: a selected seat can be booked whether it is busy or not.
ShowSeatsBusy(v, blocked) ==
    LET q == visit[v] IN
    /\ On(v, "cooldown")
    /\ Show(v, [pc |-> "shown", page |-> "scheme", of |-> q.of, start |-> q.start, end |-> q.end,
                error |-> q.error, mark |-> q.mark, free |-> Free(q), until |-> q.until,
                bookable |-> IF q.error \/ blocked THEN {} ELSE {w \in DOMAIN q.seats : q.seats[w]}])
    /\ UNCHANGED vars

\* blocked: what userCooldown says.  A selected seat can be booked if it is free,
\* nothing is wrong with the form and the user is not blocked.
ShowSeats(v, blocked) ==
    LET q == visit[v] IN
    /\ On(v, "cooldown")
    /\ Show(v, [pc |-> "shown", page |-> "scheme", of |-> q.of, start |-> q.start, end |-> q.end,
                error |-> q.error, mark |-> q.mark, free |-> Free(q), until |-> q.until,
                bookable |-> IF q.error \/ blocked THEN {} ELSE Free(q)])
    /\ UNCHANGED vars

ReadCooldown(v) == On(v, "cooldown") /\ ShowSeats(v, InCooldown(visit[v].of, now))

\* A failed query is only logged and counts as no block.
ReadCooldownFails(v) == ShowSeats(v, FALSE)

-----------------------------------------------------------------------------
\* A statement fails, the workspace is not found or the page is left.
Close(v) ==
    /\ ~On(v, "none")
    /\ visit' = [visit EXCEPT ![v] = [pc |-> "none"]]
    /\ UNCHANGED vars

Visit(v) ==
    \/ \E u \in User : OpenList(v, "bookings", u)
    \/ \E w \in Workspace : OpenList(v, "history", w)
    \/ OpenList(v, "admin", Null)
    \/ \E u \in User, iv \in Interval, error \in BOOLEAN : OpenScheme(v, u, iv, error)

MakePage(v) ==
    \/ SweepPage(v)
    \/ SweepPageFails(v)
    \/ ReadTables(v)
    \/ ListBookings(v)
    \/ ListHistory(v)
    \/ ListForAdmin(v)
    \/ ReadSeats(v)
    \/ ReadBusy(v)
    \/ ReadCooldown(v)
    \/ ReadCooldownFails(v)

PagesNext ==
    \/ Next /\ UNCHANGED visit
    \/ \E v \in Visitor : Visit(v) \/ MakePage(v) \/ Close(v)

PagesSpec == PagesInit /\ [][PagesNext]_pagesVars

-----------------------------------------------------------------------------
(* Properties *)

Lists == {"bookings", "history", "admin"}

\* A page in progress or on a screen: what its statements have read so far.
PageTypeOK ==
    \A v \in Visitor :
        LET q == visit[v] IN
        \/ q = [pc |-> "none"]
        \/ /\ q.page \in Lists
           /\ q.pc \in {"sweep", "tables", "list", "shown"}
           /\ q.of \in User \cup Workspace \cup {Null}
           /\ q.at <= now /\ q.mark <= nextId
           /\ q.pc = "shown" => q.rows \in [DOMAIN q.rows -> Status]
        \/ /\ q.page = "scheme"
           /\ q.pc \in {"seats", "busy", "cooldown", "shown"}
           /\ q.of \in User /\ [start |-> q.start, end |-> q.end] \in Interval
           /\ q.pc \in {"busy", "cooldown"} => q.seats \in [DOMAIN q.seats -> BOOLEAN]
           /\ q.pc = "shown" => q.until \in [DOMAIN q.until -> Nat] /\ q.bookable \subseteq q.free

Listing(v) == On(v, "shown") /\ visit[v].page \in Lists

\* MarkPastCompleted is there "so the UI never shows «Активно» for a booking
\* that is actually over": a list that shows a booking as CONFIRMED although it
\* was over when the page read the clock had its sweep fail, or the booking was
\* inserted after the sweep.  So the history's filter of past bookings can
\* show nothing else.
OverdueShownIsRace ==
    \A v \in Visitor : Listing(v) =>
        \A i \in DOMAIN visit[v].rows \cap Rows :
            /\ visit[v].rows[i] = "CONFIRMED"
            /\ bookings[i].end <= visit[v].at
            => ~visit[v].swept \/ i >= visit[v].mark

\* A seat shown free, unless its bookings were not asked for, has no conflict
\* with a booking the page could see as long as the page is on the screen: who
\* books it is refused only for a booking inserted after the page was made.
FreeSeatStaysFree ==
    \A v \in Visitor : On(v, "shown") /\ visit[v].page = "scheme" /\ ~visit[v].error =>
        LET q == visit[v] IN
        \A w \in q.free, i \in Rows :
            i < q.mark /\ bookings[i].workspace = w /\ Confirmed(i) => ~Overlaps(i, q.start, q.end)

\* workspace_history.go:31: the filter "past" lists "bookings entirely before
\* now": what took place and is over is among them.
PastShowsPast ==
    \A v \in Visitor :
        Listing(v) /\ visit[v].page = "history" /\ visit[v].filter = "past" =>
            \A i \in Rows :
                /\ bookings[i].workspace = visit[v].of
                /\ bookings[i].status = "COMPLETED"
                /\ i < visit[v].mark /\ bookings[i].end < visit[v].at
                => i \in DOMAIN visit[v].rows

\* bookings.go:55-58: the label of a busy seat is the moment after which it is
\* free: no booking the page could see takes it between then and the end of
\* the interval.
FreeAfterLabel ==
    \A v \in Visitor : On(v, "shown") /\ visit[v].page = "scheme" =>
        LET q == visit[v] IN
        \A w \in DOMAIN q.until, i \in Rows :
            i < q.mark /\ bookings[i].workspace = w /\ Confirmed(i) => ~Overlaps(i, q.until[w], q.end)

\* UC-2, A5: whoever is refused because the place was taken is shown the
\* occupancy as it is now: a seat is shown free only if it is.
ShownFreeIsFree ==
    \A v \in Visitor : On(v, "shown") /\ visit[v].page = "scheme" =>
        LET q == visit[v] IN
        \A w \in q.free, i \in Rows :
            i < q.mark /\ bookings[i].workspace = w /\ Confirmed(i) => ~Overlaps(i, q.start, q.end)
=============================================================================
