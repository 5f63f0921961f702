# Formal model of the coworking booking server

TLA+ modules, TLC models and TLAPS proofs for the Go/PostgreSQL application in
`src/` that lets people book workspaces on the plan of a coworking. Paths below
are relative to `src/`.

## 1. The system

One process (`cmd/server/main.go`) serves HTTP; `net/http` runs every request on
a goroutine of its own. State lives in PostgreSQL (`db/init/01_schema.sql`) and,
for the sessions, in a map of the process. **No handler opens a transaction**: a
request is a chain of single SQL statements, each atomic, with local code in
between, over a pool of 20 connections (`internal/db/db.go`). All interaction
between components goes through the tables and the session map, so everything
that is hard here comes from what other requests do between two statements, from
clocks read before the statement that uses them, and from requests that fail
half-way.

| Component | State | Operations | What makes it correct |
|---|---|---|---|
| Bookings (`internal/repo/bookings.go`, `handlers/booking_create.go`, `booking_cancel.go`, `admin.go`) | table `bookings` | create (seven statements), cancel (three), administrator's cancel and status change, completion of past bookings by the pages that list them | no overlap per workspace or user, limit of active bookings, statuses move once, nothing is lost |
| Cancellation throttle (`bookings.go: CooldownUntil`) | none: computed from `cancelled_at` | asked by create, cancel and the pages | three cancellations delay the fourth; the announced end is kept |
| Settings (`repo/settings.go`) | one row | read by create, written by the administrator | the limit in force is positive and is respected |
| Coworkings and workspaces (`repo/coworkings.go`, `repo/workspaces.go`, `admin.go`) | tables `coworkings`, `workspaces` | create, update, toggle, delete | cells and names distinct, workspaces inside the grid, no orphan, deletion spares active bookings |
| Accounts (`repo/users.go`, `handlers/auth.go`, `handlers/settings.go`) | table `users` | register, login, profile, password | one account per mailbox, passwords change for one who knows them |
| Sessions (`auth/session.go`) | map token → user, expiry; the browser's cookie | login, logout, check | a session ends by logout, restart or age only, and for good |
| Scheme page (`handlers/scheme.go`, `web/static/js/scheme.js`) | form fields, seats and card shown in the browser, requests in flight | page, `/api/scheme`, debounced and 30 s refresh | a free seat is free, the button books what the card says, the page comes to show its last inputs |
| Workspace history, booking lists, reports (`handlers/workspace_history.go`, `handlers.go`, `repo/reports.go`) | none | reads (history and lists first complete past bookings); a report may be saved | what is over is not shown as active; the blocks of a report agree |
| Startup, pool, templates, `notifications` | – | – | not modelled, see section 7 |

What is hard to test in each of them is listed line by line under `hazards` in
`PROJECT.json`.

## 2. Modules

| Module | Models | How it corresponds to the code |
|---|---|---|
| `BookingRepo` | the table `bookings` and the statements of `repo/bookings.go` | a query is an operator on the table, an `UPDATE`/`INSERT` an action on it |
| `BookingService` | the booking handlers, workspace deletion and availability, settings | a request is a record with a `pc`; one action is one statement and the local code after it |
| `BookingLedger` | abstract: the life of a booking | what every handler together promises, without users' requests, clocks or statements |
| `BookingSafety` | the properties, and the refinement of the ledger | |
| `BookingPages` | `/bookings`, `/workspaces/history`, the panel's list, `/scheme` and `/api/scheme` over `BookingService` | a visitor is a record with a `pc`: sweep (or its failure), tables, list; seats, busy seats, block |
| `BookingReport` | `ReportRepo.Build` and `reportHandler` over `BookingService` | four statements; a result that breaks off looks complete because `rows.Err` is not asked |
| `Layout` | coworkings, grids, workspaces | same style; the keys of the schema guard the writes |
| `LayoutPages` | the plan of a coworking, over `Layout` | grid and seats are two statements, then `emptyCells` |
| `Accounts` | accounts, sessions, cookies, restart | same style; a critical section of the session map is a step too |
| `SchemeForm` | the three readings of an interval: `parseSchemeForm`, `bookingCreateHandler`, `intervalMinutes` | operators only, on minutes and on fields that may be blank or no number |
| `SchemePage` | `scheme.js` and `scheme.html` in one browser | inputs, debounce and 30 s timers, requests in flight, answers in any order, redirect of a refused booking |
| `MC*` | intervals, grids, positions, links and symmetry for TLC, and specifications restricted to some of the actors | |
| `BookingProofs`, `StepProofs`, `ThrottleProofs` | theorems about the handlers: races and refinement, single steps, the throttle | lemmas of one are used by the next |
| `PagesProofs`, `ReportProofs` | theorems about pages and report next to the handlers | |
| `LayoutProofs`, `AccountsProofs`, `SchemeProofs` | theorems about layout and plans, accounts, the browser | |

`BookingPages` and `BookingReport` extend `BookingService`, `LayoutPages` extends
`Layout`: a page reads the tables while all handlers write them. `SchemePage`
extends `SchemeForm` and takes the server's answer as one reading; what can
change between the statements of that answer is in `BookingPages`.

**Steps.** `bookingCreateHandler` becomes `BeginCreate`, `CheckCooldown`
(throttle query, then all checks of the interval), `FindWorkspace`,
`CheckConflict`, `GetSettings`, `CountActive`, `CheckUserConflict`,
`InsertBooking`, in the order of the code. Every early return is the `Answer`
branch of the step where it happens. `bookingCancelHandler`,
`adminBookingStatusHandler` and `WorkspaceRepo.Delete` are split the same way;
handlers of one statement are one action. A clock the code reads and uses in a
later statement is kept in the request (`at`) and may be old by then. `Abort`
ends a request between any two of its statements: a failed statement, a dropped
connection, a restart.

**The browser.** `Touch` is an input's listener: it starts the debounce timer
(`due`), which `Debounced` fires; `Every30` is the interval timer and the submit
of the form. `Refresh` sends the `Question` of the inputs unless the interval is
not valid. A request is served (`Serve`), delivered (`Deliver`, `applyData`) or
lost (`Fail`), in any order: nothing in `scheme.js` cancels or numbers requests.
`BookMade` and `BookRefused` submit the hidden fields of the card and load the
page anew. `url` is the question the page's address makes: that of the link or of
the redirect, error included, until a seat or a coworking is chosen (`SyncURL`,
which leaves only these two in it); the other inputs do not touch it, and `Reload`
asks it again.

**Abstractions.**
- Bookings, workspaces, coworkings, accounts are numbered in the order of
  insertion; the tables use random UUIDs. A row number is what the race
  properties compare ("inserted after").
- Time is a natural number and the clocks of server and database are one
  (they run on one host in `docker-compose.yml`). Outside `SchemeForm` dates and
  hours are already a `[start, end]` pair; `MaxDuration`, `MaxAhead`,
  `CancelWindow`, `CancelBlock` are the code's 3 h, 3 days, 24 h, 12 h. In
  `SchemeForm` and `SchemePage` time is in minutes.
- Workspace types, zones, names of people, roles and flash messages are left
  out: no modelled decision reads them (roles only choose which handlers an
  account may call, and any user may act as any actor in the models).
- A hash stands for the password it verifies; a signed random token is a fresh
  number. Addresses keep the one distinction a conversion makes: typed in lower
  or in mixed case.
- In `SchemePage` the coworkings do not change, the date is the first day's and a
  workspace that is disabled counts as taken.
- History variables and fields, which no guard reads except the bounds on
  `clock` and `past`: `saw` (which rows a request had seen when it checked);
  `span` and `clock` in `Layout`; `past` and `ended` in `Accounts`; `swept` and
  `mark` of a page (did its sweep succeed, which rows could it see); `mark`,
  `first`, `steady`, `cut`, `overdue` of a report; `found` of a status form (the
  status of the row it read); `before`, `late` and `origin`
  in `SchemePage` (which requests overtook which, and the interval the page was
  loaded with until the user touches it).

## 3. What is claimed

*However requests interleave* (`races`): a promise may be broken, but only inside
the window between its check and its write, and the properties say exactly which
row did it.
- `DoubleBookingIsRace`, `UserOverlapIsRace`: of two overlapping bookings the
  earlier was inserted after the later one's request had made its check.
- `CountedBelowLimit`: the active bookings a request could have counted stay below
  the limit it had read, at every later time.
- `RequestSaw`: until its `INSERT`, what a request checked stays true of the rows
  it could see. It is the reason for the three above.
- `CancellationTimed`: `cancelled_at` is in the past, absent on open bookings and
  present on those the throttle looks back on.
- `RewrittenIsRace`: a closed booking is left alone by everything under way
  (sweeps with an old clock, cancellations that had found it open), except by a
  status form that had read it as `CONFIRMED`, which overwrites the status. This
  is what `KeepsLedger`, for which both statuses are `closed`, does not see.
- `ErasedIsRace`: a deletion takes an active booking only if it was inserted after
  the deletion's check.
- `KeepsLedger`: the refinement of `BookingLedger`. `CONFIRMED` is `open`,
  everything else `closed`: a booking is made once, at a place that exists (a
  deletion may run between `FindWorkspace` and the `INSERT`) and on terms nobody
  alters, is closed and never reopened, and disappears only with its workspace.

*With one request at a time* (`serial`): `NoDoubleBooking`, `NoUserOverlap`,
`LimitHolds`, `NoDisabledBooked`, `NoActiveErased`, `StatusIsFinal`, the promises
as the documents make them.

*The throttle* (`throttle`): `FourthWaits` (of any four cancellations by a
user the last comes a block's length after the first; each further request in
progress lets one more through), `BlockIsSteady` (the announced end does not move) and
`BlockNeedsCancel` (only a cancellation starts a block). *Completion*
(`completion`): `OverdueIsSwept`.

*Pages* (`pages`): `OverdueShownIsRace` (a list shows a booking that was over as
active only if its sweep failed or the row came after it) and `FreeSeatStaysFree`
(whoever books a seat shown free is refused only for a booking the page could not
see). *Report* (`report`): `BlocksAgree` (whatever is cancelled, completed or
rewritten between the four statements, their totals agree; only rows that come
or go set them apart).

*Layout* (`layout`): `CellsDistinct`, `NoOrphans`, `OutsideIsRace` (a workspace
lies off its grid only if the request that placed it and the one that set the
grid each checked before the other wrote), `EmptyCellAccepts` (a cell a plan
offers as empty takes a workspace unless the layout was written since) and
`LostPlanIsRace` (the scheme fails for the number of its workspaces only if the
coworking changed between the two statements that read it, or has a workspace
off its grid).

*Accounts* (`accounts`): `OneAccountPerMailbox`, `KnewPassword`, `EndedStaysOut`,
`SignedOutForReason`.

*The scheme in the browser* (`scheme_page`, `scheme_live`): `StaleIsRace` (at rest
the page is about its inputs, unless a request overtook or failed, or there is no
interval to ask for), `FormBooksCard` (the button books what the card says or
nothing, though it submits hidden fields two places write), `BrowserMeansServer`
(both count a custom interval alike, across midnight too), `RefusalKeepsCard` (a
refused booking of less than a day comes back to its card although the redirect
names the end where the form named the duration), `CatchesUp` (left alone, the page comes to show
what the table holds). Each stateful module has one type invariant.

### Disagreements with the documents

Two runs expect a violation, and show by the shortest trace where code and
documents part:
- `reopened_status`: `UpdateStatus` does not repeat the condition it was checked
  under, so a final status is overwritten;
- `lost_plan`: `emptyCells` reserves room for cells minus workspaces. For a
  coworking left with more workspaces than cells, by two overlapping requests of
  administrators, that is a negative number, and every request for its scheme
  ends without an answer.

Further configurations beside the runs show the same kind of thing. In each of
them TLC is expected to find a violation:

| Configuration (module) | Property | What it shows |
|---|---|---|
| `DoubleBooking.cfg` (`MCBookingRaces`) | `NoDoubleBooking` | two requests at once book one place twice; UC-2 rule 2 forbids it (`full_description_cowork (2).md:104`), the program's README admits it (`README.md:354`) |
| `NoPeriodicSweep.cfg` (`MCBookingCompletion`) | `PeriodicSweep` | the comment at `internal/repo/bookings.go:174` speaks of a periodic sweep; without a visitor nothing completes a booking |
| `ThrottleGap.cfg` (`MCBookingThrottle`) | `ThrottleBlocks` | the 12 hours run from the first of the three cancellations, so three cancellations spread over more than 12 of 24 hours do not block (`db/init/01_schema.sql:112`) |
| `PastIsEmpty.cfg` (`MCBookingPages`) | `PastShowsPast` | the history completes past bookings, then lists confirmed ones: its filter "past" leaves out what took place (`internal/handlers/workspace_history.go:31`) |
| `FreeAfterLabel.cfg` (`MCBookingPages`) | `FreeAfterLabel` | of two bookings inside the interval the label names the end of the first, when the place is not free yet (`internal/repo/bookings.go:56`) |
| `RefusedSeesFree.cfg` (`MCBookingPages`) | `ShownFreeIsFree` | after a refusal (UC-2, A5) the page skips the occupancy and shows the place that was just refused as free |
| `PartialReport.cfg` (`MCBookingReport`) | `NothingMissing` | a result that breaks off is shown, and saved, without a warning (UC-8, rule 9) |
| `MergedPlaces.cfg` (`MCBookingReport`) | `PlacesCounted` | popular places are grouped by name and type: places of two coworkings with one name are one line (`README.md:338`) |
| `ReportCountsOver.cfg` (`MCBookingReport`) | `OverNotConfirmed` | the report does not sweep first: what is over counts as confirmed (UC-8, rule 8) |
| `OffersRefused.cfg` (`MCSchemePage`) | `OfferedIsAdmitted` | the page reads an end before the start as the next day's and offers the booking, the create handler refuses it (UC-2, A3; `README.md:202`) |
| `ForgetsInterval.cfg` (`MCSchemePage`) | `UntouchedKeepsInterval` | a page loaded with a duration that is not on offer loses it with the first refresh (`web/static/js/scheme.js:384`) |
| `OvertakenAnswer.cfg` (`MCSchemePage`) | `RestIsCurrent` | without any failure an older answer overwrites a newer one, and the page rests on it until the next refresh (`scheme.js:1`) |

`MCBookingThrottleRaces.cfg` (`MCBookingThrottle`) passes: `FourthWaits` with two
requests of one user at a time.

One more, not a matter of behaviour: the comment on `AllowedDurations`
(`internal/handlers/scheme.go:68`) says the server validates against it; only the
template reads it, and the create handler takes any duration up to three hours.

## 4. Runs and bounds

| Run | Instance | Why it is enough |
|---|---|---|
| `serial` | 1 request, 2 users, 2 workspaces, 2 bookings, limits 1 and 2, times 0–2, one interval that overlaps two touching ones and an empty one | every promise relates at most two bookings; two users and two workspaces separate same-workspace from same-user conflicts; the limit can be raised, lowered and reached |
| `races`, `reopened_status` | 2 requests, 2 users, 1 workspace, 2 bookings, limit 1, two touching intervals, times 0–1 | a race needs two requests and two rows (that a user's two bookings may be of different workspaces, and that the limit may be lowered, is left to the theorems); users tell user conflicts from workspace conflicts; touching intervals test the boundary; the clock passes one end |
| `throttle` | 1 user, 1 request, 4 cancellations, window 3, block 2, times 0–5 | the fourth cancellation is the first one the throttle can stop; the clock runs past window and block |
| `completion` | 2 requests, 1 booking, fairness | one visitor sweeps while another request books, cancels or deletes |
| `pages` | 1 request, 1 visitor, 1 user, 1 workspace, 2 bookings, times 0–1, two touching slots and the one that spans them | a page has at most three statements and a request writes between any two of them; two bookings fit one shown interval |
| `report` | 1 request, 1 user, 2 workspaces, 2 bookings on two days, 1 place and 2 users at most, the handlers that make, close and erase bookings (`CountedSpec`) | each grouping has two groups; the limit on places cuts one off, that on users none |
| `layout` | 2 requests, 1 visitor, 2 names, grids 1×1, 1×2 and one too large, cells on every grid, on one, on none, 2 coworkings, 3 writes | each race is of two requests; a grid can shrink under a workspace and lose a cell |
| `lost_plan` | the same with 1 coworking | |
| `accounts` | 2 requests, 1 browser, 2 mailboxes in either case, 2 passwords, 3 accounts at most, one of them there from the start, 2 sessions, a lifetime that ends with the first tick | there is room for two registrations that race with each other or with a form; two sessions of one browser and of one account; answers overtake each other |
| `scheme_page` | a day of 7 minutes, durations 1, 2, 4 of at most 4, 2 coworkings of one workspace, 2 requests in flight, 3 moves of the user or of others, links with a wrong, too long or unlisted interval, one of more than a day among them | overtaking needs two requests; one move changes an input, one the table, one books; every start and end crosses midnight or not, is too long or not |
| `scheme_live` | the same, plain link, 2 moves | a change of the inputs and one of the table, in either order |

Named bounds: `MaxBookings` (creates admitted), `MaxTime`, `MaxCoworkings`,
`MaxWrites`, `MaxUsers`, `MaxTokens`, `MaxChanges`, `MaxMoves`, and the sets
`Visitor` and `Call`. They only stop inputs; they are no limits of the program,
and the theorems do not depend on them. Deadlock is checked in every run: a
request can always begin or end. Symmetry is used for users, workspaces, names,
mailboxes, passwords and requests where no definition of the run tells them
apart, and never with a liveness property.

Three specifications restrict the actors, named where they are defined: `UserSpec`
(no administrator acts), `CountedSpec` (no workspace is disabled, no setting is
changed, nobody cancels through a form of their own: closing is the
administrator's) and `SteadySpec` (no request of the browser fails).

**Fairness.**
- `FairSpec` of `BookingService`: weak fairness of every request's next step (Go
  runs runnable goroutines and PostgreSQL answers; a step is always enabled once
  the request is there) and of the clock. Nothing forces a user to submit
  anything, so `OverdueIsSwept` assumes infinitely many sweeps by visits as its
  antecedent and `PeriodicSweep`, without it, fails.
- `FairSpec` of `SchemePage`: weak fairness of the two timers (browsers fire
  them) and strong fairness of serving and delivering each request, which says no
  more than that not every request fails. `Fail` has none. The bound on moves is
  what makes everybody leave the page alone, the antecedent of `CatchesUp`.

## 5. What is proved

Every theorem holds for every number of users, workspaces, requests, pages and
rows, every window, block, interval, grid and length of a day, and without the
bounds of the runs. The assumptions on the constants are named where the
constants are declared (`BookingRepo`, `BookingService`, `BookingPages`,
`BookingReport`, `Layout`, `Accounts`, `SchemeForm`, `SchemePage`) and evaluated by
TLC in every run that extends the module. Some theorems assume more: those
called `Serial...` assume `Alone` (no two requests in progress at once), and `FourthCancellationWaits`
and `PagesKeepThrottle` that the set of requests is finite, because they count them.

| Module | Theorem | Property |
|---|---|---|
| `BookingProofs` | `TypeCorrect`, `ChecksStayTrue`, `DoubleBookingOnlyByRace`, `UserOverlapOnlyByRace`, `LimitExceededOnlyByRace`, `HandlersKeepLedger`, `SerialRequestsNeverOverlap` | `TypeOK`, `RequestSaw`, `DoubleBookingIsRace`, `UserOverlapIsRace`, `CountedBelowLimit`, `KeepsLedger`, `NoDoubleBooking` and `NoUserOverlap` |
| `StepProofs` | `CancellationsAreTimed`, `RewrittenOnlyByRace`, `BookedAlwaysExist`, `ErasedOnlyByRace`, `SerialDeletesNothingActive`, `SerialStatusIsFinal`, `SerialBooksEnabled`, `SerialLimitHolds` | `CancellationTimed`, `RewrittenIsRace`, `ErasedIsRace`, `NoActiveErased`, `StatusIsFinal`, `NoDisabledBooked`, `LimitHolds`; every booking is of a workspace that exists (`BookedAlwaysExist`) |
| `ThrottleProofs` | `FourthCancellationWaits`, `OnlyCancellationsBlock`, `SerialBlockIsSteady`, `BlocksEndSoon` | `FourthWaits`, `BlockNeedsCancel`, `BlockIsSteady`; the end of a block lies ahead and within one block |
| `AccountsProofs` | `AccountsTypeCorrect`, `MailboxesAreUnique`, `EndedSessionsStayOut`, `SignedOutOnlyForReason`, `PasswordsAreKnown` | `AccountsTypeOK`, `OneAccountPerMailbox`, `EndedStaysOut`, `SignedOutForReason`, `KnewPassword` |
| `LayoutProofs` | `LayoutTypeCorrect`, `NoWorkspaceStranded`, `OneWorkspacePerCell`, `OutsideOnlyByRace`, `EmptyCellsAccept`, `PlansLostByRace` | `LayoutTypeOK`, `NoOrphans`, `CellsDistinct`, `OutsideIsRace`, `EmptyCellAccepts`, `LostPlanIsRace` |
| `PagesProofs` | `PageTypeCorrect`, `OverdueShownOnlyByRace`, `FreeSeatsStayFree` | `PageTypeOK`, `OverdueShownIsRace`, `FreeSeatStaysFree` |
| | `PagesKeepChecks`, `PagesKeepLedger`, `PagesKeepThrottle`, `PagesEraseNothing`, `PagesBlockNobody` | next to pages: `RequestSaw` and the three race invariants, `KeepsLedger`, `CancellationTimed` and `FourthWaits`, `ErasedIsRace`, `BlockNeedsCancel` |
| `ReportProofs` | `BlocksAlwaysAgree`, `ReportsLeaveHandlers`, `ReportsKeepChecks` | `BlocksAgree`; `ReportSpec => Spec`; the races of the handlers next to a report |
| `SchemeProofs` | `SchemeTypeCorrect`, `StaleOnlyByRace`, `FormAlwaysBooksCard`, `BrowserAlwaysMeansServer`, `RefusalAlwaysKeepsCard` | `SchemeTypeOK`, `StaleIsRace`, `FormBooksCard`, `BrowserMeansServer`, `RefusalKeepsCard` |

### The arguments

*Races of bookings* (`BookingProofs`). None of the three race invariants is
inductive: when a booking is inserted, it is what the *request* checked long
before that must still be true. `RaceInv` therefore adds `RequestSaw`, which
carries each check to the `INSERT`, and `StatusTargets`, that a status change in
progress found the booking confirmed and never writes `CONFIRMED`. Every step of every handler is first reduced to
one of a few effects on the table (`RowStep`: nothing, one new row at `nextId`,
statuses changed of rows that were confirmed or stay closed, rows of one workspace
gone) and one effect on the request that moves (`ReqStep`). Under each of these,
confirmed rows below a given number only become fewer, so every check survives; a
new row is at or above every number noted so far. The count needs that a subset of
a finite set is no larger (`CountShrinks`). The refinement adds `ValidTerms`: a
request past the checks has `end > start`, and `PlaceStep`: an `INSERT` finds its
workspace there, and only a deletion, which takes the bookings along, removes one.

*Single steps* (`StepProofs`). `Fate` says what can become of a surviving row,
with the handler that did it: it is finer than `RowStep`, because
`CancellationTimed` needs the time that was written and `RewrittenIsRace` the
request that wrote. `BookedAlwaysExist` is inductive given the types and follows
from `PlacesStay` and `InsertedBy` of `BookingProofs`. `DeleteSaw` carries the check
of a deletion to its `DELETE`, as `RequestSaw` does for an `INSERT`. The serial
theorems add `SerialInv`: what the only request in progress has read (the row
numbers, the limit, whether the workspace is enabled, whether the booking is
confirmed) is still so. Single statements of others (settings, the switch of a
workspace) do run at once in the models, but not while the one request is in
progress: they need an idle request themselves.

*The throttle* (`ThrottleProofs`). That no `3 + n` cancellations fit into one block
is not inductive, since a request that has passed `CooldownUntil` cancels without
asking again. `FewWithin` counts cancellations and the requests that have passed
*together*: while a block that begins with the oldest of a set `S` of cancellations
lasts, `S` and those requests are at most `2 + n`. A request joins them only
where `CooldownUntil` found fewer than three cancellations in the block (the block
is no longer than the window), which leaves `2 + n`, itself one of the `n`
included; when it cancels it moves from one side to the other. Deletions only
shrink `S`. `CancelOwner` keeps the owner and the clock of a
cancellation in progress. The other two theorems compare what `CooldownUntil`
returns before and after a step: the latest three are the same three unless a row
is cancelled or erased.

*Accounts* (`AccountsProofs`). `AccountsInv` adds to the properties what a request
in progress relies on (`Known`): the account and the token it carries exist, the
address it is about to write is in lower case, and the password it was let in with
is one the account had. `LastPassword` and `TokensKept` tie the stored hash and the
session map to what was handed out. Uniqueness of mailboxes then follows from the
`UNIQUE` key alone, so it needs none of the checks the forms make before.

*Layout* (`LayoutProofs`). `NoOrphans` and `CellsDistinct` are inductive given the
types, by the keys of the schema. `OutsideIsRace` is not: `SawGrid` says of each
request between check and write that what it checked still holds or was rewritten
after it looked, and `SpansPast` that all recorded checks lie in the past.
`PlansInv` says the same of the plans pages have read. `PlansLostByRace` rests on
`SeatsFit`: distinct cells of a grid are no more than columns times rows, by an
injection into the pairs of a column and a row.

*Pages* (`PagesProofs`). `PagesInv` says what each statement of a page has
established and no later step undoes: after a sweep that succeeded no row below
`mark` that was over is confirmed; after `ListBusyDetails` no confirmed row below
`mark` takes an unlabelled seat. Both survive by `RowStep`: rows below a number are
never reopened and never change their terms.

*Handlers next to pages* (`PagesProofs`). `PagesSpec` does not imply `Spec`: the sweep
of a page belongs to no request, so it is no step of the handlers. But it is the
only thing a page writes (`PageStep`), and it is a `RowStep` under which no request
moves (`PageRows`), cancellations stay what they are and nobody passes the throttle
(`SweepKeeps`). The lemmas behind the handlers' theorems ask for no more, so their
invariants are carried through it once again.

*The report* (`ReportProofs`). `ReportRead` says of each block what it counts, as long
as the report is `Steady`: no row inserted since the totals and none of the rows
counted then erased. The period's rows are then those of the totals, and a whole
block is the sizes of the groups they fall into (`AllGroups`), a leading one of some
groups (`SomeGroups`). That such sums are the number of rows is `SumCounts`: a
function that counts what is in a set of groups is what the fold computes, for
otherwise there were a smallest set of groups where the two differ, and one group
less would be a smaller one. This needs only that a set of numbers has a least
element, where an induction would need a theorem with an operator as parameter.

*The browser* (`SchemeProofs`). `SchemeInv` describes the answers in flight and the
page by the question they answer (`CallOK`, `PageOK`), with requests numbered by
who was sent before whom. `FreshInv` is what makes `StaleIsRace` inductive: when no
debounce is pending, either the newest request is still in flight and is about the
inputs, or everything in flight has been overtaken and the page is about the
inputs or was itself reached by a late answer. A reload asks the address, which
is a question like any other (`url \in Asked`). TLC checked it as an invariant
first. The arithmetic across midnight needs one fact about `%`, `OneDayBack`.

### What the proofs changed in the models

- `RefusalKeepsCard` was false: `parseSchemeForm` accepts any duration in a link,
  and the redirect of a refused booking names the end as a time of the day, so an
  interval of a day or longer comes back shorter. The property now speaks of less
  than a day, and the instance of the run has a link that is longer. No such
  interval can be booked (the limit is three hours): the card changes, nothing else.
- Bookings of others in `SchemePage` have their end after their start, as the
  `CHECK` of the table demands (`db/init/01_schema.sql:102`): the invariant of the
  page needs it, and an empty one cannot be in the table.
- The arms of three `CASE` expressions overlapped (`Resolve`, `ClientMinutes`,
  `Over`). TLC takes the first that applies, the language any; each arm now says
  when it applies.

### Model-checked only

- `OverdueIsSwept` and `CatchesUp`: the provers in use do not handle liveness under
  fairness, nor `ENABLED`.
- `SchemeIsDrawn` and everything else TLC is expected to find violated.

## 6. Plan

Done: all modules of section 2 with their runs; theorems for every invariant
and every action property of the passing runs; the handlers' theorems next to
pages and next to a report.

Next, in this order:
1. The serial theorems next to pages. A sweep of a page can complete a booking
   between the reading of it and the statement of an administrator, so
   `StatusIsFinal` should fail there; `NoActiveErased`, `LimitHolds` and
   `NoDoubleBooking` should not.
2. The steps towards liveness that need no fairness: a request that sweeps leaves
   nothing confirmed that was over at its clock, and nothing reopens it.
3. That the report and the pages can be left out of a trace: the handlers'
   variables alone behave as `Spec` up to extra sweeps.

## 7. Not modelled

- `CountActiveByUserExcluding`, `PositionTakenIn`, `BusyWorkspaceIDs`: no caller.
- Of the browser: input values it restores by itself on a reload, the text filter of the combobox, the date field, the banner of
  a block, the move of the clock while a page is open, `modal.js`, styles.
- Of the report: the bar chart (`maxDaily`) and the order of equal counts.
- Templates and CSS: presentation.
- The wait for the database and the pool (`db.go`): no handler holds a connection
  while it waits for another, so the pool only delays statements.
- `notifications`: a table nothing uses. `users.active_booking_count`: never read
  or written after the insert; the active bookings are counted.
- Time zones, days of other length than 24 hours, durations so large that they
  overflow, and clocks that disagree.
