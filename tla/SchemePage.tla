----------------------------- MODULE SchemePage -----------------------------
(***************************************************************************)
(* The scheme in one user's browser (scheme.js): the inputs, the debounced *)
(* and the periodic refresh, the requests to /api/scheme in flight, and    *)
(* the map, card and booking form that an answer fills, next to a table of *)
(* bookings that others change.                                            *)
(*                                                                         *)
(* Each request is answered by one atomic reading of the table.  The date  *)
(* is the first day's, the coworkings do not change, and a workspace that  *)
(* is disabled counts as taken.                                            *)
(***************************************************************************)
EXTENDS SchemeForm, FiniteSets

CONSTANTS
    Coworking, Workspace,
    CoworkingOf,    \* workspace -> its coworking
    First,          \* the coworking /scheme opens with
    None,           \* no workspace
    Call,           \* requests the browser may have in flight (bound)
    Links,          \* requests /scheme may be opened with
    Start, End,     \* what the user may enter as start and end
    OpenAt,         \* the minute of the day /scheme is opened
    Others,         \* [workspace, from, to] bookings others make and cancel
    MaxMoves        \* bound: moves of the user and of others

ASSUME PageAssumption ==
    /\ CoworkingOf \in [Workspace -> Coworking]
    /\ First \in Coworking
    /\ None \notin Workspace
    /\ Links \subseteq [cw: Coworking, ws: Workspace \cup {None},
                        start: 0 .. DayLength - 1 \cup {Empty, Bad},
                        end: 0 .. DayLength - 1 \cup {Empty, Bad},
                        dur: Nat \cup {Empty, Bad}, error: BOOLEAN]
    /\ Start \subseteq 0 .. DayLength - 1 \cup {Empty}
    /\ End \subseteq 0 .. DayLength - 1 \cup {Empty}
    /\ OpenAt \in 0 .. DayLength - 1
    /\ Others \subseteq [workspace: Workspace, from: Nat, to: Nat]
    /\ \A b \in Others : b.from < b.to
    /\ MaxMoves \in Nat

VARIABLES
    table,          \* the bookings that hold
    url,            \* the request the page's address makes: what a reload asks
    form,           \* the inputs, and mode
    due,            \* the debounce timer runs
    call,           \* request in flight -> its question and its answer
    page,           \* what the last answer filled in
    moves

pageVars == <<table, url, form, due, call, page, moves>>

Idle == [pc |-> "idle"]

-----------------------------------------------------------------------------
(* The server *)

Taken(t, w, from, to) == \E b \in t : b.workspace = w /\ b.from < to /\ b.to > from

Of(cw) == {w \in Workspace : CoworkingOf[w] = cw}

Parsed(q) ==
    ParseSchemeForm([date |-> 0, start |-> q.start, end |-> q.end, dur |-> q.dur,
                     error |-> q.error], OpenAt)

\* schemeHandler and schemeAPIHandler on the table t.  With an error occupancy
\* is not read.
Answer(t, q) ==
    LET p == Parsed(q)
        busy == {w \in Of(q.cw) : ~p.error /\ Taken(t, w, p.from, p.to)}
        selected == IF q.ws \in Of(q.cw) THEN q.ws ELSE None
    IN [cw |-> q.cw, busy |-> busy, selected |-> selected,
        from |-> p.from, to |-> p.to, start |-> p.start, end |-> p.end, dur |-> p.dur,
        can |-> selected # None /\ selected \notin busy /\ ~p.error]

-----------------------------------------------------------------------------
(* The page *)

\* The parameters refresh sends.
Question ==
    [cw |-> form.cw, ws |-> form.ws, start |-> form.start,
     dur |-> IF form.mode = "preset" THEN form.chip ELSE Empty,
     end |-> IF form.mode = "custom" THEN form.end ELSE Empty,
     error |-> FALSE]

\* validateCustom
Valid(f) == f.mode = "preset" \/ ValidCustom(f.start, f.end)

\* refresh gives up on an end that is not valid, not on one that is missing.
Sendable == Valid(form) \/ form.end = Empty

\* Mutant: the duration booked is the chip checked now.
BookFieldsChip(d, mode) ==
    [cw |-> d.cw, ws |-> d.selected, start |-> d.start, end |-> d.end,
     dur |-> IF mode = "preset" THEN form.chip ELSE Empty]

\* The hidden fields of the booking form.
BookFields(d, mode) ==
    [cw |-> d.cw, ws |-> d.selected, start |-> d.start, end |-> d.end,
     dur |-> IF mode = "preset" THEN d.dur ELSE Empty]

\* Mutant: the duration is taken for one on offer.
FormOfAny(d) ==
    [cw |-> d.cw, ws |-> d.selected, start |-> d.start, end |-> d.end,
     chip |-> d.dur, mode |-> "preset"]

\* The inputs as the template fills them; the browser blanks what is no time.
FormOf(d) ==
    [cw |-> d.cw, ws |-> d.selected, start |-> IF d.start = Bad THEN Empty ELSE d.start, end |-> d.end,
     chip |-> IF d.dur \in Durations THEN d.dur ELSE Empty, mode |-> "preset"]

\* late: history, a request sent after the one that is shown was answered before
\* it or failed.  origin: history, the interval the page was loaded with, until
\* the user touches an input.
PageOf(d) ==
    [shown |-> d, book |-> BookFields(d, "preset"), late |-> FALSE,
     origin |-> [from |-> d.from, to |-> d.to]]

\* GET /scheme
Load(t, q) ==
    /\ url' = q
    /\ form' = FormOf(Answer(t, q))
    /\ page' = PageOf(Answer(t, q))
    /\ due' = FALSE
    /\ call' = [c \in Call |-> Idle]

Fresh(cw, ws) ==
    [cw |-> cw, ws |-> ws, start |-> Empty, dur |-> Empty, end |-> Empty, error |-> FALSE]

Init ==
    /\ table = {}
    /\ url \in Links
    /\ form = FormOf(Answer({}, url))
    /\ page = PageOf(Answer({}, url))
    /\ due = FALSE
    /\ call = [c \in Call |-> Idle]
    /\ moves = 0

Move == moves < MaxMoves /\ moves' = moves + 1

-----------------------------------------------------------------------------
(* The user *)

\* The address becomes that of a coworking and a workspace: the times, the duration
\* and the error it was opened with go.
SyncURL(cw, ws) == url' = Fresh(cw, ws)

\* Every listener but that of the end starts the debounce timer anew.
Touch(f, refreshes) ==
    /\ Move
    /\ form' = f
    /\ due' = (due \/ refreshes)
    /\ page' = [page EXCEPT !.origin = None]
    /\ UNCHANGED <<table, call>>

\* Only a seat and a coworking go to the address.
Enter(f, refreshes) == Touch(f, refreshes) /\ UNCHANGED url

\* Mutant: choosing a coworking does not refresh.
ChooseCoworkingQuiet(cw) ==
    /\ cw # form.cw
    /\ Move
    /\ form' = [form EXCEPT !.cw = cw, !.ws = None]
    /\ page' = [page EXCEPT !.origin = None, !.book.cw = cw]
    /\ SyncURL(cw, None)
    /\ UNCHANGED <<table, due, call>>

\* chooseCoworking writes the booking form's coworking too.
ChooseCoworking(cw) ==
    /\ cw # form.cw
    /\ Move
    /\ form' = [form EXCEPT !.cw = cw, !.ws = None]
    /\ page' = [page EXCEPT !.origin = None, !.book.cw = cw]
    /\ SyncURL(cw, None)
    /\ due' = TRUE
    /\ UNCHANGED <<table, call>>

\* A click on one of the seats the map shows now.
ClickSeat(w) ==
    /\ w \in Of(page.shown.cw)
    /\ Touch([form EXCEPT !.ws = w], TRUE)
    /\ SyncURL(form.cw, w)

EnterStart(s) == s # form.start /\ Enter([form EXCEPT !.start = s], TRUE)

\* The end is there to be entered in custom mode only.
EnterEnd(e) ==
    LET f == [form EXCEPT !.end = e] IN
    /\ form.mode = "custom"
    /\ e # form.end
    /\ Enter(f, Valid(f))

CheckChip(d) ==
    /\ form.mode = "preset"
    /\ d # form.chip
    /\ Enter([form EXCEPT !.chip = d], TRUE)

SetMode(m) == m # form.mode /\ Enter([form EXCEPT !.mode = m], TRUE)

\* A page opened by a link or by a refusal asks the same again, error included,
\* until a seat or a coworking is chosen.
Reload ==
    /\ Move
    /\ Load(table, url)
    /\ UNCHANGED table

\* The page offers the booking of its card.
Offered == page.shown.selected # None /\ page.shown.can

CreateFields ==
    [date |-> 0, start |-> page.book.start, end |-> page.book.end, dur |-> page.book.dur,
     error |-> FALSE]

\* POST /bookings/create refuses: an interval it does not admit, a workspace
\* taken meanwhile, or a reason of BookingService.  redirectScheme.
BookRefused ==
    LET iv == Resolve(CreateFields)
        b == page.book
    IN
    /\ Offered
    /\ Move
    /\ Load(table, [cw |-> b.cw, ws |-> b.ws, start |-> b.start, dur |-> Empty,
                    end |-> IF b.dur \in Nat \ {0} THEN iv.to % DayLength ELSE b.end,
                    error |-> TRUE])
    /\ UNCHANGED table

\* The booking is made, and the user comes back to the scheme.
BookMade ==
    LET iv == BookedInterval(CreateFields)
        b == [workspace |-> page.book.ws, from |-> iv.from, to |-> iv.to]
    IN
    /\ Offered
    /\ Move
    /\ iv # Refused
    /\ ~Taken(table, b.workspace, b.from, b.to)
    /\ table' = table \cup {b}
    /\ Load(table \cup {b}, Fresh(First, None))

UserStep ==
    \/ \E cw \in Coworking : ChooseCoworking(cw)
    \/ \E w \in Workspace : ClickSeat(w)
    \/ \E s \in Start : EnterStart(s)
    \/ \E e \in End : EnterEnd(e)
    \/ \E d \in Durations : CheckChip(d)
    \/ \E m \in {"preset", "custom"} : SetMode(m)
    \/ Reload
    \/ BookRefused
    \/ BookMade

-----------------------------------------------------------------------------
(* The timers and the requests *)

InFlight == {c \in Call : call[c] # Idle}

\* before: the requests still in flight when this one is sent.
Send ==
    \E c \in Call \ InFlight :
        call' = [call EXCEPT ![c] = [pc |-> "asked", ask |-> Question,
                                     before |-> InFlight, late |-> FALSE]]

\* Mutant: nothing is asked while no workspace is selected.
RefreshSelected == IF Sendable /\ form.ws # None THEN Send ELSE UNCHANGED call

\* refresh: an interval that is not valid is not asked for.
Refresh == IF Sendable THEN Send ELSE UNCHANGED call

Debounced ==
    /\ due
    /\ due' = FALSE
    /\ Refresh
    /\ UNCHANGED <<table, url, form, page, moves>>

\* setInterval(refresh, 30000), and the submit of the form.
Every30 == Refresh /\ UNCHANGED <<table, url, form, due, page, moves>>

Serve(c) ==
    /\ call[c].pc = "asked"
    /\ call' = [call EXCEPT ![c] = [pc |-> "answered", data |-> Answer(table, call[c].ask),
                                   before |-> call[c].before, late |-> call[c].late]]
    /\ UNCHANGED <<table, url, form, due, page, moves>>

\* The request c is over: those sent before it are late from now on.
Over(c) ==
    [k \in Call |->
        IF k \notin InFlight \ {c} THEN Idle
        ELSE IF k \in call[c].before THEN [call[k] EXCEPT !.late = TRUE]
        ELSE [call[k] EXCEPT !.before = @ \ {c}]]

\* applyData.  Without a selected workspace the card is hidden and the booking
\* form left as it is.
Deliver(c) ==
    LET d == call[c].data IN
    /\ call[c].pc = "answered"
    /\ form' = IF form.mode = "preset" THEN [form EXCEPT !.end = d.end] ELSE form
    /\ page' = [page EXCEPT !.shown = d,
                            !.book = IF d.selected = None THEN @ ELSE BookFields(d, form.mode),
                            !.late = call[c].late]
    /\ call' = Over(c)
    /\ UNCHANGED <<table, url, due, moves>>

\* The network or the server fails: the page stays as it is.
Fail(c) ==
    /\ c \in InFlight
    /\ call' = Over(c)
    /\ page' = [page EXCEPT !.late = @ \/ ~call[c].late]
    /\ UNCHANGED <<table, url, form, due, moves>>

PageStep == Debounced \/ Every30 \/ \E c \in Call : Serve(c) \/ Deliver(c) \/ Fail(c)

-----------------------------------------------------------------------------
(* The others *)

OtherBooks(b) ==
    /\ Move
    /\ ~Taken(table, b.workspace, b.from, b.to)
    /\ table' = table \cup {b}
    /\ UNCHANGED <<url, form, due, call, page>>

OtherCancels(b) ==
    /\ Move
    /\ b \in table
    /\ table' = table \ {b}
    /\ UNCHANGED <<url, form, due, call, page>>

OtherStep == \E b \in Others : OtherBooks(b) \/ OtherCancels(b)

Next == UserStep \/ PageStep \/ OtherStep

Spec == Init /\ [][Next]_pageVars

\* The timers fire, the server answers, and not every request fails.
FairSpec ==
    /\ Spec
    /\ WF_pageVars(Debounced)
    /\ WF_pageVars(Every30)
    /\ \A c \in Call : SF_pageVars(Serve(c)) /\ SF_pageVars(Deliver(c))
-----------------------------------------------------------------------------
(* Properties *)

\* What the page holds: the workspace the inputs keep may be of another
\* coworking, that of a seat clicked on a map about to be replaced.
SchemeTypeOK ==
    /\ \A b \in table : b.workspace \in Workspace /\ b.from < b.to
    /\ form \in [cw: Coworking, ws: Workspace \cup {None}, start: 0 .. DayLength - 1 \cup {Empty},
                 end: 0 .. DayLength - 1 \cup {Empty}, chip: Durations \cup {Empty},
                 mode: {"preset", "custom"}]
    /\ url.cw \in Coworking /\ url.ws \in Workspace \cup {None}
    /\ due \in BOOLEAN
    /\ \A c \in InFlight : call[c].before \subseteq InFlight \ {c}
    /\ page.shown.busy \subseteq Of(page.shown.cw)
    /\ page.shown.selected \in Of(page.shown.cw) \cup {None}
    /\ page.shown.from < page.shown.to
    /\ page.book.ws = None => page.shown.selected = None

AtRest == ~due /\ InFlight = {}

\* The coworking, workspace and interval an answer is about.
About(d) == <<d.cw, d.selected, d.from, d.to>>

\* With nothing scheduled and nothing in flight the page is about what the
\* inputs say, whatever order they were changed and answered in, unless a later
\* request was answered first or failed, the custom interval is not one to ask
\* for, or no duration is checked (a page loaded for another interval).
StaleIsRace ==
    AtRest /\ About(page.shown) # About(Answer(table, Question))
        => \/ page.late
           \/ ~Valid(form)
           \/ form.mode = "preset" /\ form.chip = Empty

\* The button books the workspace and the interval of the card, whatever the
\* inputs and the mode have become since the answer, or nothing: an interval
\* that is too long, or one given by its end.
FormBooksCard ==
    LET shown == [from |-> page.shown.from, to |-> page.shown.to] IN
    Offered =>
        /\ page.book.ws = page.shown.selected
        /\ BookedInterval(CreateFields) \in {Refused, shown}
        /\ page.book.dur \in 1 .. MaxMinutes => BookedInterval(CreateFields) = shown

\* A booking that is refused comes back to its card, though the redirect names
\* the end and not the duration, unless another coworking was chosen meanwhile or
\* the page was opened for a day or longer.
RefusalKeepsCard ==
    [][BookRefused /\ page.book.cw = page.shown.cw /\ page.shown.dur < DayLength
           => About(page'.shown) = About(page.shown)]_pageVars

\* A custom interval the browser lets through has the same length for the
\* server, across midnight too.
BrowserMeansServer ==
    form.mode = "custom" /\ Valid(form)
        => Parsed(Question).dur = ClientMinutes(form.start, form.end)

\* Once everybody leaves the page and the table alone, the page shows what the
\* table holds for its inputs: out of order answers and failures heal.
CatchesUp == <>[](Sendable => page.shown = Answer(table, Question))

\* UC-2, A3: an interval whose end is before its start is an error: the page
\* offers no booking that the handler refuses for its interval.
OfferedIsAdmitted == Offered => BookedInterval(CreateFields) # Refused

\* scheme.js: the refresh every 30 s is for other users' bookings: it leaves the
\* interval of a page nobody has touched.
UntouchedKeepsInterval ==
    page.origin # None => page.origin = [from |-> page.shown.from, to |-> page.shown.to]

\* scheme.js: "keeps /scheme reactive: form changes refresh seat statuses": at
\* rest the page is about what a valid form says.
RestIsCurrent ==
    AtRest /\ Valid(form) /\ page.origin = None
        => About(page.shown) = About(Answer(table, Question))
=============================================================================
