---------------------------- MODULE BookingReport ----------------------------
(***************************************************************************)
(* The administrator's report: ReportRepo.Build counts the bookings of a   *)
(* period in four statements while the handlers of BookingService write,   *)
(* and reportHandler shows and perhaps saves the four blocks together.     *)
(*                                                                         *)
(* A result that breaks off ends the loop over rows.Next like one that is  *)
(* complete, since rows.Err is not asked: a block may hold some of its     *)
(* groups only, the first ones in the order of the statement.              *)
(***************************************************************************)
EXTENDS BookingService

CONSTANTS
    Period,         \* [from, to] pairs forms may carry, valid or not
    Place,          \* name and type of a workspace as the report groups them
    PlaceOf,        \* workspace -> its place; names are unique per coworking
    Day,            \* length of a day
    TopPlaces,      \* LIMIT of the popular places (5)
    TopUsers        \* LIMIT of the active users (10)

ASSUME ReportAssumption ==
    /\ Period \subseteq [from: Nat, to: Nat]
    /\ PlaceOf \in [Workspace -> Place]
    /\ {Day, TopPlaces, TopUsers} \subseteq Nat \ {0}

VARIABLE report     \* the report being built or shown

reportVars == <<vars, report>>

Empty == [k \in {} |-> 0]

Idle == [pc |-> "none"]

ReportInit == Init /\ report = Idle

-----------------------------------------------------------------------------
InPeriod(q) == {i \in Rows : bookings[i].start >= q.from /\ bookings[i].start < q.to}

\* SELECT key, COUNT(*) ... GROUP BY key
CountBy(S, key(_)) == [k \in {key(i) : i \in S} |-> Cardinality({i \in S : key(i) = k})]

Restricted(f, T) == [k \in T |-> f[k]]

Sum(f) == MapThenSumSet(LAMBDA k : f[k], DOMAIN f)

\* The groups of f a block holds when n of them were read, most counted first
\* (equal counts are ordered by name, which is not kept here).
Leading(f, n) ==
    {Restricted(f, T) : T \in {T \in kSubset(n, DOMAIN f) : \A a \in T, b \in DOMAIN f \ T : f[a] >= f[b]}}

FirstDays(f, n) ==
    {Restricted(f, T) : T \in {T \in kSubset(n, DOMAIN f) : \A a \in T, b \in DOMAIN f \ T : a < b}}

Limited(n, limit) == IF n < limit THEN n ELSE limit

-----------------------------------------------------------------------------
(* GET /admin/report: reportHandler *)

\* A period that is not at least one day is answered with an error.  mark,
\* cut, overdue: history, see Totals and Broken.
OpenReport(p) ==
    /\ report = Idle
    /\ p.to > p.from
    /\ report' = [pc |-> "totals", from |-> p.from, to |-> p.to, opened |-> now,
                  mark |-> 0, first |-> {}, cut |-> FALSE, overdue |-> FALSE,
                  status |-> Empty, popular |-> Empty, daily |-> Empty, users |-> Empty]
    /\ UNCHANGED vars

ByStatus(i) == bookings[i].status
ByPlace(i) == PlaceOf[bookings[i].workspace]
ByDay(i) == bookings[i].start \div Day
ByUser(i) == bookings[i].user

\* first, mark: history, the rows counted and nextId.  overdue: a booking that
\* was over when the report was asked for is among the confirmed.
Totals ==
    LET S == InPeriod(report)
        all == CountBy(S, ByStatus)
    IN
    /\ report.pc = "totals"
    /\ \E T \in SUBSET DOMAIN all :
          report' = [report EXCEPT !.pc = "popular", !.status = Restricted(all, T),
                                   !.cut = T # DOMAIN all,
                                   !.mark = nextId, !.first = S,
                                   !.overdue = \E i \in S : Confirmed(i) /\ bookings[i].end <= report.opened]
    /\ UNCHANGED vars

Popular ==
    LET all == CountBy(InPeriod(report), ByPlace)
        whole == Limited(Cardinality(DOMAIN all), TopPlaces)
    IN
    /\ report.pc = "popular"
    /\ \E n \in 0 .. whole : \E block \in Leading(all, n) :
          report' = [report EXCEPT !.pc = "daily", !.popular = block, !.cut = @ \/ n < whole]
    /\ UNCHANGED vars

\* Mutant: cancelled bookings are no load.
DailyHeld ==
    LET all == CountBy({i \in InPeriod(report) : bookings[i].status \in {"CONFIRMED", "COMPLETED"}}, ByDay)
        whole == Cardinality(DOMAIN all)
    IN
    /\ report.pc = "daily"
    /\ \E n \in 0 .. whole : \E block \in FirstDays(all, n) :
          report' = [report EXCEPT !.pc = "users", !.daily = block, !.cut = @ \/ n < whole]
    /\ UNCHANGED vars

Daily ==
    LET all == CountBy(InPeriod(report), ByDay)
        whole == Cardinality(DOMAIN all)
    IN
    /\ report.pc = "daily"
    /\ \E n \in 0 .. whole : \E block \in FirstDays(all, n) :
          report' = [report EXCEPT !.pc = "users", !.daily = block, !.cut = @ \/ n < whole]
    /\ UNCHANGED vars

\* steady: history, no row came or went since the totals were counted.
Users ==
    LET all == CountBy(InPeriod(report), ByUser)
        whole == Limited(Cardinality(DOMAIN all), TopUsers)
    IN
    /\ report.pc = "users"
    /\ \E n \in 0 .. whole : \E block \in Leading(all, n) :
          report' = [pc |-> "shown", from |-> report.from, to |-> report.to,
                     cut |-> report.cut \/ n < whole, overdue |-> report.overdue,
                     steady |-> nextId = report.mark /\ report.first \subseteq Rows,
                     status |-> report.status, popular |-> report.popular,
                     daily |-> report.daily, users |-> block]
    /\ UNCHANGED vars

\* save=1: a row of table reports, which no statement reads, now holds what was
\* built; it is shown all the same.
Save ==
    /\ report.pc = "shown"
    /\ report' = [report EXCEPT !.pc = "saved"]
    /\ UNCHANGED vars

\* A statement fails as a whole or the report is left.
CloseReport ==
    /\ report # Idle
    /\ report' = Idle
    /\ UNCHANGED vars

ReportStep == Totals \/ Popular \/ Daily \/ Users \/ Save \/ CloseReport

ReportNext ==
    \/ Next /\ UNCHANGED report
    \/ \E p \in Period : OpenReport(p)
    \/ ReportStep

ReportSpec == ReportInit /\ [][ReportNext]_reportVars

-----------------------------------------------------------------------------
(* Properties of the report that is shown, and stored by Save *)

Shown == IF report.pc \in {"shown", "saved"} THEN {report} ELSE {}

\* The blocks of a whole report speak of the same bookings, whatever is
\* cancelled, completed or rewritten between its statements: only bookings
\* made or erased meanwhile set them apart.
BlocksAgree ==
    \A q \in Shown : q.steady /\ ~q.cut =>
        LET total == Sum(q.status) IN
        /\ Sum(q.daily) = total
        /\ Sum(q.popular) <= total
        /\ Sum(q.users) <= total
        /\ Cardinality(DOMAIN q.popular) < TopPlaces => Sum(q.popular) = total
        /\ Cardinality(DOMAIN q.users) < TopUsers => Sum(q.users) = total

\* UC-8, rule 9: a technical failure never makes the report show incomplete
\* figures without a warning.
NothingMissing == \A q \in Shown : ~q.cut

\* README, popular places: "топ-5 мест по количеству бронирований": every line
\* of the block counts the bookings of one workspace.
PlacesCounted ==
    \A q \in Shown : q.steady /\ ~q.cut =>
        \A p \in DOMAIN q.popular : \E w \in Workspace :
            /\ PlaceOf[w] = p
            /\ q.popular[p] <= Cardinality({i \in Rows : bookings[i].workspace = w})

\* UC-8, rule 8: confirmed and completed bookings are counted apart: a booking
\* that was over when the report was asked for is not counted as confirmed.
OverNotConfirmed == \A q \in Shown : ~q.overdue
=============================================================================
