---------------------------- MODULE PagesProofs ----------------------------
(***************************************************************************)
(* Theorems about the pages that show bookings while the handlers write,   *)
(* for any number of pages and requests, any filters and without the       *)
(* bounds of the runs.                                                     *)
(***************************************************************************)
EXTENDS BookingPages, ThrottleProofs

-----------------------------------------------------------------------------
(* What a page is, and what it has read *)

Subject == User \cup Workspace \cup {Null}

ListPC == {"sweep", "tables", "list"}

ListPage == [pc: ListPC, page: Lists, of: Subject, at: Nat, swept: BOOLEAN, mark: Nat]

AskedPage == [pc: {"seats"}, page: {"scheme"}, of: User, start: Nat, end: Nat, error: BOOLEAN]

Flags == UNION {[S -> BOOLEAN] : S \in SUBSET Workspace}

Labels == UNION {[S -> Nat] : S \in SUBSET Workspace}

SeatsPage ==
    [pc: {"busy", "cooldown"}, page: {"scheme"}, of: User, start: Nat, end: Nat, error: BOOLEAN,
     seats: Flags, mark: Nat, until: Labels]

ShownList(q) ==
    /\ q.page \in Lists /\ q.of \in Subject
    /\ q.at \in Nat /\ q.mark \in Nat /\ q.swept \in BOOLEAN
    /\ q.rows \in [DOMAIN q.rows -> Status]

ShownScheme(q) ==
    /\ q.page = "scheme" /\ q.of \in User
    /\ q.start \in Nat /\ q.end \in Nat /\ q.mark \in Nat
    /\ q.until \in Labels /\ q.bookable \subseteq q.free

\* The program counter of a page tells which record it is.
PageShape(q) ==
    /\ q.pc \in ListPC \cup {"none", "seats", "busy", "cooldown", "shown"}
    /\ q.pc = "none" => q = [pc |-> "none"]
    /\ q.pc \in ListPC => q \in ListPage
    /\ q.pc = "seats" => q \in AskedPage
    /\ q.pc \in {"busy", "cooldown"} => q \in SeatsPage
    /\ q.pc = "shown" => ShownList(q) \/ ShownScheme(q)
    /\ q.pc \in {"seats", "busy", "cooldown"} \/ (q.pc = "shown" /\ q.page = "scheme") =>
          [start |-> q.start, end |-> q.end] \in Interval

\* No confirmed booking the page could see takes w in the interval asked for.
NoneTakes(q, w) ==
    \A i \in Rows : i < q.mark /\ bookings[i].workspace = w /\ Confirmed(i)
                        => ~Overlaps(i, q.start, q.end)

\* What the statements of a page have established and no later step of anybody
\* undoes: after the sweep, no older booking over by then is confirmed; after
\* ListBusyDetails, no older booking takes a seat that has no label.
PageRead(q) ==
    /\ q.pc \in ListPC \/ (q.pc = "shown" /\ q.page \in Lists) =>
          q.at <= now /\ q.mark <= nextId
    /\ q.pc \in ListPC /\ q.swept =>
          \A i \in Rows : i < q.mark /\ Confirmed(i) => bookings[i].end > q.at
    /\ q.pc = "shown" /\ q.page \in Lists /\ q.swept =>
          \A i \in Rows : /\ i \in DOMAIN q.rows /\ q.rows[i] = "CONFIRMED"
                          /\ i < q.mark
                          => bookings[i].end > q.at
    /\ q.pc \in {"busy", "cooldown"} \/ (q.pc = "shown" /\ q.page = "scheme") => q.mark <= nextId
    /\ q.pc = "cooldown" /\ ~q.error => \A w : w \notin DOMAIN q.until => NoneTakes(q, w)
    /\ q.pc = "shown" /\ q.page = "scheme" /\ ~q.error => \A w \in q.free : NoneTakes(q, w)

PagesInv ==
    /\ TypeOK
    /\ StatusTargets
    /\ visit = [v \in Visitor |-> visit[v]]
    /\ \A v \in Visitor : PageShape(visit[v]) /\ PageRead(visit[v])

LEMMA FlagsAre ==
    /\ \A f \in Flags : f \in [DOMAIN f -> BOOLEAN]
    /\ \A f : DOMAIN f \subseteq Workspace /\ f \in [DOMAIN f -> BOOLEAN] => f \in Flags
BY DEF Flags

LEMMA LabelsAre ==
    /\ \A f \in Labels : f \in [DOMAIN f -> Nat]
    /\ \A f : DOMAIN f \subseteq Workspace /\ f \in [DOMAIN f -> Nat] => f \in Labels
BY DEF Labels

-----------------------------------------------------------------------------
(* What others write does not undo what a page has read *)

LEMMA PageReadStays ==
    ASSUME TypeOK, TypeOK', RowStep, NEW q, PageShape(q), PageRead(q)
    PROVE  PageRead(q)'
<1>1. /\ nextId \in Nat /\ nextId' \in Nat /\ nextId' >= nextId
      /\ now \in Nat /\ now' \in Nat /\ now' >= now
  BY OldRows DEF RowStep, TypeOK, RepoType
<1>2. ASSUME NEW i \in Rows', i < nextId PROVE i \in Rows /\ Kept(i)
  BY <1>2, OldRows
<1>3. \A i \in Rows' : i \in Nat
  BY DEF TypeOK, RepoType, Rows
<1>4. ASSUME NEW w, q.mark \in Nat, q.mark <= nextId, NoneTakes(q, w) PROVE NoneTakes(q, w)'
  BY <1>1, <1>2, <1>3, <1>4 DEF NoneTakes, Kept, Overlaps
<1>5. CASE q.pc \in ListPC
  <2>1. q.at \in Nat /\ q.mark \in Nat /\ q.at <= now /\ q.mark <= nextId
    BY <1>5 DEF PageShape, ListPage, PageRead
  <2>2. ASSUME q.swept, NEW i \in Rows', i < q.mark, Confirmed(i)'
        PROVE  bookings'[i].end > q.at
    <3>1. i \in Rows /\ Kept(i)
      BY <1>1, <1>2, <1>3, <2>1, <2>2
    <3>. QED  BY <1>5, <2>2, <3>1 DEF PageRead, Kept
  <2>. QED  BY <1>1, <1>5, <2>1, <2>2 DEF PageRead, ListPC
<1>6. CASE q.pc = "shown" /\ ShownList(q)
  <2>1. /\ q.page \in Lists /\ q.page # "scheme"
        /\ q.at \in Nat /\ q.mark \in Nat /\ q.at <= now /\ q.mark <= nextId
    BY <1>6 DEF ShownList, PageRead, Lists
  <2>2. ASSUME q.swept, NEW i \in Rows', i \in DOMAIN q.rows, q.rows[i] = "CONFIRMED", i < q.mark
        PROVE  bookings'[i].end > q.at
    <3>1. i \in Rows /\ Kept(i)
      BY <1>1, <1>2, <1>3, <2>1, <2>2
    <3>. QED  BY <1>6, <2>1, <2>2, <3>1 DEF PageRead, Kept
  <2>. QED  BY <1>1, <1>6, <2>1, <2>2 DEF PageRead, ListPC
<1>7. CASE q.pc = "shown" /\ ShownScheme(q)
  <2>1. q.page = "scheme" /\ q.page \notin Lists /\ q.mark \in Nat /\ q.mark <= nextId
    BY <1>7 DEF ShownScheme, PageRead, Lists
  <2>. QED  BY <1>1, <1>4, <1>7, <2>1 DEF PageRead, ListPC
<1>8. CASE q.pc \in {"busy", "cooldown"}
  <2>1. q.mark \in Nat /\ q.mark <= nextId
    BY <1>8 DEF PageShape, SeatsPage, PageRead
  <2>. QED  BY <1>1, <1>4, <1>8, <2>1 DEF PageRead, ListPC
<1>9. CASE q.pc \in {"none", "seats"}
  BY <1>9 DEF PageRead, ListPC
<1>. QED  BY <1>5, <1>6, <1>7, <1>8, <1>9 DEF PageShape

\* Where no row, no id and no clock moves, what has been read is as true after
\* the step as before it.
LEMMA PageReadSame ==
    ASSUME UNCHANGED <<bookings, nextId, now>>
    PROVE  \A q : PageRead(q) => PageRead(q)'
BY DEF PageRead, NoneTakes, Rows, Confirmed, Overlaps

\* One page goes on, the others and the tables stay.
LEMMA PageMoves ==
    ASSUME PagesInv, UNCHANGED vars, NEW v \in Visitor, NEW page,
           visit' = [visit EXCEPT ![v] = page], PageShape(page), PageRead(page)
    PROVE  PagesInv'
<1>1. TypeOK' /\ StatusTargets'
  BY DEF PagesInv, vars, TypeOK, RepoType, Rows, StatusTargets, At
<1>2. visit' = [u \in Visitor |-> visit'[u]]
  BY DEF PagesInv
<1>3. \A u \in Visitor : PageShape(visit'[u]) /\ PageRead(visit'[u])
  BY DEF PagesInv
<1>4. ASSUME NEW u \in Visitor PROVE PageShape(visit[u])' /\ PageRead(visit[u])'
  <2>. PICK q : q = visit'[u]
    OBVIOUS
  <2>1. PageRead(q)'
    BY <1>3, PageReadSame DEF vars
  <2>2. PageShape(q)
    BY <1>3
  <2>3. PageShape(visit[u])'
    BY <2>2 DEF PageShape, ShownList, ShownScheme
  <2>. QED  BY <2>1, <2>3
<1>. QED  BY <1>1, <1>2, <1>4 DEF PagesInv

-----------------------------------------------------------------------------
(* Opening and closing *)

LEMMA OpenListInv ==
    ASSUME PagesInv, NEW v \in Visitor, NEW page \in Lists, NEW of \in Subject, OpenList(v, page, of)
    PROVE  PagesInv'
<1>. DEFINE new == [pc |-> "sweep", page |-> page, of |-> of, at |-> now, swept |-> FALSE, mark |-> 0]
<1>1. now \in Nat /\ nextId \in Nat
  BY DEF PagesInv, TypeOK, RepoType
<1>2. PageShape(new)
  BY <1>1 DEF PageShape, ListPage, ListPC
<1>3. PageRead(new)
  BY <1>1 DEF PageRead, ListPC
<1>4. visit' = [visit EXCEPT ![v] = new] /\ UNCHANGED vars
  BY DEF OpenList, Open
<1>. HIDE DEF new
<1>. QED  BY <1>2, <1>3, <1>4, PageMoves

LEMMA OpenSchemeInv ==
    ASSUME PagesInv, NEW v \in Visitor, NEW u \in User, NEW iv \in Interval, NEW error \in BOOLEAN,
           OpenScheme(v, u, iv, error)
    PROVE  PagesInv'
<1>. DEFINE new == [pc |-> "seats", page |-> "scheme", of |-> u, start |-> iv.start, end |-> iv.end,
                    error |-> error]
<1>1. iv.start \in Nat /\ iv.end \in Nat /\ iv = [start |-> iv.start, end |-> iv.end]
  BY IntervalAssumption
<1>2. PageShape(new)
  BY <1>1 DEF PageShape, AskedPage, ListPC
<1>3. PageRead(new)
  BY DEF PageRead, ListPC
<1>4. visit' = [visit EXCEPT ![v] = new] /\ UNCHANGED vars
  BY DEF OpenScheme, Open
<1>. HIDE DEF new
<1>. QED  BY <1>2, <1>3, <1>4, PageMoves

LEMMA CloseInv ==
    ASSUME PagesInv, NEW v \in Visitor, Close(v)
    PROVE  PagesInv'
<1>1. PageShape([pc |-> "none"]) /\ PageRead([pc |-> "none"])
  BY DEF PageShape, PageRead, ListPC
<1>. QED  BY <1>1, PageMoves DEF Close

-----------------------------------------------------------------------------
(* Lists *)

\* A statement of which only the success matters.
LEMMA ListGoesOn ==
    ASSUME PagesInv, NEW v \in Visitor, NEW pc \in {"tables", "list"}, visit[v].pc \in {"sweep", "tables"},
           NextStatement(v, pc), UNCHANGED vars
    PROVE  PagesInv'
<1>. DEFINE q == visit[v]
            new == [q EXCEPT !.pc = pc]
<1>1. q \in ListPage /\ PageRead(q)
  BY DEF PagesInv, PageShape, ListPC
<1>2. new \in ListPage /\ new.pc = pc /\ new.at = q.at /\ new.mark = q.mark /\ new.swept = q.swept
  BY <1>1 DEF ListPage, ListPC
<1>3. PageShape(new)
  BY <1>2 DEF PageShape, ListPC
<1>4. PageRead(new)
  BY <1>1, <1>2 DEF PageRead, ListPC
<1>5. visit' = [visit EXCEPT ![v] = new]
  BY DEF NextStatement
<1>. HIDE DEF new
<1>. QED  BY <1>3, <1>4, <1>5, PageMoves

\* The list shows the status the rows have, and the sweep has left none of the
\* older ones confirmed that was over.
LEMMA ShowRowsInv ==
    ASSUME PagesInv, NEW v \in Visitor, On(v, "list"), NEW filter, NEW S, S \subseteq Rows,
           ShowRows(v, filter, S)
    PROVE  PagesInv'
<1>. DEFINE q == visit[v]
            status == [i \in S |-> bookings[i].status]
            new == [pc |-> "shown", page |-> q.page, of |-> q.of, filter |-> filter,
                    at |-> q.at, swept |-> q.swept, mark |-> q.mark, rows |-> status]
<1>1. q \in ListPage /\ PageRead(q) /\ q.pc = "list"
  BY DEF PagesInv, PageShape, ListPC, On
<1>2. q.page \in Lists /\ q.page # "scheme"
  BY <1>1 DEF ListPage, Lists
<1>3. ShownList(new)
  <2>1. status \in [S -> Status] /\ DOMAIN status = S
    BY DEF PagesInv, TypeOK, RepoType, Rows, Row
  <2>. HIDE DEF status
  <2>. QED  BY <1>1, <2>1 DEF ListPage, ShownList
<1>4. PageShape(new)
  BY <1>2, <1>3 DEF PageShape, ListPC
<1>5. PageRead(new)
  <2>1. q.at <= now /\ q.mark <= nextId
    BY <1>1 DEF PageRead, ListPC
  <2>2. ASSUME q.swept, NEW i \in Rows, i \in S, status[i] = "CONFIRMED", i < q.mark
        PROVE  bookings[i].end > q.at
    BY <1>1, <2>2 DEF PageRead, ListPC, Confirmed
  <2>3. DOMAIN status = S
    OBVIOUS
  <2>. HIDE DEF status
  <2>. QED  BY <1>2, <2>1, <2>2, <2>3 DEF PageRead, ListPC
<1>6. visit' = [visit EXCEPT ![v] = new] /\ UNCHANGED vars
  BY DEF ShowRows, Show
<1>. HIDE DEF new
<1>. QED  BY <1>4, <1>5, <1>6, PageMoves

-----------------------------------------------------------------------------
(* The scheme *)

LEMMA ReadSeatsInv ==
    ASSUME PagesInv, NEW v \in Visitor, ReadSeats(v)
    PROVE  PagesInv'
<1>. DEFINE q == visit[v]
            none == [w \in {} |-> 0]
            new == [pc |-> "busy", page |-> "scheme", of |-> q.of, start |-> q.start, end |-> q.end,
                    error |-> q.error, seats |-> available, mark |-> 0, until |-> none]
<1>1. q \in AskedPage /\ [start |-> q.start, end |-> q.end] \in Interval
  BY DEF PagesInv, PageShape, ReadSeats, On
<1>2. available \in Flags /\ nextId \in Nat
  BY FlagsAre DEF PagesInv, TypeOK, RepoType
<1>3. none \in Labels
  <2>1. DOMAIN none = {} /\ none \in [{} -> Nat]
    OBVIOUS
  <2>. HIDE DEF none
  <2>. QED  BY <2>1, LabelsAre
<1>. HIDE DEF none
<1>4. new \in SeatsPage
  BY <1>1, <1>2, <1>3 DEF AskedPage, SeatsPage
<1>5. PageShape(new)
  BY <1>1, <1>4 DEF PageShape, ListPC
<1>6. PageRead(new)
  BY <1>2 DEF PageRead, ListPC
<1>7. visit' = [visit EXCEPT ![v] = new] /\ UNCHANGED vars
  BY DEF ReadSeats, Show, none
<1>. HIDE DEF new
<1>. QED  BY <1>5, <1>6, <1>7, PageMoves

\* The label of a busy seat is the end of one of its bookings.
LEMMA BusyDetailsAre ==
    ASSUME TypeOK, NEW start, NEW end
    PROVE  /\ BusyDetails(start, end) \in Labels
           /\ \A i \in Rows : Confirmed(i) /\ Overlaps(i, start, end)
                                  => bookings[i].workspace \in DOMAIN BusyDetails(start, end)
<1>. DEFINE busy == {i \in Rows : Confirmed(i) /\ Overlaps(i, start, end)}
            ends(w) == {bookings[i].end : i \in {j \in busy : bookings[j].workspace = w}}
            places == {bookings[i].workspace : i \in busy}
            d == BusyDetails(start, end)
<1>1. d = [w \in places |-> Min(ends(w))]
  BY DEF BusyDetails
<1>2. \A i \in Rows : bookings[i].workspace \in Workspace /\ bookings[i].end \in Nat
  BY DEF TypeOK, RepoType, Rows, Row
<1>3. ASSUME NEW w \in places PROVE Min(ends(w)) \in Nat
  <2>1. ends(w) \subseteq Nat /\ ends(w) # {}
    BY <1>2
  <2>. HIDE DEF ends
  <2>2. Min(ends(w)) \in ends(w)
    <3>. PICK T \in SUBSET Nat : T = ends(w)
      BY <2>1
    <3>. QED  BY <2>1, MinOfNats
  <2>. QED  BY <2>1, <2>2
<1>4. places \subseteq Workspace
  BY <1>2
<1>. HIDE DEF ends
<1>5. d \in [places -> Nat] /\ DOMAIN d = places
  BY <1>1, <1>3
<1>6. d \in Labels
  <2>. HIDE DEF d, places
  <2>. QED  BY <1>4, <1>5, LabelsAre
<1>. QED  BY <1>5, <1>6

LEMMA ReadBusyInv ==
    ASSUME PagesInv, NEW v \in Visitor, ReadBusy(v)
    PROVE  PagesInv'
<1>. DEFINE q == visit[v]
            until == IF q.error THEN q.until ELSE BusyDetails(q.start, q.end)
            new == [q EXCEPT !.pc = "cooldown", !.mark = nextId, !.until = until]
<1>1. q \in SeatsPage /\ [start |-> q.start, end |-> q.end] \in Interval
  BY DEF PagesInv, PageShape, ReadBusy, On
<1>2. nextId \in Nat /\ TypeOK
  BY DEF PagesInv, TypeOK, RepoType
<1>3. until \in Labels
  BY <1>1, <1>2, BusyDetailsAre DEF SeatsPage
<1>4. ~q.error => \A i \in Rows : Confirmed(i) /\ Overlaps(i, q.start, q.end)
                                     => bookings[i].workspace \in DOMAIN until
  BY <1>2, BusyDetailsAre
<1>. HIDE DEF until
<1>5. /\ new \in SeatsPage /\ new.pc = "cooldown" /\ new.mark = nextId /\ new.until = until
      /\ new.start = q.start /\ new.end = q.end /\ new.error = q.error
  BY <1>1, <1>2, <1>3 DEF SeatsPage
<1>6. visit' = [visit EXCEPT ![v] = new] /\ UNCHANGED vars
  BY DEF ReadBusy, until
<1>. HIDE DEF new
<1>7. PageShape(new)
  BY <1>1, <1>5 DEF PageShape, ListPC
<1>8. PageRead(new)
  BY <1>2, <1>4, <1>5 DEF PageRead, NoneTakes, ListPC
<1>. QED  BY <1>6, <1>7, <1>8, PageMoves

LEMMA ShowSeatsInv ==
    ASSUME PagesInv, NEW v \in Visitor, NEW blocked, ShowSeats(v, blocked)
    PROVE  PagesInv'
<1>. DEFINE q == visit[v]
            free == Free(q)
            bookable == IF q.error \/ blocked THEN {} ELSE free
            new == [pc |-> "shown", page |-> "scheme", of |-> q.of, start |-> q.start, end |-> q.end,
                    error |-> q.error, mark |-> q.mark, free |-> free, until |-> q.until,
                    bookable |-> bookable]
<1>1. /\ q \in SeatsPage /\ q.pc = "cooldown" /\ PageRead(q)
      /\ [start |-> q.start, end |-> q.end] \in Interval
  BY DEF PagesInv, PageShape, ShowSeats, On
<1>2. visit' = [visit EXCEPT ![v] = new] /\ UNCHANGED vars
  BY DEF ShowSeats, Show
<1>3. \A w \in free : w \notin DOMAIN q.until
  BY DEF Free
<1>4. bookable \subseteq free
  OBVIOUS
<1>. HIDE DEF free, bookable
<1>5. ShownScheme(new)
  BY <1>1, <1>4 DEF SeatsPage, ShownScheme
<1>6. PageShape(new)
  BY <1>1, <1>5 DEF PageShape, ListPC
<1>7. PageRead(new)
  <2>1. ASSUME ~q.error, NEW w \in free PROVE NoneTakes(new, w)
    <3>1. NoneTakes(q, w)
      BY <1>1, <1>3, <2>1 DEF PageRead
    <3>. QED  BY <3>1 DEF NoneTakes
  <2>2. q.mark <= nextId
    BY <1>1 DEF PageRead
  <2>. QED  BY <2>1, <2>2 DEF PageRead, Lists, ListPC
<1>. HIDE DEF new
<1>. QED  BY <1>2, <1>6, <1>7, PageMoves

-----------------------------------------------------------------------------
(* The sweep of a page *)

\* MarkPastCompleted keeps the rows and their terms, and leaves none confirmed
\* that was over at the time t the page has read.
LEMMA SweepRows ==
    ASSUME TypeOK, NEW t \in Nat, MarkPastCompleted(t), UNCHANGED <<now, available, maxActive, req, saw>>
    PROVE  /\ TypeOK' /\ RowStep
           /\ nextId' = nextId
           /\ \A i \in Rows' : Confirmed(i)' => bookings'[i].end > t
<1>. DEFINE over == {i \in Rows : Confirmed(i) /\ bookings[i].end <= t}
<1>0. RepoType /\ now \in Nat /\ SetStatus(over, "COMPLETED") /\ "COMPLETED" \in Status
  BY DEF TypeOK, MarkPastCompleted, Status
<1>1. RepoType' /\ Rows' = Rows /\ nextId' = nextId
  BY <1>0, SetStatusRows
<1>2. \A i \in Rows : bookings'[i] = IF i \in over THEN [bookings[i] EXCEPT !.status = "COMPLETED"]
                                     ELSE bookings[i]
  BY <1>0, SetStatusRows
<1>3. ASSUME NEW i \in Rows PROVE Kept(i) /\ (Confirmed(i)' => bookings'[i].end > t)
  <2>1. bookings[i] \in Row /\ bookings[i].end \in Nat
    BY <1>0 DEF RepoType, Rows, Row
  <2>2. CASE i \in over
    <3>1. bookings'[i] = [bookings[i] EXCEPT !.status = "COMPLETED"]
      BY <1>2, <2>2
    <3>. QED  BY <2>1, <3>1 DEF Kept, Confirmed, Row
  <2>3. CASE i \notin over
    <3>1. bookings'[i] = bookings[i]
      BY <1>2, <2>3
    <3>2. Confirmed(i) => bookings[i].end > t
      BY <2>1, <2>3
    <3>. QED  BY <3>1, <3>2 DEF Kept, Confirmed
  <2>. QED  BY <2>2, <2>3
<1>4. TypeOK'
  BY <1>1 DEF TypeOK
<1>5. RowStep
  BY <1>0, <1>1, <1>3 DEF RowStep
<1>. QED  BY <1>1, <1>3, <1>4, <1>5

LEMMA SweepPageInv ==
    ASSUME PagesInv, NEW v \in Visitor, SweepPage(v)
    PROVE  PagesInv'
<1>. DEFINE q == visit[v]
            pc == AfterSweep(q.page)
            new == [q EXCEPT !.pc = pc, !.swept = TRUE, !.mark = nextId]
<1>1. q \in ListPage /\ PageRead(q) /\ q.pc = "sweep"
  BY DEF PagesInv, PageShape, ListPC, SweepPage, On
<1>2. TypeOK /\ q.at \in Nat /\ nextId \in Nat /\ now \in Nat
  BY <1>1 DEF PagesInv, TypeOK, RepoType, ListPage
<1>3. /\ TypeOK' /\ RowStep /\ nextId' = nextId
      /\ \A i \in Rows' : Confirmed(i)' => bookings'[i].end > q.at
  BY <1>2, SweepRows DEF SweepPage
<1>4. StatusTargets'
  BY DEF PagesInv, SweepPage, StatusTargets, At
<1>5. visit' = [visit EXCEPT ![v] = new] /\ now' = now
  BY DEF SweepPage
<1>6. pc \in {"tables", "list"}
  BY DEF AfterSweep
<1>. HIDE DEF pc
<1>7. /\ new \in ListPage /\ new.pc = pc /\ new.at = q.at /\ new.mark = nextId
  BY <1>1, <1>2, <1>6 DEF ListPage, ListPC
<1>8. PageShape(new)
  BY <1>6, <1>7 DEF PageShape, ListPC
<1>. HIDE DEF new
<1>9. ASSUME NEW u \in Visitor PROVE PageShape(visit[u])' /\ PageRead(visit[u])'
  <2>1. CASE u = v
    <3>. PICK p : p = new
      OBVIOUS
    <3>1. p = visit'[v]
      BY <1>5 DEF PagesInv
    <3>2. PageRead(p)'
      <4>1. p.pc \in {"tables", "list"} /\ p.at = q.at /\ p.mark = nextId /\ q.at <= now
        BY <1>1, <1>6, <1>7 DEF PageRead, ListPC
      <4>. QED  BY <1>2, <1>3, <1>5, <4>1 DEF PageRead, ListPC
    <3>3. PageShape(p)'
      BY <1>8 DEF PageShape, ShownList, ShownScheme
    <3>. QED  BY <2>1, <3>1, <3>2, <3>3
  <2>2. CASE u # v
    <3>. PICK p : p = visit[u]
      OBVIOUS
    <3>1. PageShape(p) /\ PageRead(p) /\ p = visit'[u]
      BY <1>5, <2>2 DEF PagesInv
    <3>2. PageRead(p)'
      BY <1>2, <1>3, <3>1, PageReadStays
    <3>3. PageShape(p)'
      BY <3>1 DEF PageShape, ShownList, ShownScheme
    <3>. QED  BY <3>1, <3>2, <3>3
  <2>. QED  BY <2>1, <2>2
<1>10. visit' = [u \in Visitor |-> visit'[u]]
  BY <1>5 DEF PagesInv
<1>. QED  BY <1>3, <1>4, <1>9, <1>10 DEF PagesInv

-----------------------------------------------------------------------------
(* Every step *)

LEMMA HandlerInv ==
    ASSUME PagesInv, [Next]_vars, UNCHANGED visit
    PROVE  PagesInv'
<1>1. TypeOK' /\ RowStep /\ StatusTargets'
  BY NextType, StepShape DEF PagesInv
<1>2. ASSUME NEW u \in Visitor PROVE PageShape(visit[u])' /\ PageRead(visit[u])'
  <2>. PICK p : p = visit[u]
    OBVIOUS
  <2>1. PageShape(p) /\ PageRead(p) /\ p = visit'[u] /\ TypeOK
    BY DEF PagesInv
  <2>2. PageRead(p)'
    BY <1>1, <2>1, PageReadStays
  <2>3. PageShape(p)'
    BY <2>1 DEF PageShape, ShownList, ShownScheme
  <2>. QED  BY <2>1, <2>2, <2>3
<1>. QED  BY <1>1, <1>2 DEF PagesInv

LEMMA PagesNextInv ==
    ASSUME PagesInv, [PagesNext]_pagesVars
    PROVE  PagesInv'
<1>1. CASE [Next]_vars /\ UNCHANGED visit
  BY <1>1, HandlerInv
<1>2. ASSUME NEW v \in Visitor, Visit(v) PROVE PagesInv'
  <2>1. \A u \in User : u \in Subject
    BY DEF Subject
  <2>2. \A w \in Workspace : w \in Subject
    BY DEF Subject
  <2>3. Null \in Subject /\ {"bookings", "history", "admin"} = Lists
    BY DEF Subject, Lists
  <2>. QED  BY <1>2, <2>1, <2>2, <2>3, OpenListInv, OpenSchemeInv DEF Visit
<1>3. ASSUME NEW v \in Visitor, SweepPage(v) PROVE PagesInv'
  BY <1>3, SweepPageInv
<1>4. ASSUME NEW v \in Visitor, SweepPageFails(v) PROVE PagesInv'
  BY <1>4, ListGoesOn DEF SweepPageFails, AfterSweep, On
<1>5. ASSUME NEW v \in Visitor, ReadTables(v) PROVE PagesInv'
  BY <1>5, ListGoesOn DEF ReadTables, On
<1>6. ASSUME NEW v \in Visitor, ListBookings(v) PROVE PagesInv'
  <2>1. PICK status \in {"ALL", "CONFIRMED", "COMPLETED", "CANCELLED"}, period \in {"all", "future", "past"} :
           /\ On(v, "list")
           /\ ShowRows(v, period, {i \in ListByUser(visit[v].of) :
                                      StatusMatches(i, status) /\ PeriodMatches(i, period)})
    BY <1>6 DEF ListBookings
  <2>. DEFINE S == {i \in ListByUser(visit[v].of) : StatusMatches(i, status) /\ PeriodMatches(i, period)}
  <2>2. S \subseteq Rows /\ ShowRows(v, period, S)
    BY <2>1 DEF ListByUser
  <2>. HIDE DEF S
  <2>. QED  BY <2>1, <2>2, ShowRowsInv
<1>7. ASSUME NEW v \in Visitor, ListHistory(v) PROVE PagesInv'
  <2>1. PICK filter \in {"all", "today", "active", "future", "past"} :
           /\ On(v, "list")
           /\ ShowRows(v, filter, {i \in ListByWorkspace(visit[v].of) : HistoryMatches(i, filter)})
    BY <1>7 DEF ListHistory
  <2>. DEFINE S == {i \in ListByWorkspace(visit[v].of) : HistoryMatches(i, filter)}
  <2>2. S \subseteq Rows /\ ShowRows(v, filter, S)
    BY <2>1 DEF ListByWorkspace
  <2>. HIDE DEF S
  <2>. QED  BY <2>1, <2>2, ShowRowsInv
<1>8. ASSUME NEW v \in Visitor, ListForAdmin(v) PROVE PagesInv'
  <2>1. PICK S \in SUBSET Rows : On(v, "list") /\ ShowRows(v, "all", S)
    BY <1>8 DEF ListForAdmin, ListAll
  <2>. QED  BY <2>1, ShowRowsInv
<1>9. ASSUME NEW v \in Visitor, ReadSeats(v) \/ ReadBusy(v) PROVE PagesInv'
  BY <1>9, ReadSeatsInv, ReadBusyInv
<1>10. ASSUME NEW v \in Visitor, ReadCooldown(v) \/ ReadCooldownFails(v) PROVE PagesInv'
  BY <1>10, ShowSeatsInv DEF ReadCooldown, ReadCooldownFails
<1>11. ASSUME NEW v \in Visitor, Close(v) PROVE PagesInv'
  BY <1>11, CloseInv
<1>12. CASE UNCHANGED pagesVars
  BY <1>1, <1>12 DEF pagesVars
<1>. QED
  BY <1>1, <1>2, <1>3, <1>4, <1>5, <1>6, <1>7, <1>8, <1>9, <1>10, <1>11, <1>12
  DEF PagesNext, MakePage

LEMMA PagesInvHolds == PagesSpec => []PagesInv
<1>1. PagesInit => PagesInv
  <2>. SUFFICES ASSUME PagesInit PROVE PagesInv
    OBVIOUS
  <2>1. TypeOK /\ StatusTargets
    BY InitType DEF PagesInit, Init, StatusTargets, At
  <2>2. PageShape([pc |-> "none"]) /\ PageRead([pc |-> "none"])
    BY DEF PageShape, PageRead, ListPC
  <2>. QED  BY <2>1, <2>2 DEF PagesInit, PagesInv
<1>. QED  BY <1>1, PagesNextInv, PTL DEF PagesSpec

-----------------------------------------------------------------------------
(* What the pages show *)

\* A page in progress or on a screen holds what its statements have read, in
\* whatever order its requests, the handlers and the clock run: its times and
\* marks are in the past, and no seat can be booked that is not shown free.
THEOREM PageTypeCorrect == PagesSpec => []PageTypeOK
<1>1. PagesInv => PageTypeOK
  <2>. SUFFICES ASSUME PagesInv, NEW v \in Visitor, visit[v] # [pc |-> "none"]
                PROVE  LET q == visit[v] IN
                       \/ /\ q.page \in Lists
                          /\ q.pc \in {"sweep", "tables", "list", "shown"}
                          /\ q.of \in User \cup Workspace \cup {Null}
                          /\ q.at <= now /\ q.mark <= nextId
                          /\ q.pc = "shown" => q.rows \in [DOMAIN q.rows -> Status]
                       \/ /\ q.page = "scheme"
                          /\ q.pc \in {"seats", "busy", "cooldown", "shown"}
                          /\ q.of \in User /\ [start |-> q.start, end |-> q.end] \in Interval
                          /\ q.pc \in {"busy", "cooldown"} => q.seats \in [DOMAIN q.seats -> BOOLEAN]
                          /\ q.pc = "shown" => q.until \in [DOMAIN q.until -> Nat] /\ q.bookable \subseteq q.free
    BY DEF PageTypeOK
  <2>. PICK q : q = visit[v]
    OBVIOUS
  <2>0. PageShape(q) /\ PageRead(q) /\ q.pc # "none"
    BY DEF PagesInv, PageShape
  <2>1. CASE q.pc \in ListPC
    BY <2>0, <2>1 DEF PageShape, PageRead, ListPage, ListPC, Subject
  <2>2. CASE q.pc = "shown" /\ ShownList(q)
    BY <2>0, <2>2 DEF PageRead, ShownList, Subject
  <2>3. CASE q.pc = "shown" /\ ShownScheme(q)
    BY <2>0, <2>3, LabelsAre DEF PageShape, ShownScheme
  <2>4. CASE q.pc = "seats"
    BY <2>0, <2>4 DEF PageShape, AskedPage
  <2>5. CASE q.pc \in {"busy", "cooldown"}
    BY <2>0, <2>5, FlagsAre DEF PageShape, SeatsPage
  <2>. QED  BY <2>0, <2>1, <2>2, <2>3, <2>4, <2>5 DEF PageShape
<1>. QED  BY <1>1, PagesInvHolds, PTL

\* A list that shows as confirmed a booking that was over when the page read the
\* clock had its sweep fail, or the booking was inserted after the sweep.
THEOREM OverdueShownOnlyByRace == PagesSpec => []OverdueShownIsRace
<1>1. PagesInv => OverdueShownIsRace
  <2>. SUFFICES ASSUME PagesInv, NEW v \in Visitor, Listing(v), NEW i \in DOMAIN visit[v].rows \cap Rows,
                       visit[v].rows[i] = "CONFIRMED", bookings[i].end <= visit[v].at,
                       visit[v].swept, ~(i >= visit[v].mark)
                PROVE  FALSE
    BY DEF OverdueShownIsRace
  <2>. PICK q : q = visit[v]
    OBVIOUS
  <2>1. PageShape(q) /\ PageRead(q) /\ q.pc = "shown" /\ q.page \in Lists
    BY DEF PagesInv, Listing, On
  <2>2. ShownList(q)
    BY <2>1 DEF PageShape, ShownScheme, Lists
  <2>3. i \in Nat /\ bookings[i].end \in Nat /\ q.mark \in Nat /\ q.at \in Nat
    BY <2>2 DEF ShownList, PagesInv, TypeOK, RepoType, Rows, Row
  <2>4. i < q.mark
    BY <2>3
  <2>5. bookings[i].end > q.at
    BY <2>1, <2>4 DEF PageRead
  <2>. QED  BY <2>3, <2>5
<1>. QED  BY <1>1, PagesInvHolds, PTL

\* A seat shown free is free for as long as the page is on the screen, but for
\* bookings inserted after ListBusyDetails: who books it is refused only for one
\* of these.
THEOREM FreeSeatsStayFree == PagesSpec => []FreeSeatStaysFree
<1>1. PagesInv => FreeSeatStaysFree
  BY DEF PagesInv, PageRead, NoneTakes, FreeSeatStaysFree, On
<1>. QED  BY <1>1, PagesInvHolds, PTL

-----------------------------------------------------------------------------
(* What the pages leave to the handlers *)

\* Of all a page does only its sweep writes, and that is MarkPastCompleted.
LEMMA PageStep ==
    ASSUME PagesInv, [PagesNext]_pagesVars
    PROVE  \/ [Next]_vars
           \/ \E t \in Nat : MarkPastCompleted(t) /\ UNCHANGED <<now, available, maxActive, req, saw>>
<1>1. ASSUME NEW v \in Visitor, SweepPage(v)
      PROVE  visit[v].at \in Nat
  <2>1. visit[v] \in ListPage
    BY <1>1 DEF PagesInv, PageShape, ListPC, SweepPage, On
  <2>. QED  BY <2>1 DEF ListPage
<1>2. ASSUME NEW v \in Visitor, Visit(v) \/ MakePage(v) \/ Close(v), ~SweepPage(v)
      PROVE  UNCHANGED vars
  BY <1>2 DEF Visit, OpenList, OpenScheme, MakePage, SweepPageFails, ReadTables, ListBookings,
     ListHistory, ListForAdmin, ShowRows, ReadSeats, ReadBusy, ReadCooldown, ReadCooldownFails,
     ShowSeats, Close
<1>. QED  BY <1>1, <1>2 DEF PagesNext, SweepPage, pagesVars

LEMMA PageRows ==
    ASSUME PagesInv, [PagesNext]_pagesVars
    PROVE  RowStep /\ \A q \in Request : ReqStep(q)
<1>1. CASE [Next]_vars
  BY <1>1, StepShape DEF PagesInv
<1>2. ASSUME NEW t \in Nat, MarkPastCompleted(t), UNCHANGED <<now, available, maxActive, req, saw>>
      PROVE  RowStep /\ \A q \in Request : ReqStep(q)
  BY <1>2, SweepRows DEF PagesInv, ReqStep
<1>. QED  BY <1>1, <1>2, PageStep

\* With any number of pages being made, each with a sweep of its own, the checks
\* of a create request stay true until its INSERT and the limits of what a race
\* can do are the same.
THEOREM PagesKeepChecks ==
    PagesSpec => [](RequestSaw /\ DoubleBookingIsRace /\ UserOverlapIsRace /\ CountedBelowLimit)
<1>1. PagesInit => RaceInv
  BY RaceInvInit DEF PagesInit
<1>2. PagesInv /\ PagesInv' /\ RaceInv /\ [PagesNext]_pagesVars => RaceInv'
  BY PageRows, RequestSawNext, DoubleBookingNext, UserOverlapNext, CountedNext DEF RaceInv, PagesInv
<1>3. PagesSpec => []RaceInv
  BY <1>1, <1>2, PagesInvHolds, PTL DEF PagesSpec
<1>. QED  BY <1>3, PTL DEF RaceInv

\* A page's sweep neither books nor removes a workspace.
LEMMA PagePlaces ==
    ASSUME PagesInv, [PagesNext]_pagesVars
    PROVE  PlaceStep
<1>1. CASE [Next]_vars
  BY <1>1, PlaceSteps DEF PagesInv
<1>2. ASSUME NEW t \in Nat, MarkPastCompleted(t), UNCHANGED <<now, available, maxActive, req, saw>>
      PROVE  PlaceStep
  <2>1. Rows' = Rows
    BY <1>2 DEF MarkPastCompleted, SetStatus, Rows, PagesInv, TypeOK, RepoType
  <2>. QED  BY <1>2, <2>1 DEF PlaceStep
<1>. QED  BY <1>1, <1>2, PageStep

\* Handlers and pages together still implement the ledger: a sweep of a page
\* closes bookings and does nothing else to them.
THEOREM PagesKeepLedger == PagesSpec => KeepsLedger
<1>1. PagesInit => ValidTerms /\ Ledger!Init
  BY ValidTermsInit, LedgerInit DEF PagesInit
<1>2. PagesInv /\ ValidTerms /\ [PagesNext]_pagesVars => ValidTerms'
  <2>. SUFFICES ASSUME PagesInv, ValidTerms, [PagesNext]_pagesVars PROVE ValidTerms'
    OBVIOUS
  <2>1. CASE [Next]_vars
    BY <2>1, ValidTermsNext DEF PagesInv
  <2>2. CASE req' = req
    BY <2>2 DEF ValidTerms
  <2>. QED  BY <2>1, <2>2, PageStep
<1>3. PagesInv /\ PagesInv' /\ ValidTerms /\ [PagesNext]_pagesVars
      => [Ledger!Next]_<<books, nextId, DOMAIN available>>
  BY PageRows, PagePlaces, LedgerStep DEF PagesInv
<1>4. [Ledger!Next]_<<books, nextId, DOMAIN available>>
      <=> [Ledger!Next]_<<[i \in Rows |-> [holder |-> bookings[i].user,
                                          place  |-> bookings[i].workspace,
                                          start  |-> bookings[i].start,
                                          end    |-> bookings[i].end,
                                          state  |-> IF Confirmed(i) THEN "open" ELSE "closed"]], nextId, DOMAIN available>>
  BY DEF books, EntryOf
<1>. QED  BY <1>1, <1>2, <1>3, <1>4, PagesInvHolds, PTL DEF PagesSpec, KeepsLedger, Ledger!Spec

-----------------------------------------------------------------------------
(* The throttle and the deletions next to pages *)

\* A sweep completes what was confirmed: it cancels nothing, erases nothing and
\* lets no request pass.
LEMMA SweepKeeps ==
    ASSUME TypeOK, NEW t \in Nat, MarkPastCompleted(t), UNCHANGED <<now, available, maxActive, req, saw>>
    PROVE  /\ Rows' = Rows
           /\ \A u : CancelledByUser(u)' = CancelledByUser(u) /\ Passed(u)' = Passed(u)
           /\ \A i \in Rows : at(i)' = at(i)
           /\ CancellationTimed => CancellationTimed'
<1>. DEFINE over == {i \in Rows : Confirmed(i) /\ bookings[i].end <= t}
<1>0. RepoType /\ SetStatus(over, "COMPLETED") /\ "COMPLETED" \in Status
  BY DEF TypeOK, MarkPastCompleted, Status
<1>1. /\ Rows' = Rows
      /\ \A i \in Rows : bookings'[i] = IF i \in over THEN [bookings[i] EXCEPT !.status = "COMPLETED"]
                                        ELSE bookings[i]
  BY <1>0, SetStatusRows
<1>2. ASSUME NEW i \in Rows
      PROVE  /\ bookings'[i].user = bookings[i].user
             /\ bookings'[i].cancelledAt = bookings[i].cancelledAt
             /\ bookings'[i].status = IF i \in over THEN "COMPLETED" ELSE bookings[i].status
             /\ i \in over => bookings[i].status = "CONFIRMED"
  <2>1. bookings[i] \in Row
    BY <1>0 DEF RepoType, Rows
  <2>. HIDE DEF over
  <2>2. i \in over => bookings[i].status = "CONFIRMED"
    BY DEF over, Confirmed
  <2>. QED  BY <1>1, <2>1, <2>2 DEF Row
<1>. HIDE DEF over
<1>3. \A u : CancelledByUser(u)' = CancelledByUser(u)
  BY <1>1, <1>2 DEF CancelledByUser
<1>4. \A u : Passed(u)' = Passed(u)
  BY DEF Passed, At
<1>5. CancellationTimed => CancellationTimed'
  BY <1>1, <1>2 DEF CancellationTimed, Confirmed
<1>6. \A i \in Rows : at(i)' = at(i)
  BY <1>2 DEF at
<1>. QED  BY <1>1, <1>3, <1>4, <1>5, <1>6

\* The same invariant of the throttle holds next to pages.
LEMMA SweepKeepsThrottle ==
    ASSUME IsFiniteSet(Request), Dated, TypeOK', ThrottleInv, NEW t \in Nat,
           MarkPastCompleted(t), UNCHANGED <<now, available, maxActive, req, saw>>
    PROVE  CancellationTimed' /\ ThrottleInv'
<1>0. TypeOK /\ RowStep /\ now \in Nat
  BY SweepRows DEF Dated, TypeOK
<1>1. CancellationTimed'
  BY SweepKeeps DEF Dated
<1>2. ASSUME NEW q \in Request PROVE CancelOwnerOf(req[q])'
  <2>1. CASE req[q].pc \in {"cancelFind", "cancelCooldown", "cancelUpdate"}
    <3>. PICK c \in CancelReq : c = req[q]
      BY <1>0, <2>1, KindOfRequest
    <3>1. CancelOwnerOf(c)
      BY DEF ThrottleInv, CancelOwner
    <3>2. CancelOwnerOf(c)'
      BY <1>0, <3>1, CancelOwnerStays
    <3>. QED  BY <3>2
  <2>2. CASE req[q].pc \notin {"cancelFind", "cancelCooldown", "cancelUpdate"}
    BY <2>2 DEF CancelOwnerOf
  <2>. QED  BY <2>1, <2>2
<1>3. ASSUME NEW u \in User PROVE FewWithin(u)'
  <2>1. FewWithin(u) /\ now' >= now
    BY <1>0 DEF ThrottleInv
  <2>2. Passed(u)' \subseteq Passed(u)
    BY <1>0, SweepKeeps
  <2>3. \A i \in CancelledByUser(u)' : i \in CancelledByUser(u) /\ at(i)' = at(i)
    BY <1>0, SweepKeeps DEF CancelledByUser
  <2>. QED  BY <2>1, <2>2, <2>3, FewWithinStays
<1>. QED  BY <1>1, <1>2, <1>3 DEF ThrottleInv, CancelOwner

\* A sweep of a page, which belongs to no request, neither helps a cancellation
\* past the throttle nor takes the time from one: it stays true that of 3 + n
\* cancellations, n the number of requests, the last waits for a block.
THEOREM PagesKeepThrottle ==
    ASSUME IsFiniteSet(Request)
    PROVE  PagesSpec => [](CancellationTimed /\ FourthWaits)
<1>1. PagesInit => Dated /\ ThrottleInv
  BY ThrottleInit DEF PagesInit
<1>2. ASSUME PagesInv, PagesInv', Dated, ThrottleInv, [PagesNext]_pagesVars
      PROVE  (Dated /\ ThrottleInv)'
  <2>0. TypeOK' /\ StatusTargets
    BY <1>2 DEF PagesInv
  <2>1. CASE [Next]_vars
    BY <1>2, <2>0, <2>1, ThrottleNext
  <2>2. ASSUME NEW t \in Nat, MarkPastCompleted(t), UNCHANGED <<now, available, maxActive, req, saw>>
        PROVE  (Dated /\ ThrottleInv)'
    BY <1>2, <2>0, <2>2, SweepKeepsThrottle DEF Dated
  <2>. QED  BY <1>2, <2>1, <2>2, PageStep
<1>3. PagesSpec => [](Dated /\ ThrottleInv)
  BY <1>1, <1>2, PagesInvHolds, PTL DEF PagesSpec
<1>4. Dated /\ ThrottleInv => CancellationTimed /\ FourthWaits
  BY FewAreFar DEF Dated
<1>. QED  BY <1>3, <1>4, PTL

\* What a deletion has checked stays true next to the sweeps of pages.
LEMMA PagesKeepDeleteSaw == PagesSpec => []DeleteSaw
<1>1. PagesInit => DeleteSaw
  BY DEF PagesInit, Init, DeleteSaw, DeleteSawOf
<1>2. ASSUME PagesInv, PagesInv', DeleteSaw, [PagesNext]_pagesVars PROVE DeleteSaw'
  <2>0. TypeOK /\ TypeOK' /\ StatusTargets /\ RowStep
    BY <1>2, PageRows DEF PagesInv
  <2>1. CASE [Next]_vars
    BY <1>2, <2>0, <2>1, DeleteSawNext
  <2>2. ASSUME req' = req, NEW q \in Request PROVE DeleteSawOf(req[q])'
    <3>1. CASE req[q].pc \in {"deleteCheck", "deleteRow"}
      <4>. PICK c \in DeleteReq : c = req[q]
        BY <2>0, <3>1, KindOfRequest
      <4>1. DeleteSawOf(c)
        BY <1>2 DEF DeleteSaw
      <4>2. DeleteSawOf(c)'
        BY <2>0, <4>1, DeleteSawStays
      <4>. QED  BY <2>2, <4>2
    <3>2. CASE req[q].pc \notin {"deleteCheck", "deleteRow"}
      BY <2>2, <3>2 DEF DeleteSawOf
    <3>. QED  BY <3>1, <3>2
  <2>. QED  BY <1>2, <2>1, <2>2, PageStep DEF DeleteSaw
<1>. QED  BY <1>1, <1>2, PagesInvHolds, PTL DEF PagesSpec

\* Next to pages too, an active booking is erased only if it was inserted between
\* the check of a deletion and its DELETE: a page erases nothing.
THEOREM PagesEraseNothing == PagesSpec => ErasedIsRace
<1>1. ASSUME PagesInv, DeleteSaw, [PagesNext]_pagesVars PROVE [Erasing]_vars
  <2>1. CASE [Next]_vars
    BY <1>1, <2>1, ErasingNext DEF PagesInv
  <2>2. ASSUME NEW t \in Nat, MarkPastCompleted(t), UNCHANGED <<now, available, maxActive, req, saw>>
        PROVE  Erasing
    <3>1. Rows' = Rows
      BY <1>1, <2>2, SweepKeeps DEF PagesInv
    <3>. QED  BY <3>1 DEF Erasing, Gone, Rows
  <2>. QED  BY <1>1, <2>1, <2>2, PageStep
<1>2. PagesSpec => [][Erasing]_vars
  BY <1>1, PagesInvHolds, PagesKeepDeleteSaw, PTL DEF PagesSpec
<1>. QED  BY <1>2 DEF ErasedIsRace, Erasing

\* Loading a page blocks nobody: its sweep leaves the cancellations of every user
\* and the clock as they are.
THEOREM PagesBlockNobody == PagesSpec => BlockNeedsCancel
<1>. DEFINE Started == \A u \in User : ~InCooldown(u, now) /\ InCooldown(u, now)' =>
                           \E i \in Rows \cap DOMAIN bookings' :
                               bookings[i].user = u /\ Confirmed(i)
                               /\ bookings'[i].status = "CANCELLED_BY_USER"
<1>1. PagesInit => CancellationTimed
  BY DEF PagesInit, Init, RepoInit, CancellationTimed, Rows
<1>2. ASSUME PagesInv, PagesInv', CancellationTimed, [PagesNext]_pagesVars PROVE CancellationTimed'
  <2>1. CASE [Next]_vars
    BY <1>2, <2>1, CancellationTimedNext DEF PagesInv
  <2>2. ASSUME NEW t \in Nat, MarkPastCompleted(t), UNCHANGED <<now, available, maxActive, req, saw>>
        PROVE  CancellationTimed'
    BY <1>2, <2>2, SweepKeeps DEF PagesInv
  <2>. QED  BY <1>2, <2>1, <2>2, PageStep
<1>3. PagesSpec => []CancellationTimed
  BY <1>1, <1>2, PagesInvHolds, PTL DEF PagesSpec
<1>4. ASSUME PagesInv, PagesInv', CancellationTimed, CancellationTimed', [PagesNext]_pagesVars
      PROVE  [Started]_vars
  <2>0. Dated /\ Dated' /\ StatusTargets
    BY <1>4 DEF PagesInv, Dated
  <2>1. CASE [Next]_vars
    BY <2>0, <2>1, BlockStarts DEF StartsBlock
  <2>2. ASSUME NEW t \in Nat, MarkPastCompleted(t), UNCHANGED <<now, available, maxActive, req, saw>>,
               NEW u \in User, InCooldown(u, now)'
        PROVE  InCooldown(u, now)
    <3>1. PICK T \in kSubset(3, CancelledByUser(u)') : \A i \in T : at(i)' + CancelBlock > now'
      BY <2>0, <2>2, BlockedNowNext DEF BlockedNow, ThreeWithinBlock
    <3>2. /\ CancelledByUser(u)' = CancelledByUser(u)
          /\ \A i \in Rows : at(i)' = at(i)
      BY <2>0, <2>2, SweepKeeps DEF Dated
    <3>3. T \in kSubset(3, CancelledByUser(u)) /\ \A i \in T : at(i) + CancelBlock > now
      BY <2>2, <3>1, <3>2 DEF kSubset, CancelledByUser
    <3>. QED  BY <2>0, <3>3, BlockedNowAlways DEF BlockedNow, ThreeWithinBlock
  <2>. QED  BY <1>4, <2>1, <2>2, PageStep
<1>5. PagesSpec => [][Started]_vars
  BY <1>3, <1>4, PagesInvHolds, PTL DEF PagesSpec
<1>. QED  BY <1>5 DEF BlockNeedsCancel
=============================================================================
