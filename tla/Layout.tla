------------------------------- MODULE Layout -------------------------------
(***************************************************************************)
(* Coworkings, their grids and the workspaces placed on them: the          *)
(* administrator's handlers over repo/coworkings.go and repo/workspaces.go *)
(* with the keys the schema enforces.  As in BookingService one step is    *)
(* one SQL statement and the local code after it.  Type, zone and          *)
(* availability are left out (availability is in BookingService), and so   *)
(* is the check on bookings that precedes the removal of a workspace.      *)
(***************************************************************************)
EXTENDS Integers, FiniteSets

CONSTANTS
    Request,        \* requests that may be in progress at the same time
    Name,           \* names of coworkings and of workspaces
    Grid,           \* [cols, rows] pairs forms may carry, valid or not
    Position,       \* [x, y] pairs forms may carry, on the grid or not
    MaxGrid,        \* repo.MaxGridDimension
    MaxCoworkings,  \* bound: coworkings ever created
    MaxWrites       \* bound: writes that place or resize, made or in progress

ASSUME LayoutAssumption ==
    /\ Name # {}
    /\ Grid \subseteq [cols: Int, rows: Int]
    /\ Position \subseteq [x: Int, y: Int]
    /\ MaxGrid \in Nat
    /\ \E g \in Grid : g.cols \in 1 .. MaxGrid /\ g.rows \in 1 .. MaxGrid

VARIABLES
    coworkings,     \* existing coworking -> row
    places,         \* existing workspace -> row
    lastCoworking,  \* rows are named by their place in the order of
    lastPlace,      \* insertion (the ids are UUIDs, never reused)
    req,            \* request -> its state, [pc |-> "idle"] when unused
    clock,          \* history: writes made so far
    span            \* history: for each row the clock when its last writer
                    \* checked (from) and when it wrote (to)

tables == <<coworkings, places, lastCoworking, lastPlace, clock, span>>
vars == <<coworkings, places, lastCoworking, lastPlace, req, clock, span>>

CoworkingRow == [name: Name, grid: [cols: 1 .. MaxGrid, rows: 1 .. MaxGrid]]
PlaceRow == [coworking: Nat, name: Name, pos: [x: 1 .. MaxGrid, y: 1 .. MaxGrid]]
Span == [from: Nat, to: Nat]

PlaceReq  == [pc: {"find", "grid", "write"}, place: Nat, coworking: Nat,
              name: Name, pos: Position, from: Nat]
ResizeReq == [pc: {"resizeCheck", "resizeWrite"}, coworking: Nat,
              name: Name, grid: Grid, from: Nat]
DropReq   == [pc: {"dropCheck", "dropRow"}, coworking: Nat]

LayoutTypeOK ==
    /\ lastCoworking \in Nat /\ lastPlace \in Nat /\ clock \in Nat
    /\ DOMAIN coworkings \subseteq 1 .. lastCoworking
    /\ DOMAIN places \subseteq 1 .. lastPlace
    /\ coworkings \in [DOMAIN coworkings -> CoworkingRow]
    /\ places \in [DOMAIN places -> PlaceRow]
    /\ req \in [Request -> [pc: {"idle"}] \cup PlaceReq \cup ResizeReq \cup DropReq]
    /\ span.coworking \in [DOMAIN coworkings -> Span]
    /\ span.place \in [DOMAIN places -> Span]

\* Mutant: the largest size is not checked.
ValidGridUnbounded(g) == g.cols >= 1 /\ g.rows >= 1

\* A grid the forms accept.
ValidGrid(g) == g.cols \in 1 .. MaxGrid /\ g.rows \in 1 .. MaxGrid

Inside(pos, g) == pos.x >= 1 /\ pos.y >= 1 /\ pos.x <= g.cols /\ pos.y <= g.rows

PlacesIn(c) == {w \in DOMAIN places : places[w].coworking = c}

\* The seed's coworking, resized or not, after its workspaces were deleted.
Init ==
    /\ \E n \in Name, g \in Grid :
          ValidGrid(g) /\ coworkings = [c \in {1} |-> [name |-> n, grid |-> g]]
    /\ places = [w \in {} |-> {}]
    /\ lastCoworking = 1
    /\ lastPlace = 0
    /\ req = [r \in Request |-> [pc |-> "idle"]]
    /\ clock = 0
    /\ span = [coworking |-> [c \in {1} |-> [from |-> 0, to |-> 0]],
               place |-> [w \in {} |-> {}]]

-----------------------------------------------------------------------------
At(r, pc) == req[r].pc = pc

Begin(r, state) == At(r, "idle") /\ req' = [req EXCEPT ![r] = state] /\ UNCHANGED tables

Answer(r) == req' = [req EXCEPT ![r] = [pc |-> "idle"]]

\* f with x mapped to v, x new or not; f without x.
With(f, x, v) == [y \in DOMAIN f \cup {x} |-> IF y = x THEN v ELSE f[y]]
Without(f, x) == [y \in DOMAIN f \ {x} |-> f[y]]

\* Bound: writes made and in progress never exceed MaxWrites.
RoomForWrite == clock + Cardinality({r \in Request : ~At(r, "idle")}) < MaxWrites

-----------------------------------------------------------------------------
(* POST /admin/workspaces/create and /update *)

BeginCreatePlace(r, c, n, pos) ==
    /\ RoomForWrite
    /\ Begin(r, [pc |-> "grid", place |-> 0, coworking |-> c, name |-> n, pos |-> pos, from |-> 0])

BeginUpdatePlace(r, w, n, pos) ==
    /\ RoomForWrite
    /\ Begin(r, [pc |-> "find", place |-> w, coworking |-> 0, name |-> n, pos |-> pos, from |-> 0])

FindPlace(r) ==
    /\ At(r, "find")
    /\ IF req[r].place \in DOMAIN places
       THEN req' = [req EXCEPT ![r].pc = "grid", ![r].coworking = places[req[r].place].coworking]
       ELSE Answer(r)
    /\ UNCHANGED tables

\* CoworkingRepo.FindByID and the comparison with the grid that was read.
CheckGrid(r) ==
    LET c == req[r].coworking IN
    /\ At(r, "grid")
    /\ IF c \in DOMAIN coworkings /\ Inside(req[r].pos, coworkings[c].grid)
       THEN req' = [req EXCEPT ![r].pc = "write", ![r].from = clock]
       ELSE Answer(r)
    /\ UNCHANGED tables

\* Mutant: only the name is a key.
UniqueName(w, c, n, pos) ==
    \A v \in PlacesIn(c) \ {w} : places[v].name # n

\* workspaces_name_per_coworking and workspaces_position_per_coworking, for a
\* row that would replace w.
Unique(w, c, n, pos) ==
    \A v \in PlacesIn(c) \ {w} : places[v].name # n /\ places[v].pos # pos

\* The row w written, after the clock has been moved on.
PutPlace(w, c, n, pos, from) ==
    /\ places' = With(places, w, [coworking |-> c, name |-> n, pos |-> pos])
    /\ clock' = clock + 1
    /\ span' = [span EXCEPT !.place = With(span.place, w, [from |-> from, to |-> clock'])]

\* The INSERT needs the coworking (foreign key) and both keys free.
InsertPlace(r) ==
    LET q == req[r] IN
    /\ At(r, "write") /\ q.place = 0
    /\ IF q.coworking \in DOMAIN coworkings /\ Unique(0, q.coworking, q.name, q.pos)
       THEN /\ PutPlace(lastPlace + 1, q.coworking, q.name, q.pos, q.from)
            /\ lastPlace' = lastPlace + 1
       ELSE UNCHANGED <<places, lastPlace, clock, span>>
    /\ Answer(r)
    /\ UNCHANGED <<coworkings, lastCoworking>>

\* The UPDATE keeps the coworking of the row.
UpdatePlace(r) ==
    LET q == req[r] IN
    /\ At(r, "write") /\ q.place # 0
    /\ IF q.place \in DOMAIN places /\ Unique(q.place, places[q.place].coworking, q.name, q.pos)
       THEN PutPlace(q.place, places[q.place].coworking, q.name, q.pos, q.from)
       ELSE UNCHANGED <<places, clock, span>>
    /\ Answer(r)
    /\ UNCHANGED <<coworkings, lastCoworking, lastPlace>>

PlaceStep(r) == FindPlace(r) \/ CheckGrid(r) \/ InsertPlace(r) \/ UpdatePlace(r)

\* POST /admin/workspaces/delete, its DELETE.
RemovePlace(r, w) ==
    /\ At(r, "idle")
    /\ places' = Without(places, w)
    /\ span' = [span EXCEPT !.place = Without(span.place, w)]
    /\ UNCHANGED <<coworkings, lastCoworking, lastPlace, req, clock>>

-----------------------------------------------------------------------------
(* POST /admin/coworkings/create, /update and /delete *)

\* coworkings.name is UNIQUE, for a row that would replace c.
NameFree(c, n) == \A d \in DOMAIN coworkings \ {c} : coworkings[d].name # n

PutCoworking(c, n, g, from) ==
    /\ coworkings' = With(coworkings, c, [name |-> n, grid |-> g])
    /\ clock' = clock + 1
    /\ span' = [span EXCEPT !.coworking = With(span.coworking, c, [from |-> from, to |-> clock'])]

CreateCoworking(r, n, g) ==
    /\ At(r, "idle")
    /\ RoomForWrite
    /\ lastCoworking < MaxCoworkings
    /\ ValidGrid(g)
    /\ NameFree(0, n)
    /\ PutCoworking(lastCoworking + 1, n, g, clock)
    /\ lastCoworking' = lastCoworking + 1
    /\ UNCHANGED <<places, lastPlace, req>>

BeginResize(r, c, n, g) ==
    /\ RoomForWrite
    /\ ValidGrid(g)
    /\ Begin(r, [pc |-> "resizeCheck", coworking |-> c, name |-> n, grid |-> g, from |-> 0])

\* Mutant: only the columns are compared.
ResizeCheckColumns(r) ==
    LET q == req[r] IN
    /\ At(r, "resizeCheck")
    /\ IF \E w \in PlacesIn(q.coworking) : places[w].pos.x > q.grid.cols
       THEN Answer(r)
       ELSE req' = [req EXCEPT ![r].pc = "resizeWrite", ![r].from = clock]
    /\ UNCHANGED tables

\* The workspaces that would fall outside are counted.
ResizeCheck(r) ==
    LET q == req[r] IN
    /\ At(r, "resizeCheck")
    /\ IF \E w \in PlacesIn(q.coworking) :
             places[w].pos.x > q.grid.cols \/ places[w].pos.y > q.grid.rows
       THEN Answer(r)
       ELSE req' = [req EXCEPT ![r].pc = "resizeWrite", ![r].from = clock]
    /\ UNCHANGED tables

ResizeWrite(r) ==
    LET q == req[r] IN
    /\ At(r, "resizeWrite")
    /\ IF q.coworking \in DOMAIN coworkings /\ NameFree(q.coworking, q.name)
       THEN PutCoworking(q.coworking, q.name, q.grid, q.from)
       ELSE UNCHANGED <<coworkings, clock, span>>
    /\ Answer(r)
    /\ UNCHANGED <<places, lastCoworking, lastPlace>>

ResizeStep(r) == ResizeCheck(r) \/ ResizeWrite(r)

BeginDrop(r, c) == Begin(r, [pc |-> "dropCheck", coworking |-> c])

DropCheck(r) ==
    /\ At(r, "dropCheck")
    /\ IF PlacesIn(req[r].coworking) # {}
       THEN Answer(r)
       ELSE req' = [req EXCEPT ![r].pc = "dropRow"]
    /\ UNCHANGED tables

\* Mutant: the handler's count is all there is, no foreign key.
DropRowUnguarded(r) ==
    LET c == req[r].coworking IN
    /\ At(r, "dropRow")
    /\ coworkings' = Without(coworkings, c)
    /\ span' = [span EXCEPT !.coworking = Without(span.coworking, c)]
    /\ Answer(r)
    /\ UNCHANGED <<places, lastCoworking, lastPlace, clock>>

\* ON DELETE RESTRICT looks again.
DropRow(r) ==
    LET c == req[r].coworking IN
    /\ At(r, "dropRow")
    /\ IF PlacesIn(c) = {}
       THEN /\ coworkings' = Without(coworkings, c)
            /\ span' = [span EXCEPT !.coworking = Without(span.coworking, c)]
       ELSE UNCHANGED <<coworkings, span>>
    /\ Answer(r)
    /\ UNCHANGED <<places, lastCoworking, lastPlace, clock>>

DropStep(r) == DropCheck(r) \/ DropRow(r)

\* A failed statement, a closed connection or a restart ends the request.
Abort(r) == ~At(r, "idle") /\ Answer(r) /\ UNCHANGED tables

-----------------------------------------------------------------------------
KnownCoworking == 1 .. lastCoworking
KnownPlace == 1 .. lastPlace

Submit(r) ==
    \/ \E c \in KnownCoworking, n \in Name, pos \in Position : BeginCreatePlace(r, c, n, pos)
    \/ \E w \in KnownPlace, n \in Name, pos \in Position : BeginUpdatePlace(r, w, n, pos)
    \/ \E w \in DOMAIN places : RemovePlace(r, w)
    \/ \E n \in Name, g \in Grid : CreateCoworking(r, n, g)
    \/ \E c \in KnownCoworking, n \in Name, g \in Grid : BeginResize(r, c, n, g)
    \/ \E c \in KnownCoworking : BeginDrop(r, c)

Proceed(r) == PlaceStep(r) \/ ResizeStep(r) \/ DropStep(r)

Next == \E r \in Request : Submit(r) \/ Proceed(r) \/ Abort(r)

Spec == Init /\ [][Next]_vars

-----------------------------------------------------------------------------
\* A workspace lies outside its coworking's grid only if the request that put
\* it there and the one that set the grid overlapped: each read before the
\* other wrote.
OutsideIsRace ==
    \A w \in DOMAIN places :
        LET c == places[w].coworking IN
        ~Inside(places[w].pos, coworkings[c].grid)
        => /\ span.place[w].from < span.coworking[c].to
           /\ span.coworking[c].from < span.place[w].to

\* Deleting a coworking never strands a workspace, though the count of
\* CoworkingRepo.Delete can be out of date when the row is deleted.
NoOrphans == \A w \in DOMAIN places : places[w].coworking \in DOMAIN coworkings

\* One cell of a coworking, and one name in it, belong to one workspace.
CellsDistinct ==
    \A v, w \in DOMAIN places :
        v # w /\ places[v].coworking = places[w].coworking
        => places[v].pos # places[w].pos /\ places[v].name # places[w].name
=============================================================================
