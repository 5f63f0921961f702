---------------------------- MODULE LayoutPages ----------------------------
(***************************************************************************)
(* The plan of a coworking as /scheme, /api/scheme and /admin draw it      *)
(* while administrators change it: the grid and the workspaces are read in *)
(* two statements, and emptyCells of scheme.go reserves room for the       *)
(* difference of the two.                                                  *)
(***************************************************************************)
EXTENDS Layout

CONSTANT Visitor    \* pages that may be in progress or on a screen at once

VARIABLE plan       \* visitor -> the plan being drawn

plansVars == <<vars, plan>>

PlansInit == Init /\ plan = [v \in Visitor |-> [pc |-> "none"]]

On(v, pc) == plan[v].pc = pc

\* The coworkings are listed and the one asked for is taken, or the first one
\* by name (any: names are not ordered here) if it is gone.  A page without
\* coworkings has a plan without seats.  clock: history, when that was.
OpenPlan(v, page, wanted) ==
    /\ On(v, "none")
    /\ \E c \in IF wanted \in DOMAIN coworkings THEN {wanted} ELSE DOMAIN coworkings :
          plan' = [plan EXCEPT ![v] = [pc |-> "seats", page |-> page, coworking |-> c,
                                       grid |-> coworkings[c].grid, clock |-> clock]]
    /\ UNCHANGED vars

Cells(g) == [x : 1 .. g.cols, y : 1 .. g.rows]

\* Mutant: the coordinates of the seats are swapped.
EmptyCellsSwapped(g, seats) ==
    Cells(g) \ {[x |-> places[w].pos.y, y |-> places[w].pos.x] : w \in seats}

EmptyCells(g, seats) == Cells(g) \ {places[w].pos : w \in seats}

\* make(..., 0, cols*rows-len(views)): a negative capacity ends the goroutine.
RoomForEmpty(g, seats) == g.cols * g.rows - Cardinality(seats) >= 0

\* The seats of the coworking are read and the plan is drawn: the scheme by
\* emptyCells, the panel cell by cell.
DrawPlan(v) ==
    LET q == plan[v]
        seats == PlacesIn(q.coworking)
    IN
    /\ On(v, "seats")
    /\ plan' = [plan EXCEPT ![v] =
          IF q.page = "scheme" /\ ~RoomForEmpty(q.grid, seats)
          THEN [pc |-> "dead", coworking |-> q.coworking, clock |-> q.clock]
          ELSE [pc |-> "shown", coworking |-> q.coworking, clock |-> clock,
                empty |-> EmptyCells(q.grid, seats)]]
    /\ UNCHANGED vars

\* A statement fails or the page is left.
ClosePlan(v) ==
    /\ ~On(v, "none")
    /\ plan' = [plan EXCEPT ![v] = [pc |-> "none"]]
    /\ UNCHANGED vars

PlansNext ==
    \/ Next /\ UNCHANGED plan
    \/ \E v \in Visitor :
          \/ \E page \in {"scheme", "admin"}, c \in KnownCoworking : OpenPlan(v, page, c)
          \/ DrawPlan(v)
          \/ ClosePlan(v)

PlansSpec == PlansInit /\ [][PlansNext]_plansVars

-----------------------------------------------------------------------------
\* Something of the coworking c was written after time t.
ChangedSince(c, t) ==
    \/ c \in DOMAIN coworkings /\ span.coworking[c].to > t
    \/ \E w \in PlacesIn(c) : span.place[w].to > t

\* A scheme is lost to its size only if the coworking was changed between the
\* two statements that read it, or has a workspace off its grid.
LostPlanIsRace ==
    [][\A v \in Visitor :
           On(v, "seats") /\ plan'[v].pc = "dead" =>
               LET c == plan[v].coworking IN
               \/ ChangedSince(c, plan[v].clock)
               \/ \E w \in PlacesIn(c) : ~Inside(places[w].pos, coworkings[c].grid)]_plansVars

\* A cell shown empty is where a workspace can be put, as far as the plan knows:
\* whatever stands there now was put there after the plan was drawn.
EmptyCellAccepts ==
    \A v \in Visitor : On(v, "shown") =>
        \A w \in PlacesIn(plan[v].coworking) :
            places[w].pos \in plan[v].empty => span.place[w].to > plan[v].clock

\* emptyCells "returns every (x, y) inside cols×rows that is not occupied"
\* (scheme.go:50): while nobody changes the coworking, no request of its scheme
\* ends without an answer.
SchemeIsDrawn ==
    \A v \in Visitor : On(v, "dead") => ChangedSince(plan[v].coworking, plan[v].clock)
=============================================================================
