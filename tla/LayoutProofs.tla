---------------------------- MODULE LayoutProofs ----------------------------
(***************************************************************************)
(* Theorems about the layout handlers and the plans drawn while they run,  *)
(* for any forms, any number of requests and pages and without the bounds  *)
(* of the runs.                                                            *)
(***************************************************************************)
EXTENDS LayoutPages, FiniteSetTheorems, TLAPS

-----------------------------------------------------------------------------
(* Type correctness *)

ReqState == [pc: {"idle"}] \cup PlaceReq \cup ResizeReq \cup DropReq

OnGrid == [x: 1 .. MaxGrid, y: 1 .. MaxGrid]

\* What the forms and CheckGrid have made sure of.
CheckedOf(q) ==
    /\ q.pc \in {"resizeCheck", "resizeWrite"} => ValidGrid(q.grid)
    /\ q.pc = "write" => q.pos \in OnGrid

LayoutInv ==
    /\ LayoutTypeOK
    /\ span = [coworking |-> span.coworking, place |-> span.place]
    /\ \A r \in Request : CheckedOf(req[r])

LEMMA KindOfRequest ==
    ASSUME LayoutTypeOK, NEW r \in Request
    PROVE  /\ req \in [Request -> ReqState] /\ req[r] \in ReqState
           /\ req[r].pc \in {"find", "grid", "write"} => req[r] \in PlaceReq
           /\ req[r].pc \in {"resizeCheck", "resizeWrite"} => req[r] \in ResizeReq
           /\ req[r].pc \in {"dropCheck", "dropRow"} => req[r] \in DropReq
BY DEF LayoutTypeOK, ReqState, PlaceReq, ResizeReq, DropReq

LEMMA RequestMoves ==
    ASSUME LayoutTypeOK, \A r \in Request : CheckedOf(req[r]), NEW r \in Request,
           NEW state \in ReqState, CheckedOf(state), req' = [req EXCEPT ![r] = state]
    PROVE  /\ req' \in [Request -> ReqState]
           /\ req'[r] = state
           /\ \A q \in Request \ {r} : req'[q] = req[q]
           /\ \A q \in Request : CheckedOf(req'[q])
BY DEF LayoutTypeOK, ReqState

LEMMA AnswerMoves ==
    ASSUME LayoutTypeOK, \A r \in Request : CheckedOf(req[r]), NEW r \in Request, Answer(r)
    PROVE  /\ req' \in [Request -> ReqState]
           /\ req'[r] = [pc |-> "idle"]
           /\ \A q \in Request \ {r} : req'[q] = req[q]
           /\ \A q \in Request : CheckedOf(req'[q])
<1>1. [pc |-> "idle"] \in ReqState /\ CheckedOf([pc |-> "idle"])
  BY DEF ReqState, CheckedOf
<1>. QED  BY <1>1, RequestMoves DEF Answer

LEMMA TablesStay ==
    ASSUME LayoutInv, UNCHANGED tables, req' \in [Request -> ReqState],
           \A q \in Request : CheckedOf(req'[q])
    PROVE  LayoutInv'
BY DEF LayoutInv, LayoutTypeOK, tables, ReqState, CheckedOf

LEMMA SubmitType ==
    ASSUME LayoutInv, NEW r \in Request, NEW state \in ReqState, CheckedOf(state), Begin(r, state)
    PROVE  LayoutInv'
BY RequestMoves, TablesStay DEF Begin, LayoutInv

\* The steps that only read, and the state a request goes on with.
Onward(r) ==
    \/ /\ FindPlace(r) /\ req[r].place \in DOMAIN places
       /\ req'[r] = [req[r] EXCEPT !.pc = "grid", !.coworking = places[req[r].place].coworking]
    \/ /\ CheckGrid(r) /\ req[r].coworking \in DOMAIN coworkings
       /\ Inside(req[r].pos, coworkings[req[r].coworking].grid)
       /\ req'[r] = [req[r] EXCEPT !.pc = "write", !.from = clock]
    \/ /\ ResizeCheck(r)
       /\ \A w \in PlacesIn(req[r].coworking) :
             ~(places[w].pos.x > req[r].grid.cols) /\ ~(places[w].pos.y > req[r].grid.rows)
       /\ req'[r] = [req[r] EXCEPT !.pc = "resizeWrite", !.from = clock]
    \/ DropCheck(r) /\ req'[r] = [req[r] EXCEPT !.pc = "dropRow"]

LEMMA ReadSteps ==
    ASSUME LayoutInv, NEW r \in Request,
           FindPlace(r) \/ CheckGrid(r) \/ ResizeCheck(r) \/ DropCheck(r)
    PROVE  /\ LayoutInv'
           /\ UNCHANGED tables
           /\ \A q \in Request \ {r} : req'[q] = req[q]
           /\ Answer(r) \/ Onward(r)
<1>0. /\ LayoutTypeOK /\ UNCHANGED tables /\ \A q \in Request : CheckedOf(req[q])
      /\ req \in [Request -> ReqState]
  BY KindOfRequest DEF LayoutInv, FindPlace, CheckGrid, ResizeCheck, DropCheck
<1>1. CASE Answer(r)
  BY <1>0, <1>1, AnswerMoves, TablesStay
<1>2. ASSUME NEW state \in ReqState, CheckedOf(state), req' = [req EXCEPT ![r] = state],
             req'[r] = state => Onward(r)
      PROVE  LayoutInv' /\ (\A q \in Request \ {r} : req'[q] = req[q]) /\ Onward(r)
  BY <1>0, <1>2, RequestMoves, TablesStay
<1>3. CASE FindPlace(r) /\ ~Answer(r)
  <2>. DEFINE state == [req[r] EXCEPT !.pc = "grid", !.coworking = places[req[r].place].coworking]
  <2>1. req[r] \in PlaceReq /\ req[r].place \in DOMAIN places /\ places[req[r].place] \in PlaceRow
    BY <1>0, <1>3, KindOfRequest DEF FindPlace, At, LayoutTypeOK
  <2>2. state \in PlaceReq /\ state.pc = "grid"
    BY <2>1 DEF PlaceReq, PlaceRow
  <2>3. req' = [req EXCEPT ![r] = state]
    BY <1>0, <1>3, <2>1 DEF FindPlace
  <2>. QED  BY <1>0, <1>2, <1>3, <2>1, <2>2, <2>3 DEF Onward, CheckedOf, ReqState
<1>4. CASE CheckGrid(r) /\ ~Answer(r)
  <2>. DEFINE state == [req[r] EXCEPT !.pc = "write", !.from = clock]
              c     == req[r].coworking
  <2>1. /\ req[r] \in PlaceReq /\ c \in DOMAIN coworkings /\ Inside(req[r].pos, coworkings[c].grid)
        /\ coworkings[c] \in CoworkingRow /\ clock \in Nat
    BY <1>0, <1>4, KindOfRequest DEF CheckGrid, At, LayoutTypeOK
  <2>2. state \in PlaceReq /\ state.pc = "write" /\ state.pos = req[r].pos
    BY <2>1 DEF PlaceReq
  <2>3. req[r].pos \in OnGrid
    <3>1. req[r].pos \in [x: Int, y: Int] /\ coworkings[c].grid \in [cols: 1 .. MaxGrid, rows: 1 .. MaxGrid]
      BY <2>1, LayoutAssumption DEF PlaceReq, CoworkingRow
    <3>. QED  BY <2>1, <3>1, LayoutAssumption DEF Inside, OnGrid
  <2>4. req' = [req EXCEPT ![r] = state]
    BY <1>0, <1>4, <2>1 DEF CheckGrid
  <2>. QED  BY <1>0, <1>2, <1>4, <2>1, <2>2, <2>3, <2>4 DEF Onward, CheckedOf, ReqState
<1>5. CASE ResizeCheck(r) /\ ~Answer(r)
  <2>. DEFINE state == [req[r] EXCEPT !.pc = "resizeWrite", !.from = clock]
  <2>1. /\ req[r] \in ResizeReq /\ clock \in Nat /\ ValidGrid(req[r].grid)
        /\ \A w \in PlacesIn(req[r].coworking) :
             ~(places[w].pos.x > req[r].grid.cols) /\ ~(places[w].pos.y > req[r].grid.rows)
    BY <1>0, <1>5, KindOfRequest DEF ResizeCheck, At, LayoutTypeOK, CheckedOf
  <2>2. state \in ResizeReq /\ state.pc = "resizeWrite" /\ state.grid = req[r].grid
    BY <2>1 DEF ResizeReq
  <2>3. req' = [req EXCEPT ![r] = state]
    BY <1>0, <1>5 DEF ResizeCheck
  <2>. QED  BY <1>0, <1>2, <1>5, <2>1, <2>2, <2>3 DEF Onward, CheckedOf, ReqState
<1>6. CASE DropCheck(r) /\ ~Answer(r)
  <2>. DEFINE state == [req[r] EXCEPT !.pc = "dropRow"]
  <2>1. req[r] \in DropReq
    BY <1>0, <1>6, KindOfRequest DEF DropCheck, At
  <2>2. state \in DropReq /\ state.pc = "dropRow"
    BY <2>1 DEF DropReq
  <2>3. req' = [req EXCEPT ![r] = state]
    BY <1>0, <1>6 DEF DropCheck
  <2>. QED  BY <1>0, <1>2, <1>6, <2>1, <2>2, <2>3 DEF Onward, CheckedOf, ReqState
<1>. QED  BY <1>0, <1>1, <1>3, <1>4, <1>5, <1>6

\* A write of a workspace, its row and its span together.
LEMMA PlaceRowWritten ==
    ASSUME LayoutInv, NEW w \in Nat, NEW c \in Nat, NEW n \in Name, NEW pos \in OnGrid,
           NEW from \in Nat, PutPlace(w, c, n, pos, from)
    PROVE  /\ DOMAIN places' = DOMAIN places \cup {w}
           /\ places' \in [DOMAIN places' -> PlaceRow]
           /\ places'[w] = [coworking |-> c, name |-> n, pos |-> pos]
           /\ \A v \in DOMAIN places \ {w} : places'[v] = places[v]
           /\ clock' = clock + 1 /\ clock' \in Nat
           /\ span' = [coworking |-> span.coworking, place |-> span'.place]
           /\ span'.coworking = span.coworking
           /\ span'.place \in [DOMAIN places' -> Span]
           /\ span'.place[w] = [from |-> from, to |-> clock + 1]
           /\ \A v \in DOMAIN places \ {w} : span'.place[v] = span.place[v]
<1>1. /\ places \in [DOMAIN places -> PlaceRow] /\ clock \in Nat
      /\ span.place \in [DOMAIN places -> Span] /\ DOMAIN span.place = DOMAIN places
      /\ span = [coworking |-> span.coworking, place |-> span.place]
  BY DEF LayoutInv, LayoutTypeOK
<1>2. /\ places' = With(places, w, [coworking |-> c, name |-> n, pos |-> pos])
      /\ clock' = clock + 1
  BY DEF PutPlace
<1>3. span' = [coworking |-> span.coworking,
               place     |-> With(span.place, w, [from |-> from, to |-> clock + 1])]
  BY <1>1, <1>2 DEF PutPlace
<1>4. [coworking |-> c, name |-> n, pos |-> pos] \in PlaceRow
  BY DEF PlaceRow, OnGrid
<1>5. [from |-> from, to |-> clock + 1] \in Span
  BY <1>1 DEF Span
<1>6. span'.place = With(span.place, w, [from |-> from, to |-> clock + 1])
      /\ span'.coworking = span.coworking
  BY <1>3
<1>7. /\ DOMAIN places' = DOMAIN places \cup {w}
      /\ places' \in [DOMAIN places' -> PlaceRow]
      /\ places'[w] = [coworking |-> c, name |-> n, pos |-> pos]
      /\ \A v \in DOMAIN places \ {w} : places'[v] = places[v]
  BY <1>1, <1>2, <1>4 DEF With
<1>8. /\ DOMAIN span'.place = DOMAIN span.place \cup {w}
      /\ span'.place \in [DOMAIN span'.place -> Span]
      /\ span'.place[w] = [from |-> from, to |-> clock + 1]
      /\ \A v \in DOMAIN span.place \ {w} : span'.place[v] = span.place[v]
  BY <1>1, <1>5, <1>6 DEF With
<1>. QED  BY <1>1, <1>2, <1>3, <1>6, <1>7, <1>8

LEMMA CoworkingRowWritten ==
    ASSUME LayoutInv, NEW c \in Nat, NEW n \in Name, NEW g \in Grid, ValidGrid(g),
           NEW from \in Nat, PutCoworking(c, n, g, from)
    PROVE  /\ DOMAIN coworkings' = DOMAIN coworkings \cup {c}
           /\ coworkings' \in [DOMAIN coworkings' -> CoworkingRow]
           /\ coworkings'[c] = [name |-> n, grid |-> g]
           /\ \A d \in DOMAIN coworkings \ {c} : coworkings'[d] = coworkings[d]
           /\ clock' = clock + 1 /\ clock' \in Nat
           /\ span' = [coworking |-> span'.coworking, place |-> span.place]
           /\ span'.place = span.place
           /\ span'.coworking \in [DOMAIN coworkings' -> Span]
           /\ span'.coworking[c] = [from |-> from, to |-> clock + 1]
           /\ \A d \in DOMAIN coworkings \ {c} : span'.coworking[d] = span.coworking[d]
<1>1. /\ coworkings \in [DOMAIN coworkings -> CoworkingRow] /\ clock \in Nat
      /\ span.coworking \in [DOMAIN coworkings -> Span]
      /\ DOMAIN span.coworking = DOMAIN coworkings
      /\ span = [coworking |-> span.coworking, place |-> span.place]
  BY DEF LayoutInv, LayoutTypeOK
<1>2. coworkings' = With(coworkings, c, [name |-> n, grid |-> g]) /\ clock' = clock + 1
  BY DEF PutCoworking
<1>3. span' = [coworking |-> With(span.coworking, c, [from |-> from, to |-> clock + 1]),
               place     |-> span.place]
  BY <1>1, <1>2 DEF PutCoworking
<1>4. [name |-> n, grid |-> g] \in CoworkingRow
  <2>1. g \in [cols: Int, rows: Int]
    BY LayoutAssumption
  <2>. QED  BY <2>1 DEF CoworkingRow, ValidGrid
<1>5. [from |-> from, to |-> clock + 1] \in Span
  BY <1>1 DEF Span
<1>6. /\ span'.coworking = With(span.coworking, c, [from |-> from, to |-> clock + 1])
      /\ span'.place = span.place
  BY <1>3
<1>7. /\ DOMAIN coworkings' = DOMAIN coworkings \cup {c}
      /\ coworkings' \in [DOMAIN coworkings' -> CoworkingRow]
      /\ coworkings'[c] = [name |-> n, grid |-> g]
      /\ \A d \in DOMAIN coworkings \ {c} : coworkings'[d] = coworkings[d]
  BY <1>1, <1>2, <1>4 DEF With
<1>8. /\ DOMAIN span'.coworking = DOMAIN span.coworking \cup {c}
      /\ span'.coworking \in [DOMAIN span'.coworking -> Span]
      /\ span'.coworking[c] = [from |-> from, to |-> clock + 1]
      /\ \A d \in DOMAIN span.coworking \ {c} : span'.coworking[d] = span.coworking[d]
  BY <1>1, <1>5, <1>6 DEF With
<1>. QED  BY <1>1, <1>2, <1>3, <1>6, <1>7, <1>8

\* A write in the tables, by the request that makes it.
WritesPlace(r, w) ==
    LET q == req[r]
        c == IF q.place = 0 THEN q.coworking ELSE places[w].coworking
    IN
    /\ At(r, "write") /\ q \in PlaceReq /\ Answer(r)
    /\ \/ q.place = 0 /\ w = lastPlace + 1 /\ lastPlace' = lastPlace + 1 /\ c \in DOMAIN coworkings
       \/ q.place # 0 /\ w = q.place /\ w \in DOMAIN places /\ lastPlace' = lastPlace
    /\ Unique(w, c, q.name, q.pos)
    /\ PutPlace(w, c, q.name, q.pos, q.from)
    /\ UNCHANGED <<coworkings, lastCoworking>>

WritesCoworking(r, c) ==
    \/ \E n \in Name, g \in Grid : CreateCoworking(r, n, g) /\ c = lastCoworking + 1
    \/ /\ ResizeWrite(r) /\ req[r] \in ResizeReq
       /\ c = req[r].coworking /\ c \in DOMAIN coworkings /\ UNCHANGED lastCoworking
       /\ PutCoworking(c, req[r].name, req[r].grid, req[r].from)

Drops(r) ==
    /\ DropRow(r) /\ PlacesIn(req[r].coworking) = {}
    /\ coworkings' = Without(coworkings, req[r].coworking)

\* The steps that change a table, and no others.
Writer(r) ==
    \/ \E w \in Nat : WritesPlace(r, w)
    \/ \E w \in DOMAIN places : RemovePlace(r, w)
    \/ \E c \in Nat : WritesCoworking(r, c)
    \/ Drops(r)

\* Unused numbers belong to no row: an INSERT meets the keys of all of them.
LEMMA FreshPlace ==
    ASSUME LayoutTypeOK, NEW c, NEW n, NEW pos
    PROVE  Unique(0, c, n, pos) => Unique(lastPlace + 1, c, n, pos)
BY DEF LayoutTypeOK, Unique, PlacesIn

LEMMA Writers ==
    ASSUME LayoutInv, [Next]_vars
    PROVE  \/ UNCHANGED tables
           \/ \E r \in Request : Writer(r)
<1>. USE DEF tables
<1>0. LayoutTypeOK /\ \A r \in Request : CheckedOf(req[r])
  BY DEF LayoutInv
<1>1. ASSUME NEW r \in Request, Submit(r) PROVE UNCHANGED tables \/ Writer(r)
  <2>1. ASSUME NEW n \in Name, NEW g \in Grid, CreateCoworking(r, n, g) PROVE Writer(r)
    <3>1. lastCoworking + 1 \in Nat
      BY <1>0 DEF LayoutTypeOK
    <3>. QED  BY <2>1, <3>1 DEF Writer, WritesCoworking
  <2>. QED
    BY <1>1, <2>1 DEF Submit, BeginCreatePlace, BeginUpdatePlace, BeginResize, BeginDrop, Begin, Writer
<1>2. ASSUME NEW r \in Request, InsertPlace(r) PROVE UNCHANGED tables \/ Writer(r)
  <2>1. req[r] \in PlaceReq /\ lastPlace + 1 \in Nat
    BY <1>0, <1>2, KindOfRequest DEF InsertPlace, At, LayoutTypeOK
  <2>2. CASE req[r].coworking \in DOMAIN coworkings /\ Unique(0, req[r].coworking, req[r].name, req[r].pos)
    <3>1. Unique(lastPlace + 1, req[r].coworking, req[r].name, req[r].pos)
      BY <1>0, <2>2, FreshPlace
    <3>2. WritesPlace(r, lastPlace + 1)
      BY <1>2, <2>1, <2>2, <3>1 DEF InsertPlace, WritesPlace
    <3>. QED  BY <2>1, <3>2 DEF Writer
  <2>. QED  BY <1>2, <2>2 DEF InsertPlace
<1>3. ASSUME NEW r \in Request, UpdatePlace(r) PROVE UNCHANGED tables \/ Writer(r)
  <2>1. req[r] \in PlaceReq /\ req[r].place \in Nat
    BY <1>0, <1>3, KindOfRequest DEF UpdatePlace, At, PlaceReq
  <2>2. CASE /\ req[r].place \in DOMAIN places
             /\ Unique(req[r].place, places[req[r].place].coworking, req[r].name, req[r].pos)
    <3>1. WritesPlace(r, req[r].place)
      BY <1>3, <2>1, <2>2 DEF UpdatePlace, WritesPlace
    <3>. QED  BY <2>1, <3>1 DEF Writer
  <2>. QED  BY <1>3, <2>2 DEF UpdatePlace
<1>4. ASSUME NEW r \in Request, ResizeWrite(r) PROVE UNCHANGED tables \/ Writer(r)
  <2>1. req[r] \in ResizeReq /\ req[r].coworking \in Nat
    BY <1>0, <1>4, KindOfRequest DEF ResizeWrite, At, ResizeReq
  <2>. QED  BY <1>4, <2>1 DEF ResizeWrite, Writer, WritesCoworking
<1>5. ASSUME NEW r \in Request, DropRow(r) PROVE UNCHANGED tables \/ Writer(r)
  BY <1>5 DEF DropRow, Writer, Drops
<1>6. ASSUME NEW r \in Request, Proceed(r) PROVE UNCHANGED tables \/ Writer(r)
  BY <1>2, <1>3, <1>4, <1>5, <1>6
  DEF Proceed, PlaceStep, ResizeStep, DropStep, FindPlace, CheckGrid, ResizeCheck, DropCheck
<1>7. ASSUME NEW r \in Request, Abort(r) PROVE UNCHANGED tables
  BY <1>7 DEF Abort
<1>8. UNCHANGED vars => UNCHANGED tables
  BY DEF vars
<1>. QED  BY <1>1, <1>6, <1>7, <1>8 DEF Next

\* What any step does to the tables: a row is kept, or written after the clock of
\* before, or new under a number not given out before.
KeptPlace(w) ==
    w \in DOMAIN places /\ places'[w] = places[w] /\ span'.place[w] = span.place[w]

KeptCoworking(c) ==
    /\ c \in DOMAIN coworkings
    /\ coworkings'[c] = coworkings[c] /\ span'.coworking[c] = span.coworking[c]

Later ==
    /\ clock' >= clock /\ lastPlace' >= lastPlace /\ lastCoworking' >= lastCoworking
    /\ \A w \in DOMAIN places' :
          \/ KeptPlace(w)
          \/ /\ span'.place[w].to > clock
             /\ \/ w \in DOMAIN places /\ places'[w].coworking = places[w].coworking
                \/ w > lastPlace
    /\ \A c \in DOMAIN coworkings' :
          \/ KeptCoworking(c)
          \/ span'.coworking[c].to > clock /\ (c \in DOMAIN coworkings \/ c > lastCoworking)

LEMMA WritesPlaceStep ==
    ASSUME LayoutInv, NEW r \in Request, NEW w \in Nat, WritesPlace(r, w)
    PROVE  LayoutInv' /\ Later
<1>. DEFINE q == req[r]
            c == IF q.place = 0 THEN q.coworking ELSE places[w].coworking
<1>0. LayoutTypeOK /\ \A x \in Request : CheckedOf(req[x])
  BY DEF LayoutInv
<1>1. /\ q \in PlaceReq /\ q.pos \in OnGrid /\ c \in Nat /\ q.name \in Name /\ q.from \in Nat
  <2>1. q \in PlaceReq /\ q.pc = "write"
    BY DEF WritesPlace, At
  <2>2. w \in DOMAIN places => places[w].coworking \in Nat
    BY <1>0 DEF LayoutTypeOK, PlaceRow
  <2>. QED  BY <1>0, <2>1, <2>2 DEF WritesPlace, PlaceReq, CheckedOf
<1>2. /\ DOMAIN places' = DOMAIN places \cup {w}
      /\ places' \in [DOMAIN places' -> PlaceRow]
      /\ places'[w] = [coworking |-> c, name |-> q.name, pos |-> q.pos]
      /\ \A v \in DOMAIN places \ {w} : places'[v] = places[v]
      /\ clock' = clock + 1 /\ clock' \in Nat
      /\ span' = [coworking |-> span.coworking, place |-> span'.place]
      /\ span'.coworking = span.coworking
      /\ span'.place \in [DOMAIN places' -> Span]
      /\ span'.place[w] = [from |-> q.from, to |-> clock + 1]
      /\ \A v \in DOMAIN places \ {w} : span'.place[v] = span.place[v]
  <2>1. PutPlace(w, c, q.name, q.pos, q.from)
    BY DEF WritesPlace
  <2>. HIDE DEF c, q
  <2>. QED  BY <1>1, <2>1, PlaceRowWritten
<1>3. /\ req' \in [Request -> ReqState] /\ \A x \in Request : CheckedOf(req'[x])
      /\ UNCHANGED <<coworkings, lastCoworking>>
      /\ \/ q.place = 0 /\ w = lastPlace + 1 /\ lastPlace' = lastPlace + 1
         \/ q.place # 0 /\ w \in DOMAIN places /\ lastPlace' = lastPlace
  BY <1>0, AnswerMoves DEF WritesPlace
<1>4. LayoutInv'
  <2>1. DOMAIN places' \subseteq 1 .. lastPlace' /\ lastPlace' \in Nat
    BY <1>0, <1>2, <1>3 DEF LayoutTypeOK
  <2>. HIDE DEF c, q
  <2>. QED  BY <1>0, <1>2, <1>3, <2>1 DEF LayoutInv, LayoutTypeOK, ReqState, CheckedOf
<1>5. /\ clock \in Nat /\ lastPlace \in Nat /\ lastCoworking \in Nat
      /\ clock' >= clock /\ lastPlace' >= lastPlace /\ lastCoworking' >= lastCoworking
  BY <1>0, <1>2, <1>3 DEF LayoutTypeOK
<1>6. \A v \in DOMAIN places \ {w} : KeptPlace(v)
  BY <1>2 DEF KeptPlace
<1>7. span'.place[w].to > clock
  BY <1>2, <1>5
<1>8. (w \in DOMAIN places /\ places'[w].coworking = places[w].coworking) \/ w > lastPlace
  BY <1>2, <1>3, <1>5
<1>9. \A d \in DOMAIN coworkings' : KeptCoworking(d)
  BY <1>2, <1>3 DEF KeptCoworking
<1>. QED  BY <1>2, <1>4, <1>5, <1>6, <1>7, <1>8, <1>9 DEF Later

LEMMA WritesCoworkingStep ==
    ASSUME LayoutInv, NEW r \in Request, NEW c \in Nat, WritesCoworking(r, c)
    PROVE  LayoutInv' /\ Later
<1>0. LayoutTypeOK /\ (\A x \in Request : CheckedOf(req[x])) /\ clock \in Nat /\ lastCoworking \in Nat
      /\ DOMAIN coworkings \subseteq 1 .. lastCoworking /\ req \in [Request -> ReqState]
  BY KindOfRequest DEF LayoutInv, LayoutTypeOK
<1>1. PICK n \in Name, g \in Grid, from \in Nat :
         /\ ValidGrid(g) /\ PutCoworking(c, n, g, from)
         /\ UNCHANGED <<places, lastPlace>>
         /\ req' \in [Request -> ReqState] /\ \A x \in Request : CheckedOf(req'[x])
         /\ \/ c = lastCoworking + 1 /\ lastCoworking' = lastCoworking + 1
            \/ c \in DOMAIN coworkings /\ lastCoworking' = lastCoworking
  <2>1. CASE \E n \in Name, g \in Grid : CreateCoworking(r, n, g) /\ c = lastCoworking + 1
    BY <1>0, <2>1 DEF CreateCoworking
  <2>2. CASE ResizeWrite(r) /\ req[r] \in ResizeReq
    <3>1. req[r].grid \in Grid /\ req[r].name \in Name /\ req[r].from \in Nat /\ ValidGrid(req[r].grid)
      BY <1>0, <2>2 DEF ResizeWrite, At, CheckedOf, ResizeReq
    <3>2. req' \in [Request -> ReqState] /\ \A x \in Request : CheckedOf(req'[x])
      BY <1>0, <2>2, AnswerMoves DEF ResizeWrite
    <3>3. /\ c \in DOMAIN coworkings /\ UNCHANGED lastCoworking
          /\ PutCoworking(c, req[r].name, req[r].grid, req[r].from)
          /\ UNCHANGED <<places, lastPlace>>
      BY <1>0, <2>2 DEF WritesCoworking, ResizeWrite, CreateCoworking, At
    <3>. QED  BY <3>1, <3>2, <3>3
  <2>. QED  BY <2>1, <2>2 DEF WritesCoworking
<1>2. /\ DOMAIN coworkings' = DOMAIN coworkings \cup {c}
      /\ coworkings' \in [DOMAIN coworkings' -> CoworkingRow]
      /\ \A d \in DOMAIN coworkings \ {c} : coworkings'[d] = coworkings[d]
      /\ clock' = clock + 1 /\ clock' \in Nat
      /\ span' = [coworking |-> span'.coworking, place |-> span.place]
      /\ span'.place = span.place
      /\ span'.coworking \in [DOMAIN coworkings' -> Span]
      /\ span'.coworking[c] = [from |-> from, to |-> clock + 1]
      /\ \A d \in DOMAIN coworkings \ {c} : span'.coworking[d] = span.coworking[d]
  BY <1>1, CoworkingRowWritten
<1>3. LayoutInv'
  <2>1. DOMAIN coworkings' \subseteq 1 .. lastCoworking' /\ lastCoworking' \in Nat
    BY <1>0, <1>1, <1>2
  <2>. QED  BY <1>0, <1>1, <1>2, <2>1 DEF LayoutInv, LayoutTypeOK, ReqState, CheckedOf
<1>4. clock' >= clock /\ lastPlace' >= lastPlace /\ lastCoworking' >= lastCoworking
  BY <1>0, <1>1, <1>2 DEF LayoutTypeOK
<1>5. \A d \in DOMAIN coworkings \ {c} : KeptCoworking(d)
  BY <1>2 DEF KeptCoworking
<1>6. span'.coworking[c].to > clock /\ (c \in DOMAIN coworkings \/ c > lastCoworking)
  BY <1>0, <1>1, <1>2
<1>7. \A w \in DOMAIN places' : KeptPlace(w)
  BY <1>1, <1>2 DEF KeptPlace
<1>. QED  BY <1>2, <1>3, <1>4, <1>5, <1>6, <1>7 DEF Later

LEMMA RemovesStep ==
    ASSUME LayoutInv, NEW r \in Request,
           Drops(r) \/ \E w \in DOMAIN places : RemovePlace(r, w)
    PROVE  LayoutInv' /\ Later /\ UNCHANGED clock
<1>0. /\ LayoutTypeOK /\ \A x \in Request : CheckedOf(req[x])
      /\ clock \in Nat /\ lastPlace \in Nat /\ lastCoworking \in Nat
      /\ places \in [DOMAIN places -> PlaceRow] /\ span.place \in [DOMAIN places -> Span]
      /\ coworkings \in [DOMAIN coworkings -> CoworkingRow]
      /\ span.coworking \in [DOMAIN coworkings -> Span]
      /\ span = [coworking |-> span.coworking, place |-> span.place]
      /\ req \in [Request -> ReqState]
  BY KindOfRequest DEF LayoutInv, LayoutTypeOK
<1>1. ASSUME NEW w \in DOMAIN places, RemovePlace(r, w) PROVE LayoutInv' /\ Later /\ UNCHANGED clock
  <2>1. /\ span' = [coworking |-> span.coworking, place |-> Without(span.place, w)]
        /\ UNCHANGED <<coworkings, lastCoworking, lastPlace, req, clock>>
    BY <1>0, <1>1 DEF RemovePlace
  <2>2. /\ DOMAIN places' = DOMAIN places \ {w} /\ places' \in [DOMAIN places' -> PlaceRow]
        /\ \A v \in DOMAIN places' : places'[v] = places[v]
    BY <1>0, <1>1 DEF RemovePlace, Without
  <2>3. /\ span'.coworking = span.coworking /\ span'.place = Without(span.place, w)
        /\ span' = [coworking |-> span'.coworking, place |-> span'.place]
    BY <2>1
  <2>4. /\ span'.place \in [DOMAIN places' -> Span]
        /\ \A v \in DOMAIN places' : span'.place[v] = span.place[v]
    BY <1>0, <2>2, <2>3 DEF Without
  <2>5. LayoutInv'
    BY <1>0, <2>1, <2>2, <2>3, <2>4 DEF LayoutInv, LayoutTypeOK, ReqState, CheckedOf
  <2>6. (\A v \in DOMAIN places' : KeptPlace(v)) /\ (\A c \in DOMAIN coworkings' : KeptCoworking(c))
    BY <2>1, <2>2, <2>3, <2>4 DEF KeptPlace, KeptCoworking
  <2>. QED  BY <1>0, <2>1, <2>5, <2>6 DEF Later
<1>2. ASSUME Drops(r) PROVE LayoutInv' /\ Later /\ UNCHANGED clock
  <2>. DEFINE c == req[r].coworking
  <2>0. /\ coworkings' = Without(coworkings, c) /\ PlacesIn(c) = {} /\ Answer(r)
        /\ span' = [coworking |-> Without(span.coworking, c), place |-> span.place]
        /\ UNCHANGED <<places, lastCoworking, lastPlace, clock>>
    BY <1>0, <1>2 DEF Drops, DropRow
  <2>. HIDE DEF c
  <2>1. req' \in [Request -> ReqState] /\ \A x \in Request : CheckedOf(req'[x])
    BY <1>0, <2>0, AnswerMoves
  <2>2. /\ DOMAIN coworkings' = DOMAIN coworkings \ {c}
        /\ coworkings' \in [DOMAIN coworkings' -> CoworkingRow]
        /\ \A d \in DOMAIN coworkings' : coworkings'[d] = coworkings[d]
    BY <1>0, <2>0 DEF Without
  <2>3. /\ span'.place = span.place /\ span'.coworking = Without(span.coworking, c)
        /\ span' = [coworking |-> span'.coworking, place |-> span'.place]
    BY <2>0
  <2>4. /\ span'.coworking \in [DOMAIN coworkings' -> Span]
        /\ \A d \in DOMAIN coworkings' : span'.coworking[d] = span.coworking[d]
    BY <1>0, <2>2, <2>3 DEF Without
  <2>5. LayoutInv'
    BY <1>0, <2>0, <2>1, <2>2, <2>3, <2>4 DEF LayoutInv, LayoutTypeOK, ReqState, CheckedOf
  <2>6. (\A v \in DOMAIN places' : KeptPlace(v)) /\ (\A d \in DOMAIN coworkings' : KeptCoworking(d))
    BY <2>0, <2>2, <2>3, <2>4 DEF KeptPlace, KeptCoworking
  <2>. QED  BY <1>0, <2>0, <2>5, <2>6 DEF Later
<1>. QED  BY <1>1, <1>2

\* A request that has just begun.
Began(q) ==
    /\ UNCHANGED tables
    /\ \/ req'[q].pc = "grid" /\ req'[q].place = 0 /\ req'[q].coworking \in KnownCoworking
       \/ req'[q].pc = "find" /\ req'[q].place \in KnownPlace /\ req'[q].coworking = 0
       \/ req'[q].pc \in {"resizeCheck", "dropCheck"}

LEMMA SubmitStep ==
    ASSUME LayoutInv, NEW r \in Request, Submit(r), UNCHANGED tables
    PROVE  /\ LayoutInv'
           /\ \A q \in Request : req'[q] = req[q] \/ Began(q)
<1>0. /\ LayoutTypeOK /\ req \in [Request -> ReqState] /\ \A q \in Request : CheckedOf(req[q])
      /\ lastPlace \in Nat /\ lastCoworking \in Nat /\ clock \in Nat
  BY KindOfRequest DEF LayoutInv, LayoutTypeOK
<1>1. CASE req' = req
  BY <1>0, <1>1, TablesStay
<1>2. ASSUME NEW state \in ReqState, CheckedOf(state), Begin(r, state),
             req'[r] = state => Began(r)
      PROVE  LayoutInv' /\ \A q \in Request : req'[q] = req[q] \/ Began(q)
  <2>1. req'[r] = state /\ \A q \in Request \ {r} : req'[q] = req[q]
    BY <1>0, <1>2, RequestMoves DEF Begin
  <2>2. LayoutInv'
    BY <1>2, SubmitType
  <2>. QED  BY <1>2, <2>1, <2>2
<1>3. ASSUME NEW c \in KnownCoworking, NEW n \in Name, NEW pos \in Position, BeginCreatePlace(r, c, n, pos)
      PROVE  LayoutInv' /\ \A q \in Request : req'[q] = req[q] \/ Began(q)
  <2>. DEFINE state == [pc |-> "grid", place |-> 0, coworking |-> c, name |-> n, pos |-> pos, from |-> 0]
  <2>1. c \in Nat
    BY <1>0 DEF KnownCoworking
  <2>2. state \in ReqState /\ CheckedOf(state) /\ Begin(r, state)
    BY <1>3, <2>1 DEF BeginCreatePlace, ReqState, PlaceReq, CheckedOf
  <2>3. req'[r] = state => Began(r)
    BY DEF Began
  <2>. HIDE DEF state
  <2>. QED  BY <1>2, <2>2, <2>3
<1>4. ASSUME NEW w \in KnownPlace, NEW n \in Name, NEW pos \in Position, BeginUpdatePlace(r, w, n, pos)
      PROVE  LayoutInv' /\ \A q \in Request : req'[q] = req[q] \/ Began(q)
  <2>. DEFINE state == [pc |-> "find", place |-> w, coworking |-> 0, name |-> n, pos |-> pos, from |-> 0]
  <2>1. w \in Nat
    BY <1>0 DEF KnownPlace
  <2>2. state \in ReqState /\ CheckedOf(state) /\ Begin(r, state)
    BY <1>4, <2>1 DEF BeginUpdatePlace, ReqState, PlaceReq, CheckedOf
  <2>3. req'[r] = state => Began(r)
    BY DEF Began
  <2>. HIDE DEF state
  <2>. QED  BY <1>2, <2>2, <2>3
<1>5. ASSUME NEW c \in KnownCoworking, NEW n \in Name, NEW g \in Grid, BeginResize(r, c, n, g)
      PROVE  LayoutInv' /\ \A q \in Request : req'[q] = req[q] \/ Began(q)
  <2>. DEFINE state == [pc |-> "resizeCheck", coworking |-> c, name |-> n, grid |-> g, from |-> 0]
  <2>1. c \in Nat
    BY <1>0 DEF KnownCoworking
  <2>2. state \in ReqState /\ CheckedOf(state) /\ Begin(r, state)
    BY <1>5, <2>1 DEF BeginResize, ReqState, ResizeReq, CheckedOf
  <2>3. req'[r] = state => Began(r)
    BY DEF Began
  <2>. HIDE DEF state
  <2>. QED  BY <1>2, <2>2, <2>3
<1>6. ASSUME NEW c \in KnownCoworking, BeginDrop(r, c)
      PROVE  LayoutInv' /\ \A q \in Request : req'[q] = req[q] \/ Began(q)
  <2>. DEFINE state == [pc |-> "dropCheck", coworking |-> c]
  <2>1. c \in Nat
    BY <1>0 DEF KnownCoworking
  <2>2. state \in ReqState /\ CheckedOf(state) /\ Begin(r, state)
    BY <1>6, <2>1 DEF BeginDrop, ReqState, DropReq, CheckedOf
  <2>3. req'[r] = state => Began(r)
    BY DEF Began
  <2>. HIDE DEF state
  <2>. QED  BY <1>2, <2>2, <2>3
<1>. QED  BY <1>1, <1>3, <1>4, <1>5, <1>6 DEF Submit, RemovePlace, CreateCoworking

\* A step keeps the types, and either writes for a request that ends with it, or
\* leaves the tables alone and takes one request on.
LEMMA LayoutStep ==
    ASSUME LayoutInv, [Next]_vars
    PROVE  /\ LayoutInv' /\ Later
           /\ \A q \in Request : req'[q] = req[q] \/ At(q, "idle")' \/ Began(q) \/ Onward(q)
<1>0. /\ LayoutTypeOK /\ req \in [Request -> ReqState] /\ \A q \in Request : CheckedOf(req[q])
      /\ lastPlace \in Nat /\ lastCoworking \in Nat /\ clock \in Nat
  BY KindOfRequest DEF LayoutInv, LayoutTypeOK
<1>. DEFINE moved == \A q \in Request : req'[q] = req[q] \/ At(q, "idle")' \/ Began(q) \/ Onward(q)
<1>. SUFFICES LayoutInv' /\ Later /\ moved
  OBVIOUS
<1>1. ASSUME NEW r \in Request, Answer(r) PROVE moved
  BY <1>0, <1>1, AnswerMoves DEF At
<1>2. ASSUME NEW r \in Request, Writer(r) PROVE LayoutInv' /\ Later /\ moved
  <2>1. LayoutInv' /\ Later
    BY <1>2, WritesPlaceStep, WritesCoworkingStep, RemovesStep DEF Writer
  <2>2. Answer(r) \/ req' = req
    BY <1>2 DEF Writer, WritesPlace, RemovePlace, WritesCoworking, CreateCoworking, ResizeWrite,
                Drops, DropRow
  <2>. QED  BY <1>1, <2>1, <2>2
<1>3. ASSUME UNCHANGED tables PROVE Later
  BY <1>0, <1>3 DEF tables, Later, KeptPlace, KeptCoworking
<1>4. ASSUME UNCHANGED tables, NEW r \in Request, Answer(r) PROVE LayoutInv' /\ moved
  BY <1>0, <1>1, <1>4, AnswerMoves, TablesStay
<1>5. ASSUME UNCHANGED tables, NEW r \in Request, Submit(r) PROVE LayoutInv' /\ moved
  BY <1>5, SubmitStep
<1>6. ASSUME UNCHANGED tables, NEW r \in Request, Proceed(r) PROVE LayoutInv' /\ moved
  <2>1. CASE FindPlace(r) \/ CheckGrid(r) \/ ResizeCheck(r) \/ DropCheck(r)
    <3>1. LayoutInv' /\ (\A q \in Request \ {r} : req'[q] = req[q]) /\ (Answer(r) \/ Onward(r))
      BY <2>1, ReadSteps
    <3>. QED  BY <1>1, <3>1
  <2>2. CASE InsertPlace(r) \/ UpdatePlace(r) \/ ResizeWrite(r) \/ DropRow(r)
    BY <1>4, <1>6, <2>2 DEF InsertPlace, UpdatePlace, ResizeWrite, DropRow
  <2>. QED  BY <1>6, <2>1, <2>2 DEF Proceed, PlaceStep, ResizeStep, DropStep
<1>7. ASSUME UNCHANGED tables, NEW r \in Request, Abort(r) PROVE LayoutInv' /\ moved
  BY <1>4, <1>7 DEF Abort
<1>8. ASSUME UNCHANGED tables, UNCHANGED vars PROVE LayoutInv' /\ moved
  <2>1. req' = req
    BY <1>8 DEF vars
  <2>. QED  BY <1>0, <1>8, <2>1, TablesStay
<1>. HIDE DEF moved
<1>9. CASE UNCHANGED tables
  BY <1>3, <1>5, <1>6, <1>7, <1>8, <1>9 DEF Next
<1>10. CASE \E r \in Request : Writer(r)
  BY <1>2, <1>10
<1>. QED  BY <1>9, <1>10, Writers

LEMMA InitLayout == Init => LayoutInv
<1>. SUFFICES ASSUME Init PROVE LayoutInv
  OBVIOUS
<1>1. PICK n \in Name, g \in Grid :
         ValidGrid(g) /\ coworkings = [c \in {1} |-> [name |-> n, grid |-> g]]
  BY DEF Init
<1>2. [name |-> n, grid |-> g] \in CoworkingRow
  <2>1. g \in [cols: Int, rows: Int]
    BY LayoutAssumption
  <2>. QED  BY <1>1, <2>1 DEF CoworkingRow, ValidGrid
<1>3. coworkings \in [DOMAIN coworkings -> CoworkingRow] /\ DOMAIN coworkings = {1}
  BY <1>1, <1>2
<1>4. /\ span = [coworking |-> [c \in {1} |-> [from |-> 0, to |-> 0]], place |-> [w \in {} |-> {}]]
      /\ lastCoworking = 1 /\ lastPlace = 0 /\ clock = 0 /\ places = [w \in {} |-> {}]
      /\ req = [r \in Request |-> [pc |-> "idle"]]
  BY DEF Init
<1>5. span.coworking \in [DOMAIN coworkings -> Span] /\ span.place \in [DOMAIN places -> Span]
  BY <1>3, <1>4 DEF Span
<1>6. req \in [Request -> ReqState] /\ \A r \in Request : CheckedOf(req[r])
  BY <1>4 DEF ReqState, CheckedOf
<1>7. /\ lastCoworking \in Nat /\ lastPlace \in Nat /\ clock \in Nat
      /\ DOMAIN coworkings \subseteq 1 .. lastCoworking /\ DOMAIN places \subseteq 1 .. lastPlace
      /\ places \in [DOMAIN places -> PlaceRow]
  BY <1>3, <1>4
<1>8. span = [coworking |-> span.coworking, place |-> span.place]
  BY <1>4
<1>. QED  BY <1>3, <1>5, <1>6, <1>7, <1>8 DEF LayoutInv, LayoutTypeOK, ReqState

LEMMA LayoutHolds == Spec => []LayoutInv
BY InitLayout, LayoutStep, PTL DEF Spec

\* Every row of the two tables keeps its type: whatever the forms carry, no
\* coworking gets a grid and no workspace a position that the other handlers and
\* pages could not draw, for both are checked before they are written.
THEOREM LayoutTypeCorrect == Spec => []LayoutTypeOK
BY LayoutHolds, PTL DEF LayoutInv

-----------------------------------------------------------------------------
(* Keys *)

\* The effect of the four kinds of write on the rows, as one lemma each.
LEMMA PlaceWritten ==
    ASSUME LayoutInv, NEW r \in Request, NEW w \in Nat, WritesPlace(r, w)
    PROVE  LET q == req[r]
               c == IF q.place = 0 THEN q.coworking ELSE places[w].coworking
           IN  /\ DOMAIN places' = DOMAIN places \cup {w}
               /\ places'[w] = [coworking |-> c, name |-> q.name, pos |-> q.pos]
               /\ \A v \in DOMAIN places \ {w} : places'[v] = places[v]
               /\ UNCHANGED coworkings /\ span'.coworking = span.coworking
               /\ clock' = clock + 1
               /\ span'.place[w] = [from |-> q.from, to |-> clock + 1]
               /\ \A v \in DOMAIN places \ {w} : span'.place[v] = span.place[v]
<1>. DEFINE q == req[r]
            c == IF q.place = 0 THEN q.coworking ELSE places[w].coworking
<1>1. /\ q \in PlaceReq /\ q.pos \in OnGrid /\ c \in Nat /\ q.name \in Name /\ q.from \in Nat
  <2>1. q \in PlaceReq /\ q.pc = "write" /\ LayoutTypeOK /\ CheckedOf(q)
    BY DEF WritesPlace, At, LayoutInv
  <2>2. w \in DOMAIN places => places[w].coworking \in Nat
    BY <2>1 DEF LayoutTypeOK, PlaceRow
  <2>. QED  BY <2>1, <2>2 DEF WritesPlace, PlaceReq, CheckedOf
<1>2. PutPlace(w, c, q.name, q.pos, q.from) /\ UNCHANGED coworkings
  BY DEF WritesPlace
<1>. HIDE DEF c, q
<1>3. /\ DOMAIN places' = DOMAIN places \cup {w}
      /\ places'[w] = [coworking |-> c, name |-> q.name, pos |-> q.pos]
      /\ \A v \in DOMAIN places \ {w} : places'[v] = places[v]
      /\ UNCHANGED coworkings /\ span'.coworking = span.coworking
      /\ clock' = clock + 1
      /\ span'.place[w] = [from |-> q.from, to |-> clock + 1]
      /\ \A v \in DOMAIN places \ {w} : span'.place[v] = span.place[v]
  BY <1>1, <1>2, PlaceRowWritten
<1>. QED  BY <1>3 DEF c, q

LEMMA CoworkingWritten ==
    ASSUME LayoutInv, NEW r \in Request, NEW c \in Nat, WritesCoworking(r, c)
    PROVE  /\ DOMAIN coworkings' = DOMAIN coworkings \cup {c}
           /\ \A d \in DOMAIN coworkings \ {c} : /\ coworkings'[d] = coworkings[d]
                                                 /\ span'.coworking[d] = span.coworking[d]
           /\ UNCHANGED places /\ span'.place = span.place
           /\ clock' = clock + 1 /\ span'.coworking[c].to = clock + 1
           /\ \/ c \notin DOMAIN coworkings /\ c > lastCoworking
                 /\ span'.coworking[c].from = clock
              \/ /\ At(r, "resizeWrite") /\ c = req[r].coworking
                 /\ coworkings'[c].grid = req[r].grid
                 /\ span'.coworking[c].from = req[r].from
<1>0. /\ LayoutTypeOK /\ (\A x \in Request : CheckedOf(req[x]))
      /\ clock \in Nat /\ lastCoworking \in Nat
      /\ DOMAIN coworkings \subseteq 1 .. lastCoworking
  BY DEF LayoutInv, LayoutTypeOK
<1>1. ASSUME NEW n \in Name, NEW g \in Grid, CreateCoworking(r, n, g), c = lastCoworking + 1
      PROVE  ValidGrid(g) /\ PutCoworking(c, n, g, clock) /\ UNCHANGED places
             /\ c \notin DOMAIN coworkings /\ c > lastCoworking
  BY <1>0, <1>1 DEF CreateCoworking
<1>2. ASSUME ResizeWrite(r), req[r] \in ResizeReq, c = req[r].coworking, c \in DOMAIN coworkings,
             PutCoworking(c, req[r].name, req[r].grid, req[r].from)
      PROVE  /\ req[r].grid \in Grid /\ req[r].name \in Name /\ req[r].from \in Nat
             /\ ValidGrid(req[r].grid) /\ UNCHANGED places /\ At(r, "resizeWrite")
  BY <1>0, <1>2 DEF ResizeWrite, At, CheckedOf, ResizeReq
<1>3. CASE \E n \in Name, g \in Grid : CreateCoworking(r, n, g) /\ c = lastCoworking + 1
  <2>1. PICK n \in Name, g \in Grid : CreateCoworking(r, n, g) /\ c = lastCoworking + 1
    BY <1>3
  <2>2. ValidGrid(g) /\ PutCoworking(c, n, g, clock) /\ UNCHANGED places
        /\ c \notin DOMAIN coworkings /\ c > lastCoworking
    BY <1>1, <2>1
  <2>3. /\ DOMAIN coworkings' = DOMAIN coworkings \cup {c}
        /\ \A d \in DOMAIN coworkings \ {c} : coworkings'[d] = coworkings[d]
        /\ clock' = clock + 1 /\ span'.place = span.place
        /\ span'.coworking[c] = [from |-> clock, to |-> clock + 1]
        /\ \A d \in DOMAIN coworkings \ {c} : span'.coworking[d] = span.coworking[d]
    BY <1>0, <2>2, CoworkingRowWritten
  <2>. QED  BY <2>2, <2>3
<1>4. CASE /\ ResizeWrite(r) /\ req[r] \in ResizeReq
           /\ c = req[r].coworking /\ c \in DOMAIN coworkings
           /\ PutCoworking(c, req[r].name, req[r].grid, req[r].from)
  <2>1. /\ req[r].grid \in Grid /\ req[r].name \in Name /\ req[r].from \in Nat
        /\ ValidGrid(req[r].grid) /\ UNCHANGED places /\ At(r, "resizeWrite")
    BY <1>2, <1>4
  <2>. DEFINE n == req[r].name
              g == req[r].grid
              from == req[r].from
  <2>2. n \in Name /\ g \in Grid /\ from \in Nat /\ ValidGrid(g) /\ PutCoworking(c, n, g, from)
    BY <1>4, <2>1
  <2>. HIDE DEF n, g, from
  <2>3. /\ DOMAIN coworkings' = DOMAIN coworkings \cup {c}
        /\ coworkings'[c] = [name |-> n, grid |-> g]
        /\ \A d \in DOMAIN coworkings \ {c} : coworkings'[d] = coworkings[d]
        /\ clock' = clock + 1 /\ span'.place = span.place
        /\ span'.coworking[c] = [from |-> from, to |-> clock + 1]
        /\ \A d \in DOMAIN coworkings \ {c} : span'.coworking[d] = span.coworking[d]
    BY <2>2, CoworkingRowWritten
  <2>. QED  BY <1>4, <2>1, <2>3 DEF n, g, from
<1>. QED  BY <1>3, <1>4 DEF WritesCoworking

LEMMA PlaceRemoved ==
    ASSUME LayoutInv, NEW r \in Request, NEW w \in DOMAIN places, RemovePlace(r, w)
    PROVE  /\ DOMAIN places' = DOMAIN places \ {w}
           /\ \A v \in DOMAIN places' : places'[v] = places[v] /\ span'.place[v] = span.place[v]
           /\ UNCHANGED coworkings /\ span'.coworking = span.coworking
<1>1. /\ span' = [coworking |-> span.coworking, place |-> Without(span.place, w)]
      /\ UNCHANGED coworkings /\ DOMAIN span.place = DOMAIN places
  BY DEF RemovePlace, LayoutInv, LayoutTypeOK
<1>2. span'.coworking = span.coworking /\ span'.place = Without(span.place, w)
  BY <1>1
<1>. QED  BY <1>1, <1>2 DEF RemovePlace, Without

LEMMA CoworkingDropped ==
    ASSUME LayoutInv, NEW r \in Request, Drops(r)
    PROVE  LET c == req[r].coworking IN
           /\ DOMAIN coworkings' = DOMAIN coworkings \ {c} /\ PlacesIn(c) = {}
           /\ \A d \in DOMAIN coworkings' : /\ coworkings'[d] = coworkings[d]
                                            /\ span'.coworking[d] = span.coworking[d]
           /\ UNCHANGED places /\ span'.place = span.place
<1>. DEFINE c == req[r].coworking
<1>1. /\ span' = [coworking |-> Without(span.coworking, c), place |-> span.place]
      /\ UNCHANGED places /\ DOMAIN span.coworking = DOMAIN coworkings
      /\ coworkings' = Without(coworkings, c) /\ PlacesIn(c) = {}
  BY DEF Drops, DropRow, LayoutInv, LayoutTypeOK
<1>. HIDE DEF c
<1>2. span'.place = span.place /\ span'.coworking = Without(span.coworking, c)
  BY <1>1
<1>3. /\ DOMAIN coworkings' = DOMAIN coworkings \ {c} /\ PlacesIn(c) = {}
      /\ \A d \in DOMAIN coworkings' : /\ coworkings'[d] = coworkings[d]
                                       /\ span'.coworking[d] = span.coworking[d]
      /\ UNCHANGED places /\ span'.place = span.place
  BY <1>1, <1>2 DEF Without
<1>. QED  BY <1>3 DEF c

LEMMA KeysNext ==
    ASSUME LayoutInv, NoOrphans, CellsDistinct, [Next]_vars
    PROVE  NoOrphans' /\ CellsDistinct'
<1>1. CASE UNCHANGED tables
  BY <1>1 DEF tables, NoOrphans, CellsDistinct
<1>2. ASSUME NEW r \in Request, NEW w \in Nat, WritesPlace(r, w) PROVE NoOrphans' /\ CellsDistinct'
  <2>. DEFINE q == req[r]
              c == IF q.place = 0 THEN q.coworking ELSE places[w].coworking
  <2>1. /\ DOMAIN places' = DOMAIN places \cup {w} /\ UNCHANGED coworkings
        /\ places'[w] = [coworking |-> c, name |-> q.name, pos |-> q.pos]
        /\ \A v \in DOMAIN places \ {w} : places'[v] = places[v]
    BY <1>2, PlaceWritten
  <2>2. c \in DOMAIN coworkings /\ Unique(w, c, q.name, q.pos)
    BY <1>2 DEF WritesPlace, NoOrphans
  <2>. HIDE DEF c, q
  <2>3. NoOrphans'
    BY <2>1, <2>2 DEF NoOrphans
  <2>4. \A v \in DOMAIN places \ {w} :
           places[v].coworking = c => places[v].name # q.name /\ places[v].pos # q.pos
    BY <2>2 DEF Unique, PlacesIn
  <2>5. CellsDistinct'
    BY <2>1, <2>4 DEF CellsDistinct
  <2>. QED  BY <2>3, <2>5
<1>3. ASSUME NEW r \in Request, NEW w \in DOMAIN places, RemovePlace(r, w)
      PROVE  NoOrphans' /\ CellsDistinct'
  <2>1. /\ DOMAIN places' = DOMAIN places \ {w} /\ UNCHANGED coworkings
        /\ \A v \in DOMAIN places' : places'[v] = places[v]
    BY <1>3, PlaceRemoved
  <2>. QED  BY <2>1 DEF NoOrphans, CellsDistinct
<1>4. ASSUME NEW r \in Request, NEW c \in Nat, WritesCoworking(r, c)
      PROVE  NoOrphans' /\ CellsDistinct'
  <2>1. UNCHANGED places /\ DOMAIN coworkings \subseteq DOMAIN coworkings'
    BY <1>4, CoworkingWritten
  <2>. QED  BY <2>1 DEF NoOrphans, CellsDistinct
<1>5. ASSUME NEW r \in Request, Drops(r) PROVE NoOrphans' /\ CellsDistinct'
  <2>1. /\ UNCHANGED places /\ PlacesIn(req[r].coworking) = {}
        /\ DOMAIN coworkings' = DOMAIN coworkings \ {req[r].coworking}
    BY <1>5, CoworkingDropped
  <2>. QED  BY <2>1 DEF NoOrphans, CellsDistinct, PlacesIn
<1>. QED  BY <1>1, <1>2, <1>3, <1>4, <1>5, Writers DEF Writer

LEMMA KeysHold == Spec => [](LayoutInv /\ NoOrphans /\ CellsDistinct)
<1>1. Init => LayoutInv /\ NoOrphans /\ CellsDistinct
  BY InitLayout DEF Init, NoOrphans, CellsDistinct
<1>2. LayoutInv /\ NoOrphans /\ CellsDistinct /\ [Next]_vars
        => (LayoutInv /\ NoOrphans /\ CellsDistinct)'
  BY LayoutStep, KeysNext
<1>. QED  BY <1>1, <1>2, PTL DEF Spec

\* However an administrator's counts are overtaken by the writes of another, no
\* workspace is left without its coworking: the foreign key looks again where
\* CoworkingRepo.Delete has counted.
THEOREM NoWorkspaceStranded == Spec => []NoOrphans
BY KeysHold, PTL

\* No two workspaces of a coworking ever share a cell or a name, although the
\* handlers of creation and update never look for either: the two unique keys do.
THEOREM OneWorkspacePerCell == Spec => []CellsDistinct
BY KeysHold, PTL

-----------------------------------------------------------------------------
(* Workspaces off the grid *)

\* What a request has checked still holds of the rows, or they were written since:
\* a workspace about to be written fits the grid unless the grid was set after
\* the check, and a grid about to be set has room for every workspace that was
\* not placed after it.
SawGridOf(q) ==
    /\ q.pc \in {"find", "grid", "write"} => q.place <= lastPlace /\ q.coworking <= lastCoworking
    /\ q.pc \in {"grid", "write"} /\ q.place \in DOMAIN places =>
          places[q.place].coworking = q.coworking
    /\ q.pc = "write" =>
          /\ q.from <= clock
          /\ q.coworking \in DOMAIN coworkings /\ ~Inside(q.pos, coworkings[q.coworking].grid) =>
                q.from < span.coworking[q.coworking].to
    /\ q.pc = "resizeWrite" =>
          /\ q.from <= clock
          /\ \A w \in PlacesIn(q.coworking) :
                ~Inside(places[w].pos, q.grid) => q.from < span.place[w].to

SawGrid == \A r \in Request : SawGridOf(req[r])

\* Every check was made before now.
SpansPast ==
    /\ \A c \in DOMAIN coworkings : span.coworking[c].from <= clock
    /\ \A w \in DOMAIN places : span.place[w].from <= clock

LEMMA SawGridStays ==
    ASSUME LayoutInv, LayoutInv', Later, NEW q \in ReqState, SawGridOf(q)
    PROVE  SawGridOf(q)'
<1>1. /\ clock \in Nat /\ clock' \in Nat /\ clock' >= clock
      /\ lastPlace \in Nat /\ lastPlace' \in Nat /\ lastPlace' >= lastPlace
      /\ lastCoworking \in Nat /\ lastCoworking' \in Nat /\ lastCoworking' >= lastCoworking
  BY DEF LayoutInv, LayoutTypeOK, Later
<1>2. /\ span'.place \in [DOMAIN places' -> Span]
      /\ span'.coworking \in [DOMAIN coworkings' -> Span]
  BY DEF LayoutInv, LayoutTypeOK
<1>3. CASE q.pc \in {"find", "grid", "write"}
  <2>1. q \in PlaceReq /\ q.place \in Nat /\ q.coworking \in Nat /\ q.from \in Nat
    BY <1>3 DEF ReqState, PlaceReq, ResizeReq, DropReq
  <2>2. q.place <= lastPlace' /\ q.coworking <= lastCoworking'
    BY <1>1, <1>3, <2>1 DEF SawGridOf
  <2>3. ASSUME q.pc \in {"grid", "write"}, q.place \in DOMAIN places'
        PROVE  places'[q.place].coworking = q.coworking
    BY <1>1, <1>3, <2>1, <2>3 DEF SawGridOf, Later, KeptPlace
  <2>4. ASSUME q.pc = "write" PROVE q.from <= clock /\ q.from <= clock'
    BY <1>1, <2>1, <2>4 DEF SawGridOf
  <2>5. ASSUME q.pc = "write", q.coworking \in DOMAIN coworkings',
               ~Inside(q.pos, coworkings'[q.coworking].grid)
        PROVE  q.from < span'.coworking[q.coworking].to
    <3>1. CASE KeptCoworking(q.coworking)
      <4>1. /\ q.coworking \in DOMAIN coworkings
            /\ coworkings'[q.coworking] = coworkings[q.coworking]
            /\ span'.coworking[q.coworking] = span.coworking[q.coworking]
        BY <3>1 DEF KeptCoworking
      <4>. QED  BY <2>5, <4>1 DEF SawGridOf
    <3>2. CASE span'.coworking[q.coworking].to > clock
      BY <1>1, <1>2, <2>1, <2>4, <2>5, <3>2 DEF Span
    <3>. QED  BY <2>5, <3>1, <3>2 DEF Later
  <2>. QED  BY <1>3, <2>2, <2>3, <2>4, <2>5 DEF SawGridOf, Inside
<1>4. CASE q.pc = "resizeWrite"
  <2>1. q \in ResizeReq /\ q.coworking \in Nat /\ q.from \in Nat
    BY <1>4 DEF ReqState, PlaceReq, ResizeReq, DropReq
  <2>2. q.from <= clock /\ q.from <= clock'
    BY <1>1, <1>4, <2>1 DEF SawGridOf
  <2>3. ASSUME NEW w \in DOMAIN places', places'[w].coworking = q.coworking,
               ~Inside(places'[w].pos, q.grid)
        PROVE  q.from < span'.place[w].to
    <3>1. CASE KeptPlace(w)
      <4>1. /\ w \in DOMAIN places /\ places'[w] = places[w] /\ span'.place[w] = span.place[w]
        BY <3>1 DEF KeptPlace
      <4>. QED  BY <1>4, <2>3, <4>1 DEF SawGridOf, PlacesIn
    <3>2. CASE span'.place[w].to > clock
      BY <1>1, <1>2, <2>1, <2>2, <3>2 DEF Span
    <3>. QED  BY <2>3, <3>1, <3>2 DEF Later
  <2>. QED  BY <1>4, <2>2, <2>3 DEF SawGridOf, PlacesIn, Inside
<1>. QED  BY <1>3, <1>4 DEF SawGridOf

LEMMA SawGridNext ==
    ASSUME LayoutInv, NoOrphans, SawGrid, [Next]_vars
    PROVE  SawGrid'
<1>0. LayoutInv' /\ Later /\ LayoutTypeOK
  BY LayoutStep DEF LayoutInv
<1>1. /\ clock \in Nat /\ lastPlace \in Nat /\ lastCoworking \in Nat
      /\ DOMAIN coworkings \subseteq 1 .. lastCoworking
      /\ places \in [DOMAIN places -> PlaceRow]
  BY <1>0 DEF LayoutTypeOK
<1>. SUFFICES ASSUME NEW q \in Request PROVE SawGridOf(req[q])'
  BY DEF SawGrid
<1>2. SawGridOf(req[q]) /\ req[q] \in ReqState
  BY <1>0, KindOfRequest DEF SawGrid
<1>. PICK d : d = req[q]
  OBVIOUS
<1>3. CASE req'[q] = req[q]
  <2>1. SawGridOf(d)'
    BY <1>0, <1>2, SawGridStays
  <2>. QED  BY <1>3, <2>1
<1>4. CASE At(q, "idle")'
  BY <1>4 DEF At, SawGridOf
<1>5. CASE Began(q)
  <2>1. UNCHANGED tables
    BY <1>5 DEF Began
  <2>2. CASE req'[q].pc = "grid" /\ req'[q].place = 0 /\ req'[q].coworking \in KnownCoworking
    <3>1. 0 \notin DOMAIN places' /\ lastPlace' = lastPlace /\ lastCoworking' = lastCoworking
      BY <1>0, <2>1 DEF LayoutTypeOK, tables
    <3>. QED  BY <1>1, <2>2, <3>1 DEF SawGridOf, KnownCoworking
  <2>3. CASE req'[q].pc = "find" /\ req'[q].place \in KnownPlace /\ req'[q].coworking = 0
    BY <1>1, <2>1, <2>3 DEF SawGridOf, KnownPlace, tables
  <2>4. CASE req'[q].pc \in {"resizeCheck", "dropCheck"}
    BY <2>4 DEF SawGridOf
  <2>. QED  BY <1>5, <2>2, <2>3, <2>4 DEF Began
<1>6. CASE Onward(q)
  <2>0. UNCHANGED tables
    BY <1>6 DEF Onward, FindPlace, CheckGrid, ResizeCheck, DropCheck
  <2>. DEFINE new == req'[q]
  <2>1. CASE /\ FindPlace(q) /\ req[q].place \in DOMAIN places
             /\ req'[q] = [req[q] EXCEPT !.pc = "grid", !.coworking = places[req[q].place].coworking]
    <3>1. d \in PlaceReq /\ d.pc = "find" /\ d.place \in DOMAIN places
      BY <1>0, <2>1, KindOfRequest DEF FindPlace, At
    <3>2. new.pc = "grid" /\ new.place = d.place /\ new.coworking = places[d.place].coworking
      BY <2>1, <3>1 DEF PlaceReq
    <3>3. places[d.place].coworking <= lastCoworking
      BY <1>1, <3>1 DEF NoOrphans
    <3>. QED  BY <1>1, <1>2, <2>0, <3>1, <3>2, <3>3 DEF SawGridOf, tables
  <2>2. CASE /\ CheckGrid(q) /\ req[q].coworking \in DOMAIN coworkings
             /\ Inside(req[q].pos, coworkings[req[q].coworking].grid)
             /\ req'[q] = [req[q] EXCEPT !.pc = "write", !.from = clock]
    <3>1. d \in PlaceReq /\ d.pc = "grid"
      BY <1>0, <2>2, KindOfRequest DEF CheckGrid, At
    <3>2. /\ new.pc = "write" /\ new.place = d.place /\ new.coworking = d.coworking
          /\ new.pos = d.pos /\ new.from = clock
      BY <2>2, <3>1 DEF PlaceReq
    <3>. QED  BY <1>1, <1>2, <2>0, <2>2, <3>1, <3>2 DEF SawGridOf, tables, Inside
  <2>3. CASE /\ ResizeCheck(q)
             /\ \A w \in PlacesIn(req[q].coworking) :
                   ~(places[w].pos.x > req[q].grid.cols) /\ ~(places[w].pos.y > req[q].grid.rows)
             /\ req'[q] = [req[q] EXCEPT !.pc = "resizeWrite", !.from = clock]
    <3>1. d \in ResizeReq /\ ValidGrid(d.grid)
      BY <1>0, <2>3, KindOfRequest DEF ResizeCheck, At, LayoutInv, CheckedOf
    <3>2. /\ new.pc = "resizeWrite" /\ new.coworking = d.coworking
          /\ new.grid = d.grid /\ new.from = clock
      BY <2>3, <3>1 DEF ResizeReq
    <3>3. ASSUME NEW w \in PlacesIn(d.coworking) PROVE Inside(places[w].pos, d.grid)
      <4>1. places[w].pos.x \in 1 .. MaxGrid /\ places[w].pos.y \in 1 .. MaxGrid
        BY <1>1, <3>3 DEF PlacesIn, PlaceRow
      <4>. QED  BY <2>3, <3>1, <4>1, LayoutAssumption DEF Inside, ValidGrid
    <3>. QED  BY <1>1, <2>0, <3>2, <3>3 DEF SawGridOf, tables, PlacesIn, Inside
  <2>4. CASE DropCheck(q) /\ req'[q] = [req[q] EXCEPT !.pc = "dropRow"]
    <3>1. d \in DropReq
      BY <1>0, <2>4, KindOfRequest DEF DropCheck, At
    <3>2. new.pc = "dropRow"
      BY <2>4, <3>1 DEF DropReq
    <3>. QED  BY <3>2 DEF SawGridOf
  <2>. QED  BY <1>6, <2>1, <2>2, <2>3, <2>4 DEF Onward
<1>. QED  BY <1>3, <1>4, <1>5, <1>6, LayoutStep

\* The two sides of a write: the workspace is off the grid only if the request saw
\* another, and every check was made before the write it is compared with.
LEMMA OutsideNext ==
    ASSUME LayoutInv, NoOrphans, SawGrid, SpansPast, OutsideIsRace, [Next]_vars
    PROVE  SpansPast' /\ OutsideIsRace'
<1>0. /\ LayoutInv' /\ LayoutTypeOK /\ LayoutTypeOK' /\ clock \in Nat
      /\ DOMAIN coworkings \subseteq 1 .. lastCoworking /\ lastCoworking \in Nat
      /\ span.coworking \in [DOMAIN coworkings -> Span] /\ span.place \in [DOMAIN places -> Span]
  BY LayoutStep DEF LayoutInv, LayoutTypeOK
<1>a. /\ \A c \in DOMAIN coworkings : span.coworking[c].from \in Nat /\ span.coworking[c].to \in Nat
      /\ \A w \in DOMAIN places : span.place[w].from \in Nat /\ span.place[w].to \in Nat
  BY <1>0 DEF Span
<1>1. CASE UNCHANGED tables
  BY <1>1 DEF tables, SpansPast, OutsideIsRace, Inside
<1>2. ASSUME NEW r \in Request, NEW w \in Nat, WritesPlace(r, w)
      PROVE  SpansPast' /\ OutsideIsRace'
  <2>. DEFINE q == req[r]
              c == IF q.place = 0 THEN q.coworking ELSE places[w].coworking
  <2>1. /\ DOMAIN places' = DOMAIN places \cup {w} /\ UNCHANGED coworkings
        /\ places'[w] = [coworking |-> c, name |-> q.name, pos |-> q.pos]
        /\ \A v \in DOMAIN places \ {w} : places'[v] = places[v]
        /\ span'.coworking = span.coworking /\ clock' = clock + 1
        /\ span'.place[w] = [from |-> q.from, to |-> clock + 1]
        /\ \A v \in DOMAIN places \ {w} : span'.place[v] = span.place[v]
    BY <1>2, PlaceWritten
  <2>2. /\ c \in DOMAIN coworkings /\ c = q.coworking /\ q.pc = "write"
        /\ SawGridOf(q) /\ q.from \in Nat
    BY <1>2 DEF WritesPlace, At, NoOrphans, SawGrid, SawGridOf, PlaceReq
  <2>. HIDE DEF c, q
  <2>3. /\ q.from <= clock
        /\ ~Inside(q.pos, coworkings[c].grid) => q.from < span.coworking[c].to
    BY <2>2 DEF SawGridOf
  <2>4. SpansPast'
    <3>1. \A d \in DOMAIN coworkings' : span'.coworking[d].from <= clock'
      BY <1>0, <1>a, <2>1 DEF SpansPast
    <3>2. \A v \in DOMAIN places \ {w} : span'.place[v].from <= clock'
      BY <1>0, <1>a, <2>1 DEF SpansPast
    <3>3. span'.place[w].from <= clock'
      BY <1>0, <2>1, <2>2, <2>3
    <3>. QED  BY <2>1, <3>1, <3>2, <3>3 DEF SpansPast
  <2>5. ASSUME ~Inside(q.pos, coworkings[c].grid)
        PROVE  q.from < span.coworking[c].to /\ span.coworking[c].from < clock + 1
    BY <1>0, <1>a, <2>2, <2>3, <2>5 DEF SpansPast
  <2>6. OutsideIsRace'
    <3>. SUFFICES ASSUME NEW v \in DOMAIN places',
                         ~Inside(places'[v].pos, coworkings'[places'[v].coworking].grid)
                  PROVE  /\ span'.place[v].from < span'.coworking[places'[v].coworking].to
                         /\ span'.coworking[places'[v].coworking].from < span'.place[v].to
      BY DEF OutsideIsRace, Inside
    <3>1. CASE v = w
      BY <2>1, <2>5, <3>1
    <3>2. CASE v \in DOMAIN places \ {w}
      BY <2>1, <3>2 DEF OutsideIsRace
    <3>. QED  BY <2>1, <3>1, <3>2
  <2>. QED  BY <2>4, <2>6
<1>3. ASSUME NEW r \in Request, NEW w \in DOMAIN places, RemovePlace(r, w)
      PROVE  SpansPast' /\ OutsideIsRace'
  <2>1. /\ DOMAIN places' = DOMAIN places \ {w} /\ UNCHANGED <<coworkings, clock>>
        /\ span'.coworking = span.coworking
        /\ \A v \in DOMAIN places' : places'[v] = places[v] /\ span'.place[v] = span.place[v]
    BY <1>3, PlaceRemoved DEF RemovePlace
  <2>. QED  BY <2>1 DEF SpansPast, OutsideIsRace, Inside
<1>4. ASSUME NEW r \in Request, NEW c \in Nat, WritesCoworking(r, c)
      PROVE  SpansPast' /\ OutsideIsRace'
  <2>1. /\ DOMAIN coworkings' = DOMAIN coworkings \cup {c}
        /\ \A d \in DOMAIN coworkings \ {c} : /\ coworkings'[d] = coworkings[d]
                                              /\ span'.coworking[d] = span.coworking[d]
        /\ UNCHANGED places /\ span'.place = span.place
        /\ clock' = clock + 1 /\ span'.coworking[c].to = clock + 1
        /\ \/ c \notin DOMAIN coworkings /\ c > lastCoworking
              /\ span'.coworking[c].from = clock
           \/ /\ At(r, "resizeWrite") /\ c = req[r].coworking
              /\ coworkings'[c].grid = req[r].grid
              /\ span'.coworking[c].from = req[r].from
    BY <1>4, CoworkingWritten
  <2>2. At(r, "resizeWrite") => req[r].from \in Nat /\ req[r].from <= clock /\ SawGridOf(req[r])
    BY <1>0, KindOfRequest DEF At, ResizeReq, SawGrid, SawGridOf
  <2>3. SpansPast'
    <3>1. \A d \in DOMAIN coworkings \ {c} : span'.coworking[d].from <= clock'
      BY <1>0, <1>a, <2>1 DEF SpansPast
    <3>2. span'.coworking[c].from <= clock'
      BY <1>0, <2>1, <2>2
    <3>3. \A w \in DOMAIN places' : span'.place[w].from <= clock'
      BY <1>0, <1>a, <2>1 DEF SpansPast
    <3>. QED  BY <2>1, <3>1, <3>2, <3>3 DEF SpansPast
  <2>4. OutsideIsRace'
    <3>. SUFFICES ASSUME NEW v \in DOMAIN places,
                         ~Inside(places[v].pos, coworkings'[places[v].coworking].grid)
                  PROVE  /\ span.place[v].from < span'.coworking[places[v].coworking].to
                         /\ span'.coworking[places[v].coworking].from < span.place[v].to
      BY <2>1 DEF OutsideIsRace, Inside
    <3>1. places[v].coworking \in DOMAIN coworkings
      BY DEF NoOrphans
    <3>2. CASE places[v].coworking # c
      BY <2>1, <3>1, <3>2 DEF OutsideIsRace
    <3>3. CASE places[v].coworking = c
      <4>1. /\ At(r, "resizeWrite") /\ c = req[r].coworking
            /\ coworkings'[c].grid = req[r].grid
            /\ span'.coworking[c].from = req[r].from
        BY <2>1, <3>1, <3>3
      <4>2. req[r].from < span.place[v].to
        BY <2>2, <3>3, <4>1 DEF SawGridOf, At, PlacesIn
      <4>3. span.place[v].from < clock + 1
        BY <1>0, <1>a DEF SpansPast
      <4>. QED  BY <2>1, <3>3, <4>1, <4>2, <4>3
    <3>. QED  BY <3>2, <3>3
  <2>. QED  BY <2>3, <2>4
<1>5. ASSUME NEW r \in Request, Drops(r) PROVE SpansPast' /\ OutsideIsRace'
  <2>. DEFINE c == req[r].coworking
  <2>1. /\ DOMAIN coworkings' = DOMAIN coworkings \ {c} /\ PlacesIn(c) = {}
        /\ \A d \in DOMAIN coworkings' : /\ coworkings'[d] = coworkings[d]
                                         /\ span'.coworking[d] = span.coworking[d]
        /\ UNCHANGED <<places, clock>> /\ span'.place = span.place
    BY <1>5, CoworkingDropped DEF Drops, DropRow
  <2>. HIDE DEF c
  <2>2. \A w \in DOMAIN places : places[w].coworking \in DOMAIN coworkings'
    BY <2>1 DEF NoOrphans, PlacesIn
  <2>. QED  BY <2>1, <2>2 DEF SpansPast, OutsideIsRace, Inside
<1>. QED  BY <1>1, <1>2, <1>3, <1>4, <1>5, Writers DEF Writer

LEMMA GridHolds ==
    Spec => [](LayoutInv /\ NoOrphans /\ CellsDistinct /\ SawGrid /\ SpansPast /\ OutsideIsRace)
<1>. DEFINE Inv == LayoutInv /\ NoOrphans /\ CellsDistinct /\ SawGrid /\ SpansPast /\ OutsideIsRace
<1>1. ASSUME Init PROVE Inv
  <2>1. LayoutInv /\ NoOrphans /\ CellsDistinct /\ OutsideIsRace
    BY <1>1, InitLayout DEF Init, NoOrphans, CellsDistinct, OutsideIsRace
  <2>2. SawGrid
    BY <1>1 DEF Init, SawGrid, SawGridOf
  <2>3. SpansPast
    <3>1. /\ DOMAIN coworkings = {1} /\ places = [w \in {} |-> {}] /\ clock = 0
          /\ span = [coworking |-> [c \in {1} |-> [from |-> 0, to |-> 0]], place |-> [w \in {} |-> {}]]
      BY <1>1 DEF Init
    <3>. QED  BY <3>1 DEF SpansPast
  <2>. QED  BY <2>1, <2>2, <2>3
<1>2. Inv /\ [Next]_vars => Inv'
  BY LayoutStep, KeysNext, SawGridNext, OutsideNext
<1>. QED  BY <1>1, <1>2, PTL DEF Spec

\* The grid and the places on it are checked by reading and written later: a
\* workspace ends up off the grid only if the request that placed it and the one
\* that set the grid each read before the other wrote.
THEOREM OutsideOnlyByRace == Spec => []OutsideIsRace
BY GridHolds, PTL

-----------------------------------------------------------------------------
(* Plans *)

\* Pages only read: what holds of the handlers holds with any number of plans
\* being drawn next to them.
LEMMA PlansOnlyRead == PlansSpec => Spec
<1>1. PlansInit => Init
  BY DEF PlansInit
<1>2. [PlansNext]_plansVars => [Next]_vars
  BY DEF PlansNext, OpenPlan, DrawPlan, ClosePlan, plansVars
<1>. QED  BY <1>1, <1>2, PTL DEF PlansSpec, Spec

\* What a plan has read is what the rows say, or they were written since: the grid
\* between the two statements, and the cells left empty when it was drawn.
PlanOf(q) ==
    /\ q.pc = "seats" =>
          /\ q.clock \in Nat /\ q.clock <= clock
          /\ q.coworking \in Nat /\ q.coworking <= lastCoworking
          /\ ValidGrid(q.grid)
          /\ q.coworking \in DOMAIN coworkings /\ q.grid # coworkings[q.coworking].grid =>
                span.coworking[q.coworking].to > q.clock
    /\ q.pc = "shown" =>
          /\ q.clock \in Nat /\ q.clock <= clock
          /\ \A w \in PlacesIn(q.coworking) :
                places[w].pos \in q.empty => span.place[w].to > q.clock

PlansInv ==
    /\ DOMAIN plan = Visitor
    /\ plan = [v \in Visitor |-> plan[v]]
    /\ \A v \in Visitor : PlanOf(plan[v])

LEMMA PlanStays ==
    ASSUME LayoutInv, LayoutInv', Later, NEW q, PlanOf(q)
    PROVE  PlanOf(q)'
<1>1. /\ clock \in Nat /\ clock' \in Nat /\ clock' >= clock
      /\ lastCoworking \in Nat /\ lastCoworking' \in Nat /\ lastCoworking' >= lastCoworking
  BY DEF LayoutInv, LayoutTypeOK, Later
<1>2. /\ span'.place \in [DOMAIN places' -> Span]
      /\ span'.coworking \in [DOMAIN coworkings' -> Span]
  BY DEF LayoutInv, LayoutTypeOK
<1>3. CASE q.pc = "seats"
  <2>1. /\ q.clock \in Nat /\ q.clock <= clock /\ q.clock <= clock'
        /\ q.coworking \in Nat /\ q.coworking <= lastCoworking /\ q.coworking <= lastCoworking'
        /\ ValidGrid(q.grid)
    BY <1>1, <1>3 DEF PlanOf
  <2>2. ASSUME q.coworking \in DOMAIN coworkings', q.grid # coworkings'[q.coworking].grid
        PROVE  span'.coworking[q.coworking].to > q.clock
    <3>1. CASE KeptCoworking(q.coworking)
      <4>1. /\ q.coworking \in DOMAIN coworkings
            /\ coworkings'[q.coworking] = coworkings[q.coworking]
            /\ span'.coworking[q.coworking] = span.coworking[q.coworking]
        BY <3>1 DEF KeptCoworking
      <4>. QED  BY <1>3, <2>2, <4>1 DEF PlanOf
    <3>2. CASE span'.coworking[q.coworking].to > clock
      BY <1>1, <1>2, <2>1, <2>2, <3>2 DEF Span
    <3>. QED  BY <2>2, <3>1, <3>2 DEF Later
  <2>. QED  BY <1>3, <2>1, <2>2 DEF PlanOf, ValidGrid
<1>4. CASE q.pc = "shown"
  <2>1. q.clock \in Nat /\ q.clock <= clock /\ q.clock <= clock'
    BY <1>1, <1>4 DEF PlanOf
  <2>2. ASSUME NEW w \in DOMAIN places', places'[w].coworking = q.coworking, places'[w].pos \in q.empty
        PROVE  span'.place[w].to > q.clock
    <3>1. CASE KeptPlace(w)
      <4>1. /\ w \in DOMAIN places /\ places'[w] = places[w] /\ span'.place[w] = span.place[w]
        BY <3>1 DEF KeptPlace
      <4>. QED  BY <1>4, <2>2, <4>1 DEF PlanOf, PlacesIn
    <3>2. CASE span'.place[w].to > clock
      BY <1>1, <1>2, <2>1, <3>2 DEF Span
    <3>. QED  BY <2>2, <3>1, <3>2 DEF Later
  <2>. QED  BY <1>4, <2>1, <2>2 DEF PlanOf, PlacesIn
<1>. QED  BY <1>3, <1>4 DEF PlanOf

\* One page goes on, the tables stay.
LEMMA PlanMoves ==
    ASSUME LayoutInv, PlansInv, UNCHANGED vars, NEW v \in Visitor, NEW state,
           plan' = [plan EXCEPT ![v] = state], PlanOf(state)
    PROVE  PlansInv'
<1>1. DOMAIN plan' = Visitor /\ plan' = [u \in Visitor |-> plan'[u]]
  BY DEF PlansInv
<1>2. \A u \in Visitor : PlanOf(plan'[u])
  BY DEF PlansInv
<1>3. ASSUME NEW q, PlanOf(q) PROVE PlanOf(q)'
  BY <1>3 DEF vars, PlanOf, PlacesIn, ValidGrid
<1>4. ASSUME NEW u \in Visitor PROVE PlanOf(plan[u])'
  <2>. PICK q : q = plan'[u]
    OBVIOUS
  <2>1. PlanOf(q)'
    BY <1>2, <1>3
  <2>. QED  BY <2>1
<1>. QED  BY <1>1, <1>4 DEF PlansInv

LEMMA PlansNextInv ==
    ASSUME LayoutInv, PlansInv, [PlansNext]_plansVars
    PROVE  PlansInv'
<1>0. LayoutTypeOK /\ clock \in Nat /\ lastCoworking \in Nat
  BY DEF LayoutInv, LayoutTypeOK
<1>1. CASE [Next]_vars /\ UNCHANGED plan
  <2>1. LayoutInv' /\ Later
    BY <1>1, LayoutStep
  <2>2. ASSUME NEW v \in Visitor PROVE PlanOf(plan[v])'
    <3>. PICK q : q = plan[v]
      OBVIOUS
    <3>1. PlanOf(q)'
      BY <2>1, PlanStays DEF PlansInv
    <3>. QED  BY <1>1, <3>1
  <2>. QED  BY <1>1, <2>2 DEF PlansInv
<1>2. ASSUME NEW v \in Visitor, NEW page, NEW wanted \in KnownCoworking, OpenPlan(v, page, wanted)
      PROVE  PlansInv'
  <2>1. PICK c \in DOMAIN coworkings :
           plan' = [plan EXCEPT ![v] = [pc |-> "seats", page |-> page, coworking |-> c,
                                        grid |-> coworkings[c].grid, clock |-> clock]]
    BY <1>2 DEF OpenPlan
  <2>. DEFINE state == [pc |-> "seats", page |-> page, coworking |-> c,
                        grid |-> coworkings[c].grid, clock |-> clock]
  <2>2. ValidGrid(coworkings[c].grid) /\ c \in Nat /\ c <= lastCoworking
    BY <1>0 DEF LayoutTypeOK, CoworkingRow, ValidGrid
  <2>3. PlanOf(state)
    BY <1>0, <2>2 DEF PlanOf
  <2>4. UNCHANGED vars /\ plan' = [plan EXCEPT ![v] = state]
    BY <1>2, <2>1 DEF OpenPlan
  <2>. HIDE DEF state
  <2>. QED  BY <2>3, <2>4, PlanMoves
<1>3. ASSUME NEW v \in Visitor, DrawPlan(v) PROVE PlansInv'
  <2>. DEFINE q     == plan[v]
              seats == PlacesIn(q.coworking)
              dead  == [pc |-> "dead", coworking |-> q.coworking, clock |-> q.clock]
              shown == [pc |-> "shown", coworking |-> q.coworking, clock |-> clock,
                        empty |-> EmptyCells(q.grid, seats)]
  <2>1. PlanOf(dead) /\ PlanOf(shown)
    BY <1>0 DEF PlanOf, EmptyCells
  <2>2. /\ UNCHANGED vars
        /\ plan' = [plan EXCEPT ![v] = dead] \/ plan' = [plan EXCEPT ![v] = shown]
    BY <1>3 DEF DrawPlan
  <2>. HIDE DEF dead, shown
  <2>. QED  BY <2>1, <2>2, PlanMoves
<1>4. ASSUME NEW v \in Visitor, ClosePlan(v) PROVE PlansInv'
  <2>1. PlanOf([pc |-> "none"])
    BY DEF PlanOf
  <2>. QED  BY <1>4, <2>1, PlanMoves DEF ClosePlan
<1>. QED  BY <1>1, <1>2, <1>3, <1>4 DEF PlansNext, plansVars

LEMMA PlansHold == PlansSpec => [](LayoutInv /\ NoOrphans /\ CellsDistinct /\ PlansInv)
<1>. DEFINE Inv == LayoutInv /\ NoOrphans /\ CellsDistinct
<1>1. PlansSpec => []Inv
  BY PlansOnlyRead, KeysHold, PTL
<1>2. PlansInit => PlansInv
  BY DEF PlansInit, PlansInv, PlanOf
<1>3. Inv /\ PlansInv /\ [PlansNext]_plansVars => PlansInv'
  BY PlansNextInv
<1>. QED  BY <1>1, <1>2, <1>3, PTL DEF PlansSpec

\* A cell drawn empty is one where a workspace can be put: whatever stands there
\* now was put there after the plan was drawn, although the plan's two statements
\* may have read the layout at two moments.
THEOREM EmptyCellsAccept == PlansSpec => []EmptyCellAccepts
<1>1. PlansInv => EmptyCellAccepts
  BY DEF PlansInv, PlanOf, EmptyCellAccepts, On
<1>. QED  BY <1>1, PlansHold, PTL

\* Distinct cells of a grid are no more than columns times rows.
LEMMA SeatsFit ==
    ASSUME LayoutTypeOK, CellsDistinct, NEW c, NEW g, ValidGrid(g),
           \A w \in PlacesIn(c) : Inside(places[w].pos, g)
    PROVE  RoomForEmpty(g, PlacesIn(c))
<1>. DEFINE seats == PlacesIn(c)
            cells == (1 .. g.cols) \X (1 .. g.rows)
            f == [w \in seats |-> <<places[w].pos.x, places[w].pos.y>>]
<1>1. g.cols \in Nat /\ g.rows \in Nat /\ g.cols >= 1 /\ g.rows >= 1
  BY LayoutAssumption DEF ValidGrid
<1>2. IsFiniteSet(cells) /\ Cardinality(cells) = g.cols * g.rows
  <2>0. ASSUME NEW n \in Nat, n >= 1 PROVE IsFiniteSet(1 .. n) /\ Cardinality(1 .. n) = n
    <3>1. 1 \in Int /\ n \in Int /\ ~(1 > n) /\ n - 1 + 1 = n
      BY <2>0
    <3>2. /\ IsFiniteSet(1 .. n)
          /\ Cardinality(1 .. n) = IF 1 > n THEN 0 ELSE n - 1 + 1
      BY ONLY <3>1, FS_Interval, Zenon
    <3>. QED  BY <3>1, <3>2
  <2>1. IsFiniteSet(1 .. g.cols) /\ Cardinality(1 .. g.cols) = g.cols
    BY <1>1, <2>0
  <2>2. IsFiniteSet(1 .. g.rows) /\ Cardinality(1 .. g.rows) = g.rows
    BY <1>1, <2>0
  <2>. QED  BY <2>1, <2>2, FS_Product
<1>3. \A w \in seats : places[w].pos \in OnGrid
  BY DEF LayoutTypeOK, PlacesIn, PlaceRow, OnGrid
<1>4. f \in [seats -> cells]
  BY <1>1, <1>3 DEF Inside, OnGrid
<1>5. ASSUME NEW v \in seats, NEW w \in seats, f[v] = f[w] PROVE v = w
  <2>1. places[v].pos.x = places[w].pos.x /\ places[v].pos.y = places[w].pos.y
    BY <1>5
  <2>2. places[v].pos = places[w].pos
    BY <1>3, <2>1 DEF OnGrid
  <2>. QED  BY <2>2 DEF CellsDistinct, PlacesIn
<1>6. f \in Injection(seats, cells)
  BY <1>4, <1>5 DEF Injection, IsInjective
<1>. HIDE DEF f, cells
<1>7. Cardinality(seats) <= Cardinality(cells) /\ IsFiniteSet(seats)
  BY <1>2, <1>6, FS_Injection
<1>8. Cardinality(seats) \in Nat
  BY <1>7, FS_CardinalityType
<1>9. Cardinality(cells) \in Nat
  BY <1>2, FS_CardinalityType
<1>. HIDE DEF seats
<1>10. Cardinality(cells) - Cardinality(seats) >= 0
  BY <1>7, <1>8, <1>9
<1>. QED  BY <1>2, <1>10 DEF RoomForEmpty, seats

\* emptyCells asks for room for cols*rows less the seats: that is negative, and the
\* request lost, only if the coworking changed between the two statements that
\* read it or has a workspace off its grid.
THEOREM PlansLostByRace == PlansSpec => LostPlanIsRace
<1>. DEFINE Lost == \A v \in Visitor :
                       On(v, "seats") /\ plan'[v].pc = "dead" =>
                           LET c == plan[v].coworking IN
                           \/ ChangedSince(c, plan[v].clock)
                           \/ \E w \in PlacesIn(c) : ~Inside(places[w].pos, coworkings[c].grid)
            Inv == LayoutInv /\ NoOrphans /\ CellsDistinct /\ PlansInv
<1>1. ASSUME Inv, [PlansNext]_plansVars, NEW v \in Visitor, On(v, "seats"), plan'[v].pc = "dead"
      PROVE  LET c == plan[v].coworking IN
             \/ ChangedSince(c, plan[v].clock)
             \/ \E w \in PlacesIn(c) : ~Inside(places[w].pos, coworkings[c].grid)
  <2>. DEFINE q == plan[v]
              c == q.coworking
  <2>0. LayoutTypeOK /\ PlanOf(q) /\ q.pc = "seats" /\ DOMAIN plan = Visitor
    BY <1>1 DEF LayoutInv, PlansInv, On
  <2>1. DrawPlan(v) /\ ~RoomForEmpty(q.grid, PlacesIn(c))
    <3>1. ASSUME plan'[v] = plan[v] PROVE FALSE
      BY <1>1, <3>1 DEF On
    <3>2. plan' # plan
      BY <3>1
    <3>3. ASSUME NEW u \in Visitor, NEW page, NEW wanted \in KnownCoworking, OpenPlan(u, page, wanted)
          PROVE  FALSE
      <4>1. u # v
        BY <1>1, <3>3 DEF OpenPlan, On
      <4>2. plan'[v] = plan[v]
        BY <3>3, <4>1 DEF OpenPlan
      <4>. QED  BY <3>1, <4>2
    <3>4. ASSUME NEW u \in Visitor, ClosePlan(u) PROVE FALSE
      <4>1. CASE u = v
        <5>1. plan'[v] = [pc |-> "none"]
          BY <2>0, <3>4, <4>1 DEF ClosePlan
        <5>. QED  BY <1>1, <5>1
      <4>2. CASE u # v
        BY <3>1, <3>4, <4>2 DEF ClosePlan
      <4>. QED  BY <4>1, <4>2
    <3>5. ASSUME NEW u \in Visitor, DrawPlan(u), u # v PROVE FALSE
      BY <3>1, <3>5 DEF DrawPlan
    <3>6. DrawPlan(v)
      BY <1>1, <3>2, <3>3, <3>4, <3>5 DEF PlansNext, plansVars
    <3>. QED  BY <1>1, <2>0, <3>6 DEF DrawPlan
  <2>. HIDE DEF q
  <2>2. SUFFICES ASSUME ~ChangedSince(c, q.clock),
                        \A w \in PlacesIn(c) : Inside(places[w].pos, coworkings[c].grid)
                 PROVE  FALSE
    BY DEF q
  <2>3. ASSUME NEW w \in PlacesIn(c) PROVE Inside(places[w].pos, q.grid)
    <3>1. c \in DOMAIN coworkings
      BY <1>1, <2>3 DEF NoOrphans, PlacesIn
    <3>2. q.grid = coworkings[c].grid
      BY <2>0, <2>2, <3>1 DEF PlanOf, ChangedSince
    <3>. QED  BY <2>2, <2>3, <3>2
  <2>4. ValidGrid(q.grid)
    BY <2>0 DEF PlanOf
  <2>. QED  BY <1>1, <2>0, <2>1, <2>3, <2>4, SeatsFit
<1>2. Inv /\ [PlansNext]_plansVars => [Lost]_plansVars
  BY <1>1
<1>3. PlansSpec => [][Lost]_plansVars
  BY <1>2, PlansHold, PTL DEF PlansSpec
<1>. QED  BY <1>3 DEF LostPlanIsRace
=============================================================================
