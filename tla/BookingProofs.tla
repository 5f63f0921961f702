--------------------------- MODULE BookingProofs ---------------------------
(***************************************************************************)
(* Theorems about the booking handlers, for any users, workspaces and      *)
(* requests and without the bounds of the runs.                            *)
(***************************************************************************)
EXTENDS BookingSafety, FiniteSetTheorems, TLAPS

-----------------------------------------------------------------------------
(* The statements of BookingRepo *)

\* An INSERT keeps the table well formed and adds one confirmed row.
LEMMA CreateRow ==
    ASSUME RepoType, NEW u \in User, NEW w \in Workspace, NEW s \in Nat, NEW e \in Nat,
           Create(u, w, s, e)
    PROVE  /\ RepoType'
           /\ Rows' = Rows \cup {nextId}
           /\ nextId \notin Rows
           /\ nextId' = nextId + 1
           /\ \A i \in Rows : bookings'[i] = bookings[i]
           /\ bookings'[nextId] = [user |-> u, workspace |-> w, start |-> s, end |-> e,
                                   status |-> "CONFIRMED", cancelledAt |-> Null]
<1>1. Rows' = Rows \cup {nextId} /\ nextId' = nextId + 1
  BY DEF Create, Rows
<1>2. nextId \notin Rows /\ \A i \in Rows : bookings'[i] = bookings[i]
  BY DEF RepoType, Create, Rows
<1>3. bookings'[nextId] = [user |-> u, workspace |-> w, start |-> s, end |-> e,
                           status |-> "CONFIRMED", cancelledAt |-> Null]
  BY DEF Create, Rows
<1>4. bookings'[nextId] \in Row
  BY <1>3 DEF Row, Status
<1>5. \A i \in Rows' : bookings'[i] \in Row
  BY <1>1, <1>2, <1>4 DEF RepoType, Rows
<1>6. bookings' = [i \in Rows' |-> bookings'[i]]
  BY <1>1 DEF Create, Rows
<1>7. RepoType'
  BY <1>1, <1>5, <1>6 DEF RepoType, Rows
<1>. QED  BY <1>1, <1>2, <1>3, <1>7

\* An UPDATE keeps the rows, and of each all but status and cancelled_at.
LEMMA SetStatusRows ==
    ASSUME RepoType, NEW S, NEW s \in Status, SetStatus(S, s)
    PROVE  /\ RepoType'
           /\ Rows' = Rows
           /\ nextId' = nextId
           /\ \A i \in Rows : bookings'[i] = IF i \in S THEN [bookings[i] EXCEPT !.status = s]
                                             ELSE bookings[i]
<1>1. Rows' = Rows /\ nextId' = nextId
  BY DEF SetStatus, Rows
<1>2. \A i \in Rows : bookings'[i] = IF i \in S THEN [bookings[i] EXCEPT !.status = s]
                                     ELSE bookings[i]
  BY DEF SetStatus, Rows
<1>3. \A i \in Rows' : bookings'[i] \in Row
  BY <1>1, <1>2 DEF RepoType, Rows, Row
<1>4. bookings' = [i \in Rows' |-> bookings'[i]]
  BY <1>1 DEF SetStatus, Rows
<1>5. RepoType'
  BY <1>1, <1>3, <1>4 DEF RepoType, Rows
<1>. QED  BY <1>1, <1>2, <1>5

\* The guarded UPDATE of Cancel: the row of one confirmed booking, or nothing.
LEMMA CancelRow ==
    ASSUME RepoType, NEW id, NEW s \in Status, NEW t \in Nat, Cancel(id, s, t)
    PROVE  /\ RepoType'
           /\ Rows' = Rows
           /\ nextId' = nextId
           /\ \A i \in Rows : bookings'[i] = IF i = id /\ Confirmed(i)
                                             THEN [bookings[i] EXCEPT !.status = s, !.cancelledAt = t]
                                             ELSE bookings[i]
<1>1. Rows' = Rows /\ nextId' = nextId
  BY DEF Cancel, Rows
<1>2. \A i \in Rows : bookings'[i] = IF i = id /\ Confirmed(i)
                                     THEN [bookings[i] EXCEPT !.status = s, !.cancelledAt = t]
                                     ELSE bookings[i]
  BY DEF Cancel, Rows
<1>3. \A i \in Rows' : bookings'[i] \in Row
  BY <1>1, <1>2 DEF RepoType, Rows, Row
<1>4. bookings' = [i \in Rows' |-> bookings'[i]]
  BY <1>1 DEF Cancel, Rows
<1>5. RepoType'
  BY <1>1, <1>3, <1>4 DEF RepoType, Rows
<1>. QED  BY <1>1, <1>2, <1>5

\* The cascade removes the rows of one workspace and touches no other.
LEMMA DeleteRows ==
    ASSUME RepoType, NEW w, DeleteByWorkspace(w)
    PROVE  /\ RepoType'
           /\ Rows' = {i \in Rows : bookings[i].workspace # w}
           /\ nextId' = nextId
           /\ \A i \in Rows' : bookings'[i] = bookings[i]
<1>1. /\ Rows' = {i \in Rows : bookings[i].workspace # w}
      /\ nextId' = nextId
      /\ \A i \in Rows' : bookings'[i] = bookings[i]
      /\ bookings' = [i \in Rows' |-> bookings'[i]]
  BY DEF DeleteByWorkspace, Rows
<1>2. RepoType'
  BY <1>1 DEF RepoType, Rows
<1>. QED  BY <1>1, <1>2

-----------------------------------------------------------------------------
(* Type correctness *)

\* The program counter of a request tells which record it is.
LEMMA KindOfRequest ==
    ASSUME TypeOK, NEW r \in Request
    PROVE  /\ req[r] \in RequestState
           /\ req[r].pc \in CreatePC => req[r] \in CreateReq
           /\ req[r].pc \in {"cancelFind", "cancelCooldown", "cancelUpdate"} => req[r] \in CancelReq
           /\ req[r].pc \in {"statusFind", "statusUpdate"} => req[r] \in StatusReq
           /\ req[r].pc \in {"deleteCheck", "deleteRow"} => req[r] \in DeleteReq
           /\ req[r].pc = "sweep" => req[r] \in SweepReq
BY DEF TypeOK, RequestState, IdleReq, CreateReq, CancelReq, StatusReq, DeleteReq, SweepReq, CreatePC

\* One request changes to a well-formed state, the others stay.
LEMMA RequestMoves ==
    ASSUME TypeOK, NEW r \in Request, NEW state \in RequestState,
           req' = [req EXCEPT ![r] = state]
    PROVE  /\ req' \in [Request -> RequestState]
           /\ req'[r] = state
           /\ \A q \in Request \ {r} : req'[q] = req[q]
BY DEF TypeOK

LEMMA AnswerMoves ==
    ASSUME TypeOK, NEW r \in Request, Answer(r)
    PROVE  /\ req' \in [Request -> RequestState]
           /\ req'[r] = [pc |-> "idle"]
           /\ \A q \in Request \ {r} : req'[q] = req[q]
<1>1. [pc |-> "idle"] \in RequestState
  BY DEF RequestState, IdleReq
<1>. QED  BY <1>1, RequestMoves DEF Answer

\* A step that leaves the tables and the clock alone needs only its request.
LEMMA RequestOnly ==
    ASSUME TypeOK, req' \in [Request -> RequestState], UNCHANGED db, now' \in Nat
    PROVE  TypeOK'
BY DEF TypeOK, db, RepoType, Rows

\* Beginning a request of any kind.
LEMMA SubmitType ==
    ASSUME TypeOK, NEW r \in Request, Submit(r)
    PROVE  TypeOK'
<1>. USE RequestMoves, RequestOnly
<1>1. CASE \E u \in User, w \in Workspace, iv \in Interval : BeginCreate(r, u, w, iv)
  <2>1. PICK u \in User, w \in Workspace, iv \in Interval : BeginCreate(r, u, w, iv)
    BY <1>1
  <2>. DEFINE state == [pc |-> "cooldown", user |-> u, workspace |-> w,
                        start |-> iv.start, end |-> iv.end, at |-> now,
                        saw |-> [place |-> 0, count |-> 0, person |-> 0, limit |-> 0]]
  <2>2. state \in RequestState
    BY IntervalAssumption DEF TypeOK, RequestState, CreateReq, CreatePC, Seen
  <2>3. req' = [req EXCEPT ![r] = state] /\ UNCHANGED <<db, now>>
    BY <2>1 DEF BeginCreate, Begin
  <2>. HIDE DEF state
  <2>. QED  BY <2>2, <2>3 DEF TypeOK
<1>2. CASE \E u \in User, id \in KnownId : BeginCancel(r, u, id)
  <2>1. PICK u \in User, id \in KnownId : BeginCancel(r, u, id)
    BY <1>2
  <2>2. [pc |-> "cancelFind", user |-> u, booking |-> id, at |-> 0] \in RequestState
    BY DEF TypeOK, RepoType, KnownId, RequestState, CancelReq
  <2>. QED  BY <2>1, <2>2 DEF BeginCancel, Begin, TypeOK
<1>3. CASE \E id \in KnownId, target \in Status : BeginStatus(r, id, target)
  <2>1. PICK id \in KnownId, target \in Status : BeginStatus(r, id, target)
    BY <1>3
  <2>2. [pc |-> "statusFind", booking |-> id, target |-> target, found |-> Null] \in RequestState
    BY DEF TypeOK, RepoType, KnownId, RequestState, StatusReq
  <2>. QED  BY <2>1, <2>2 DEF BeginStatus, Begin, TypeOK
<1>4. CASE \E w \in Workspace : BeginDelete(r, w)
  <2>1. PICK w \in Workspace : BeginDelete(r, w)
    BY <1>4
  <2>2. [pc |-> "deleteCheck", workspace |-> w, at |-> now, place |-> 0] \in RequestState
    BY DEF TypeOK, RequestState, DeleteReq
  <2>. QED  BY <2>1, <2>2 DEF BeginDelete, Begin, TypeOK
<1>5. CASE BeginVisit(r)
  <2>1. [pc |-> "sweep", at |-> now] \in RequestState
    BY DEF TypeOK, RequestState, SweepReq
  <2>. QED  BY <1>5, <2>1 DEF BeginVisit, Begin, TypeOK
<1>. QED  BY <1>1, <1>2, <1>3, <1>4, <1>5 DEF Submit

\* The steps of a create request that only read.
LEMMA CreateReadType ==
    ASSUME TypeOK, NEW r \in Request,
           \/ CheckCooldown(r) \/ FindWorkspace(r) \/ CheckConflict(r)
           \/ GetSettings(r) \/ CountActive(r) \/ CheckUserConflict(r)
    PROVE  /\ TypeOK'
           /\ UNCHANGED <<db, now>>
<1>0. req[r] \in CreateReq /\ nextId \in Nat /\ now \in Nat /\ maxActive \in Nat
  BY LimitAssumption, KindOfRequest
  DEF CheckCooldown, FindWorkspace, CheckConflict, GetSettings, CountActive, CheckUserConflict,
      At, CreatePC, TypeOK, RepoType
<1>1. UNCHANGED <<db, now>>
  BY DEF CheckCooldown, FindWorkspace, CheckConflict, GetSettings, CountActive, CheckUserConflict
<1>2. CASE Answer(r)
  BY <1>1, <1>2, AnswerMoves, RequestOnly DEF TypeOK
<1>3. CASE \E pc \in CreatePC : Goto(r, pc)
  <2>1. PICK pc \in CreatePC : req' = [req EXCEPT ![r] = [req[r] EXCEPT !.pc = pc]]
    BY <1>3 DEF Goto, TypeOK
  <2>2. [req[r] EXCEPT !.pc = pc] \in CreateReq
    BY <1>0 DEF CreateReq
  <2>3. [req[r] EXCEPT !.pc = pc] \in RequestState
    BY <2>2 DEF RequestState
  <2>. QED  BY <1>1, <2>1, <2>3, RequestMoves, RequestOnly DEF TypeOK
<1>4. CASE CheckConflict(r) /\ ~Answer(r)
  <2>. DEFINE state == [req[r] EXCEPT !.pc = "settings", !.saw.place = nextId]
  <2>1. req' = [req EXCEPT ![r] = state]
    BY <1>4 DEF CheckConflict, TypeOK
  <2>2. req[r].saw \in Seen /\ state \in CreateReq
    BY <1>0 DEF CreateReq, CreatePC, Seen
  <2>3. state \in RequestState
    BY <2>2 DEF RequestState
  <2>. QED  BY <1>1, <2>1, <2>3, RequestMoves, RequestOnly DEF TypeOK
<1>5. CASE GetSettings(r)
  <2>. DEFINE state == [req[r] EXCEPT !.pc = "count", !.saw.limit = maxActive, !.at = now]
  <2>1. req' = [req EXCEPT ![r] = state]
    BY <1>5 DEF GetSettings, TypeOK
  <2>2. req[r].saw \in Seen /\ state \in CreateReq
    BY <1>0 DEF CreateReq, CreatePC, Seen
  <2>3. state \in RequestState
    BY <2>2 DEF RequestState
  <2>. QED  BY <1>1, <2>1, <2>3, RequestMoves, RequestOnly DEF TypeOK
<1>6. CASE CountActive(r) /\ ~Answer(r)
  <2>. DEFINE state == [req[r] EXCEPT !.pc = "userconflict", !.saw.count = nextId]
  <2>1. req' = [req EXCEPT ![r] = state]
    BY <1>6 DEF CountActive, TypeOK
  <2>2. req[r].saw \in Seen /\ state \in CreateReq
    BY <1>0 DEF CreateReq, CreatePC, Seen
  <2>3. state \in RequestState
    BY <2>2 DEF RequestState
  <2>. QED  BY <1>1, <2>1, <2>3, RequestMoves, RequestOnly DEF TypeOK
<1>7. CASE CheckUserConflict(r) /\ ~Answer(r)
  <2>. DEFINE state == [req[r] EXCEPT !.pc = "insert", !.saw.person = nextId]
  <2>1. req' = [req EXCEPT ![r] = state]
    BY <1>7 DEF CheckUserConflict, TypeOK
  <2>2. req[r].saw \in Seen /\ state \in CreateReq
    BY <1>0 DEF CreateReq, CreatePC, Seen
  <2>3. state \in RequestState
    BY <2>2 DEF RequestState
  <2>. QED  BY <1>1, <2>1, <2>3, RequestMoves, RequestOnly DEF TypeOK
<1>8. CASE (CheckCooldown(r) \/ FindWorkspace(r)) /\ ~Answer(r)
  BY <1>3, <1>8 DEF CheckCooldown, FindWorkspace, CreatePC
<1>. QED  BY <1>1, <1>2, <1>4, <1>5, <1>6, <1>7, <1>8

\* The steps of the other requests that only read.
LEMMA AdminReadType ==
    ASSUME TypeOK, NEW r \in Request,
           FindToCancel(r) \/ CancelCooldown(r) \/ FindForStatus(r) \/ DeleteCheck(r)
    PROVE  /\ TypeOK'
           /\ UNCHANGED <<db, now>>
<1>. USE RequestOnly, KindOfRequest
<1>0. nextId \in Nat /\ now \in Nat
  BY DEF TypeOK, RepoType
<1>1. UNCHANGED <<db, now>>
  BY DEF FindToCancel, CancelCooldown, FindForStatus, DeleteCheck
<1>2. CASE Answer(r)
  BY <1>1, <1>2, AnswerMoves DEF TypeOK
<1>3. CASE FindToCancel(r) /\ ~Answer(r)
  <2>. DEFINE state == [req[r] EXCEPT !.pc = "cancelCooldown", !.at = now]
  <2>1. req' = [req EXCEPT ![r] = state] /\ req[r] \in CancelReq
    BY <1>3 DEF FindToCancel, TypeOK, At
  <2>2. state \in RequestState
    BY <1>0, <2>1 DEF CancelReq, RequestState
  <2>. QED  BY <1>1, <2>1, <2>2, RequestMoves DEF TypeOK
<1>4. CASE CancelCooldown(r) /\ ~Answer(r)
  <2>. DEFINE state == [req[r] EXCEPT !.pc = "cancelUpdate"]
  <2>1. req' = [req EXCEPT ![r] = state] /\ req[r] \in CancelReq
    BY <1>4 DEF CancelCooldown, Goto, TypeOK, At
  <2>2. state \in RequestState
    BY <2>1 DEF CancelReq, RequestState
  <2>. QED  BY <1>1, <2>1, <2>2, RequestMoves DEF TypeOK
<1>5. CASE FindForStatus(r) /\ ~Answer(r)
  <2>. DEFINE found == bookings[req[r].booking].status
              state == [req[r] EXCEPT !.pc = "statusUpdate", !.found = found]
  <2>1. /\ req' = [req EXCEPT ![r] = state] /\ req[r] \in StatusReq
        /\ found \in Status
    BY <1>5 DEF FindForStatus, TypeOK, At, RepoType, Rows, Row
  <2>2. state \in RequestState
    BY <2>1 DEF StatusReq, RequestState
  <2>. QED  BY <1>1, <2>1, <2>2, RequestMoves DEF TypeOK
<1>6. CASE DeleteCheck(r) /\ ~Answer(r)
  <2>. DEFINE state == [req[r] EXCEPT !.pc = "deleteRow", !.place = nextId]
  <2>1. req' = [req EXCEPT ![r] = state] /\ req[r] \in DeleteReq
    BY <1>6 DEF DeleteCheck, TypeOK, At
  <2>2. state \in RequestState
    BY <1>0, <2>1 DEF DeleteReq, RequestState
  <2>. QED  BY <1>1, <2>1, <2>2, RequestMoves DEF TypeOK
<1>. QED  BY <1>1, <1>2, <1>3, <1>4, <1>5, <1>6

\* The steps that write the bookings table.
LEMMA WriteType ==
    ASSUME TypeOK, NEW r \in Request,
           \/ InsertBooking(r) \/ CancelUpdate(r) \/ StatusUpdate(r) \/ DeleteRow(r) \/ Sweep(r)
           \/ \E id \in KnownId : AdminCancel(r, id)
    PROVE  TypeOK'
<1>0. /\ now \in Nat /\ RepoType /\ saw \in [Rows -> Seen]
      /\ DOMAIN available \subseteq Workspace /\ available \in [DOMAIN available -> BOOLEAN]
      /\ maxActive \in Limit
  BY DEF TypeOK
<1>1. CASE InsertBooking(r)
  <2>1. req[r] \in CreateReq
    BY <1>1, KindOfRequest DEF InsertBooking, At, CreatePC
  <2>2. req' \in [Request -> RequestState]
    BY <1>1, AnswerMoves DEF InsertBooking
  <2>3. CASE req[r].workspace \in DOMAIN available
    <3>. DEFINE c == req[r]
    <3>1. Create(c.user, c.workspace, c.start, c.end)
      BY <1>1, <2>3 DEF InsertBooking
    <3>2. c.user \in User /\ c.workspace \in Workspace /\ c.start \in Nat /\ c.end \in Nat
          /\ c.saw \in Seen
      BY <2>1 DEF CreateReq
    <3>3. RepoType' /\ Rows' = Rows \cup {nextId}
      BY <1>0, <3>1, <3>2, CreateRow
    <3>4. saw' = [i \in Rows \cup {nextId} |-> IF i = nextId THEN c.saw ELSE saw[i]]
      BY <1>1, <2>3 DEF InsertBooking
    <3>5. saw' \in [Rows' -> Seen]
      BY <1>0, <3>2, <3>3, <3>4
    <3>. QED  BY <1>0, <1>1, <2>2, <3>3, <3>5 DEF InsertBooking, TypeOK
  <2>4. CASE req[r].workspace \notin DOMAIN available
    BY <1>0, <1>1, <2>2, <2>4 DEF InsertBooking, TypeOK, RepoType, Rows
  <2>. QED  BY <2>3, <2>4
<1>2. CASE CancelUpdate(r)
  <2>1. RepoType' /\ Rows' = Rows
    BY <1>0, <1>2, CancelRow DEF CancelUpdate, Status
  <2>. QED  BY <1>0, <1>2, <2>1, AnswerMoves DEF CancelUpdate, TypeOK
<1>3. CASE StatusUpdate(r)
  <2>1. req[r].target \in Status
    BY <1>3, KindOfRequest DEF StatusUpdate, At, StatusReq
  <2>2. RepoType' /\ Rows' = Rows
    BY <1>0, <1>3, <2>1, SetStatusRows DEF StatusUpdate, UpdateStatus
  <2>. QED  BY <1>0, <1>3, <2>2, AnswerMoves DEF StatusUpdate, TypeOK
<1>4. CASE DeleteRow(r)
  <2>. DEFINE w == req[r].workspace
  <2>1. RepoType' /\ Rows' = {i \in Rows : bookings[i].workspace # w}
    BY <1>0, <1>4, DeleteRows DEF DeleteRow
  <2>2. saw' \in [Rows' -> Seen]
    BY <1>0, <1>4, <2>1 DEF DeleteRow
  <2>3. DOMAIN available' \subseteq Workspace /\ available' \in [DOMAIN available' -> BOOLEAN]
    BY <1>0, <1>4 DEF DeleteRow
  <2>. QED  BY <1>0, <1>4, <2>1, <2>2, <2>3, AnswerMoves DEF DeleteRow, TypeOK
<1>5. CASE Sweep(r)
  <2>1. RepoType' /\ Rows' = Rows
    BY <1>0, <1>5, SetStatusRows DEF Sweep, MarkPastCompleted, Status
  <2>. QED  BY <1>0, <1>5, <2>1, AnswerMoves DEF Sweep, TypeOK
<1>6. ASSUME NEW id \in KnownId, AdminCancel(r, id) PROVE TypeOK'
  <2>1. RepoType' /\ Rows' = Rows
    BY <1>0, <1>6, CancelRow DEF AdminCancel, Status
  <2>. QED  BY <1>0, <1>6, <2>1 DEF AdminCancel, TypeOK
<1>. QED  BY <1>1, <1>2, <1>3, <1>4, <1>5, <1>6

\* The steps that change neither bookings nor a request's data.
LEMMA OtherType ==
    ASSUME TypeOK, NEW r \in Request,
           \/ \E w \in Workspace, flag \in BOOLEAN : SetAvailable(r, w, flag)
           \/ \E n \in Limit \cup {0} : UpdateSettings(r, n)
           \/ Abort(r)
           \/ Tick
           \/ UNCHANGED vars
    PROVE  TypeOK'
<1>1. CASE \E w \in Workspace, flag \in BOOLEAN : SetAvailable(r, w, flag)
  BY <1>1 DEF SetAvailable, TypeOK, RepoType, Rows
<1>2. CASE \E n \in Limit \cup {0} : UpdateSettings(r, n)
  BY <1>2 DEF UpdateSettings, TypeOK, RepoType, Rows
<1>3. CASE Abort(r)
  BY <1>3, AnswerMoves, RequestOnly DEF Abort, TypeOK
<1>4. CASE Tick
  BY <1>4 DEF Tick, TypeOK, RepoType, Rows, db
<1>5. CASE UNCHANGED vars
  BY <1>5 DEF vars, TypeOK, RepoType, Rows
<1>. QED  BY <1>1, <1>2, <1>3, <1>4, <1>5

LEMMA NextType == TypeOK /\ [Next]_vars => TypeOK'
<1>. SUFFICES ASSUME TypeOK, [Next]_vars PROVE TypeOK'
  OBVIOUS
<1>1. CASE UNCHANGED vars
  BY <1>1 DEF vars, TypeOK, RepoType, Rows
<1>2. CASE Tick
  BY <1>2 DEF Tick, TypeOK, RepoType, Rows, db
<1>3. ASSUME NEW r \in Request, Submit(r) \/ OneStatement(r) \/ Proceed(r) \/ Abort(r)
      PROVE  TypeOK'
  BY <1>3, SubmitType, CreateReadType, AdminReadType, WriteType, OtherType
  DEF OneStatement, Proceed, CreateStep, CancelStep, StatusStep, DeleteStep
<1>. QED  BY <1>1, <1>2, <1>3 DEF Next

LEMMA InitType == Init => TypeOK
BY LimitAssumption DEF Init, RepoInit, TypeOK, RepoType, Rows, RequestState, IdleReq

\* Every variable keeps its type, whatever the handlers do: ids are handed out
\* in order, no row has an unknown status, and a request carries what the
\* handler at that statement has read.
THEOREM TypeCorrect == Spec => []TypeOK
BY InitType, NextType, PTL DEF Spec

-----------------------------------------------------------------------------
(* What any step does to the rows *)

\* A row that survives a step keeps its terms and what its request saw, and is
\* never confirmed anew; the one row a step can add is that of a create
\* request which has passed its checks.
Kept(i) ==
    /\ bookings'[i].user = bookings[i].user
    /\ bookings'[i].workspace = bookings[i].workspace
    /\ bookings'[i].start = bookings[i].start
    /\ bookings'[i].end = bookings[i].end
    /\ Confirmed(i)' => Confirmed(i)
    /\ saw'[i] = saw[i]

Added(r) ==
    /\ At(r, "insert")
    /\ req[r] \in CreateReq
    /\ Rows' = Rows \cup {nextId}
    /\ nextId' = nextId + 1
    /\ bookings'[nextId] = [user |-> req[r].user, workspace |-> req[r].workspace,
                            start |-> req[r].start, end |-> req[r].end,
                            status |-> "CONFIRMED", cancelledAt |-> Null]
    /\ \A i \in Rows : bookings'[i] = bookings[i]
    /\ saw'[nextId] = req[r].saw
    /\ now' = now
    /\ Answer(r)

Erased ==
    /\ nextId' = nextId
    /\ \E w \in Workspace : Rows' = {i \in Rows : bookings[i].workspace # w}
    /\ \A i \in Rows' : bookings'[i] = bookings[i]

\* nextId and the clock never go back.
RowStep ==
    /\ \A i \in Rows \cap Rows' : Kept(i)
    /\ \/ Rows' = Rows /\ nextId' = nextId
       \/ Erased
       \/ \E r \in Request : Added(r)
    /\ now' >= now

LEMMA UnchangedRows ==
    ASSUME TypeOK, UNCHANGED <<bookings, nextId, saw>>, now' \in Nat, now' >= now
    PROVE  RowStep
BY DEF RowStep, Kept, Confirmed, Rows

LEMMA InsertRow ==
    ASSUME TypeOK, NEW r \in Request, InsertBooking(r)
    PROVE  RowStep
<1>. DEFINE c == req[r]
<1>1. c \in CreateReq /\ now \in Nat /\ nextId \in Nat /\ RepoType
  BY KindOfRequest DEF InsertBooking, At, CreatePC, TypeOK, RepoType
<1>2. CASE c.workspace \in DOMAIN available
  <2>1. /\ Create(c.user, c.workspace, c.start, c.end)
        /\ saw' = [i \in Rows \cup {nextId} |-> IF i = nextId THEN c.saw ELSE saw[i]]
        /\ now' = now
    BY <1>2 DEF InsertBooking
  <2>2. c.user \in User /\ c.workspace \in Workspace /\ c.start \in Nat /\ c.end \in Nat
    BY <1>1 DEF CreateReq
  <2>3. /\ Rows' = Rows \cup {nextId} /\ nextId \notin Rows /\ nextId' = nextId + 1
        /\ \A i \in Rows : bookings'[i] = bookings[i]
        /\ bookings'[nextId] = [user |-> c.user, workspace |-> c.workspace,
                                start |-> c.start, end |-> c.end,
                                status |-> "CONFIRMED", cancelledAt |-> Null]
    BY <1>1, <2>1, <2>2, CreateRow
  <2>4. Added(r)
    BY <1>1, <2>1, <2>3 DEF Added, InsertBooking
  <2>5. \A i \in Rows \cap Rows' : Kept(i)
    BY <2>1, <2>3 DEF Kept, Confirmed
  <2>. QED  BY <1>1, <2>1, <2>4, <2>5 DEF RowStep
<1>3. CASE c.workspace \notin DOMAIN available
  BY <1>1, <1>3, UnchangedRows DEF InsertBooking
<1>. QED  BY <1>2, <1>3

\* No statement that changes a status writes CONFIRMED.
LEMMA WriteRows ==
    ASSUME TypeOK, NEW r \in Request,
           \/ CancelUpdate(r) \/ StatusUpdate(r) \/ Sweep(r)
           \/ \E id \in KnownId : AdminCancel(r, id),
           req[r].pc = "statusUpdate" => req[r].target # "CONFIRMED"
    PROVE  RowStep
<1>0. now \in Nat /\ RepoType /\ bookings \in [Rows -> Row]
  BY DEF TypeOK, RepoType, Rows
<1>1. UNCHANGED <<now, saw>>
  BY DEF CancelUpdate, StatusUpdate, Sweep, AdminCancel
<1>2. ASSUME NEW S, NEW s \in Status, s # "CONFIRMED", SetStatus(S, s)
      PROVE  RowStep
  <2>1. Rows' = Rows /\ nextId' = nextId
    BY <1>0, <1>2, SetStatusRows
  <2>2. ASSUME NEW i \in Rows PROVE Kept(i)
    <3>1. bookings[i] \in Row
      BY <1>0
    <3>2. CASE i \in S
      <4>1. bookings'[i] = [bookings[i] EXCEPT !.status = s]
        BY <1>0, <1>2, <3>2, SetStatusRows
      <4>. QED  BY <1>1, <1>2, <3>1, <4>1 DEF Kept, Confirmed, Row
    <3>3. CASE i \notin S
      <4>1. bookings'[i] = bookings[i]
        BY <1>0, <1>2, <3>3, SetStatusRows
      <4>. QED  BY <1>1, <4>1 DEF Kept, Confirmed
    <3>. QED  BY <3>2, <3>3
  <2>. QED  BY <1>0, <1>1, <2>1, <2>2 DEF RowStep
<1>3. ASSUME NEW id, NEW s \in Status, s # "CONFIRMED", Cancel(id, s, now)
      PROVE  RowStep
  <2>1. Rows' = Rows /\ nextId' = nextId
    BY <1>0, <1>3, CancelRow
  <2>2. ASSUME NEW i \in Rows PROVE Kept(i)
    <3>1. bookings[i] \in Row
      BY <1>0
    <3>2. CASE i = id /\ Confirmed(i)
      <4>1. bookings'[i] = [bookings[i] EXCEPT !.status = s, !.cancelledAt = now]
        BY <1>0, <1>3, <3>2, CancelRow
      <4>. QED  BY <1>1, <1>3, <3>1, <4>1 DEF Kept, Confirmed, Row
    <3>3. CASE ~(i = id /\ Confirmed(i))
      <4>1. bookings'[i] = bookings[i]
        BY <1>0, <1>3, <3>3, CancelRow
      <4>. QED  BY <1>1, <4>1 DEF Kept, Confirmed
    <3>. QED  BY <3>2, <3>3
  <2>. QED  BY <1>0, <1>1, <2>1, <2>2 DEF RowStep
<1>4. CASE CancelUpdate(r)
  BY <1>3, <1>4 DEF CancelUpdate, Status
<1>5. CASE StatusUpdate(r)
  <2>1. req[r].target \in Status /\ req[r].target # "CONFIRMED"
    BY <1>5, KindOfRequest DEF StatusUpdate, At, StatusReq
  <2>. QED  BY <1>2, <1>5, <2>1 DEF StatusUpdate, UpdateStatus
<1>6. CASE Sweep(r)
  BY <1>2, <1>6 DEF Sweep, MarkPastCompleted, Status
<1>7. CASE \E id \in KnownId : AdminCancel(r, id)
  BY <1>3, <1>7 DEF AdminCancel, Status
<1>. QED  BY <1>4, <1>5, <1>6, <1>7

LEMMA DeleteRowRows ==
    ASSUME TypeOK, NEW r \in Request, DeleteRow(r)
    PROVE  RowStep
<1>. DEFINE w == req[r].workspace
<1>1. now \in Nat /\ RepoType /\ w \in Workspace
  BY KindOfRequest DEF TypeOK, DeleteRow, At, DeleteReq
<1>2. /\ Rows' = {i \in Rows : bookings[i].workspace # w}
      /\ nextId' = nextId
      /\ \A i \in Rows' : bookings'[i] = bookings[i]
  BY <1>1, DeleteRows DEF DeleteRow
<1>3. saw' = [i \in {j \in Rows : bookings[j].workspace # w} |-> saw[i]] /\ now' = now
  BY DEF DeleteRow
<1>4. \A i \in Rows \cap Rows' : Kept(i)
  BY <1>2, <1>3 DEF Kept, Confirmed
<1>. QED  BY <1>1, <1>2, <1>3, <1>4 DEF RowStep, Erased

\* What a status change has been allowed to write, and over what.
StatusTargets ==
    \A r \in Request : At(r, "statusUpdate") =>
        req[r].target \in {"COMPLETED", "CANCELLED_BY_ADMIN"} /\ req[r].found = "CONFIRMED"

LatePC == {"settings", "count", "userconflict", "insert"}

Advance(q) == CheckConflict(q) \/ GetSettings(q) \/ CountActive(q) \/ CheckUserConflict(q)

\* How a request gets to, or stays at, a statement after HasConflict.
ReqStep(q) ==
    \/ req'[q] = req[q]
    \/ req'[q].pc \notin LatePC
    \/ Advance(q)

LEMMA SubmitReq ==
    ASSUME TypeOK, NEW r \in Request, Submit(r)
    PROVE  /\ UNCHANGED <<db, now>>
           /\ req'[r].pc \notin LatePC \cup {"statusUpdate"}
           /\ \A q \in Request \ {r} : req'[q] = req[q]
BY DEF Submit, BeginCreate, BeginCancel, BeginStatus, BeginDelete, BeginVisit, Begin, TypeOK, LatePC

LEMMA ProceedReq ==
    ASSUME TypeOK, NEW r \in Request, Proceed(r)
    PROVE  /\ Advance(r) \/ req'[r].pc \notin LatePC
           /\ \A q \in Request \ {r} : req'[q] = req[q]
           /\ At(r, "statusUpdate")' => /\ req'[r].target \in {"COMPLETED", "CANCELLED_BY_ADMIN"}
                                        /\ req'[r].found = "CONFIRMED"
<1>. USE DEF LatePC
<1>1. CASE Answer(r)
  BY <1>1, AnswerMoves DEF At
<1>2. ASSUME Advance(r), ~Answer(r)
      PROVE  /\ req'[r].pc \in LatePC
             /\ \A q \in Request \ {r} : req'[q] = req[q]
  <2>1. req[r] \in CreateReq
    BY <1>2, KindOfRequest
    DEF Advance, CheckConflict, GetSettings, CountActive, CheckUserConflict, At, CreatePC
  <2>. QED
    BY <1>2, <2>1
    DEF Advance, CheckConflict, GetSettings, CountActive, CheckUserConflict, TypeOK, CreateReq
<1>3. CASE (CheckCooldown(r) \/ FindWorkspace(r)) /\ ~Answer(r)
  <2>1. req[r] \in CreateReq
    BY <1>3, KindOfRequest DEF CheckCooldown, FindWorkspace, At, CreatePC
  <2>. QED
    BY <1>3, <2>1 DEF CheckCooldown, FindWorkspace, Goto, At, TypeOK, CreateReq
<1>4. CASE CancelStep(r) /\ ~Answer(r)
  <2>1. req[r] \in CancelReq
    BY <1>4, KindOfRequest DEF CancelStep, FindToCancel, CancelCooldown, CancelUpdate, At
  <2>. QED
    BY <1>4, <2>1
    DEF CancelStep, FindToCancel, CancelCooldown, CancelUpdate, Goto, At, TypeOK, CancelReq
<1>5. CASE StatusStep(r) /\ ~Answer(r)
  <2>1. req[r] \in StatusReq
    BY <1>5, KindOfRequest DEF StatusStep, FindForStatus, StatusUpdate, At
  <2>. QED
    BY <1>5, <2>1
    DEF StatusStep, FindForStatus, StatusUpdate, AllowedTransition, Goto, At, TypeOK, StatusReq
<1>6. CASE DeleteStep(r) /\ ~Answer(r)
  <2>1. req[r] \in DeleteReq
    BY <1>6, KindOfRequest DEF DeleteStep, DeleteCheck, DeleteRow, At
  <2>. QED
    BY <1>6, <2>1 DEF DeleteStep, DeleteCheck, DeleteRow, At, TypeOK, DeleteReq
<1>7. CASE (InsertBooking(r) \/ Sweep(r)) /\ ~Answer(r)
  BY <1>7 DEF InsertBooking, Sweep
<1>8. CASE Advance(r) /\ ~Answer(r)
  BY <1>2, <1>8 DEF At
<1>. QED
  BY <1>1, <1>3, <1>4, <1>5, <1>6, <1>7, <1>8 DEF Proceed, CreateStep, Advance

\* Every step of the system, seen from the rows and from any one request.
LEMMA StepShape ==
    ASSUME TypeOK, StatusTargets, [Next]_vars
    PROVE  RowStep /\ StatusTargets' /\ \A q \in Request : ReqStep(q)
<1>0. now \in Nat
  BY DEF TypeOK
<1>1. CASE UNCHANGED vars
  BY <1>0, <1>1, UnchangedRows DEF vars, StatusTargets, At, ReqStep
<1>2. CASE Tick
  BY <1>0, <1>2, UnchangedRows DEF Tick, db, StatusTargets, At, ReqStep
<1>3. ASSUME NEW r \in Request, Submit(r)
      PROVE  RowStep /\ StatusTargets' /\ \A q \in Request : ReqStep(q)
  <2>1. RowStep
    BY <1>0, <1>3, SubmitReq, UnchangedRows DEF db
  <2>2. StatusTargets' /\ \A q \in Request : ReqStep(q)
    BY <1>3, SubmitReq DEF StatusTargets, At, ReqStep
  <2>. QED  BY <2>1, <2>2
<1>4. ASSUME NEW r \in Request, OneStatement(r)
      PROVE  RowStep /\ StatusTargets' /\ \A q \in Request : ReqStep(q)
  <2>1. req' = req
    BY <1>4 DEF OneStatement, AdminCancel, SetAvailable, UpdateSettings
  <2>2. ASSUME \E id \in KnownId : AdminCancel(r, id) PROVE RowStep
    BY <2>2, WriteRows DEF AdminCancel, At
  <2>3. ASSUME ~\E id \in KnownId : AdminCancel(r, id) PROVE RowStep
    BY <1>0, <1>4, <2>3, UnchangedRows DEF OneStatement, SetAvailable, UpdateSettings
  <2>. QED  BY <2>1, <2>2, <2>3 DEF StatusTargets, At, ReqStep
<1>5. ASSUME NEW r \in Request, Proceed(r)
      PROVE  RowStep /\ StatusTargets' /\ \A q \in Request : ReqStep(q)
  <2>1. ASSUME \/ CheckCooldown(r) \/ FindWorkspace(r) \/ CheckConflict(r)
               \/ GetSettings(r) \/ CountActive(r) \/ CheckUserConflict(r)
        PROVE  RowStep
    BY <1>0, <2>1, CreateReadType, UnchangedRows DEF db
  <2>2. ASSUME FindToCancel(r) \/ CancelCooldown(r) \/ FindForStatus(r) \/ DeleteCheck(r)
        PROVE  RowStep
    BY <1>0, <2>2, AdminReadType, UnchangedRows DEF db
  <2>3. ASSUME CancelUpdate(r) \/ StatusUpdate(r) \/ Sweep(r)
        PROVE  RowStep
    BY <2>3, WriteRows DEF StatusTargets, At
  <2>4. RowStep
    BY <1>5, <2>1, <2>2, <2>3, InsertRow, DeleteRowRows
    DEF Proceed, CreateStep, CancelStep, StatusStep, DeleteStep
  <2>5. StatusTargets' /\ \A q \in Request : ReqStep(q)
    BY <1>5, ProceedReq DEF StatusTargets, At, ReqStep
  <2>. QED  BY <2>4, <2>5
<1>6. ASSUME NEW r \in Request, Abort(r)
      PROVE  RowStep /\ StatusTargets' /\ \A q \in Request : ReqStep(q)
  <2>1. RowStep
    BY <1>0, <1>6, UnchangedRows DEF Abort, db
  <2>2. StatusTargets' /\ \A q \in Request : ReqStep(q)
    BY <1>6, AnswerMoves DEF Abort, StatusTargets, At, ReqStep, LatePC
  <2>. QED  BY <2>1, <2>2
<1>. QED  BY <1>1, <1>2, <1>3, <1>4, <1>5, <1>6 DEF Next

-----------------------------------------------------------------------------
(* Overlaps are races *)

RaceInv ==
    /\ TypeOK
    /\ StatusTargets
    /\ RequestSaw
    /\ DoubleBookingIsRace
    /\ UserOverlapIsRace
    /\ CountedBelowLimit
    /\ \A b \in Rows : saw[b].count <= b

LEMMA FiniteRows == ASSUME TypeOK PROVE IsFiniteSet(Rows)
<1>1. Rows \subseteq 1 .. nextId - 1 /\ 1 \in Int /\ nextId - 1 \in Int
  BY DEF TypeOK, RepoType, Rows
<1>2. IsFiniteSet(1 .. nextId - 1)
  BY <1>1, FS_Interval
<1>. QED  BY <1>1, <1>2, FS_Subset

\* A step adds rows only from nextId on.
LEMMA OldRows ==
    ASSUME TypeOK, RowStep
    PROVE  /\ nextId' >= nextId
           /\ \A a \in Rows' : a < nextId => a \in Rows /\ Kept(a)
<1>0. nextId \in Nat
  BY DEF TypeOK, RepoType
<1>1. CASE (Rows' = Rows /\ nextId' = nextId) \/ Erased
  BY <1>0, <1>1 DEF RowStep, Erased
<1>2. CASE \E r \in Request : Added(r)
  <2>1. Rows' = Rows \cup {nextId} /\ nextId' = nextId + 1
    BY <1>2 DEF Added
  <2>. QED  BY <1>0, <2>1 DEF RowStep
<1>. QED  BY <1>1, <1>2 DEF RowStep

\* The rows below a mark that are active only get fewer, as long as the mark is
\* not above the id of a row that is added.
LEMMA CountShrinks ==
    ASSUME TypeOK, TypeOK', RowStep, NEW u, NEW mark \in Nat, mark <= nextId,
           NEW limit \in Nat, NEW t \in Nat, t <= now',
           Cardinality({a \in ActiveOf(u, t) : a < mark}) < limit
    PROVE  Cardinality({a \in ActiveOf(u, now)' : a < mark}) < limit
<1>. DEFINE before == {a \in ActiveOf(u, t) : a < mark}
            after  == {a \in ActiveOf(u, now)' : a < mark}
<1>1. after \subseteq before
  <2>. SUFFICES ASSUME NEW a \in after PROVE a \in before
    OBVIOUS
  <2>1. a \in Rows' /\ a < mark /\ bookings'[a].user = u /\ Confirmed(a)' /\ bookings'[a].end > now'
    BY DEF ActiveOf
  <2>2. a \in Rows /\ Kept(a)
    <3>1. a < nextId
      BY <2>1 DEF TypeOK, RepoType, Rows
    <3>. QED  BY <2>1, <3>1, OldRows
  <2>4. bookings[a].end \in Nat
    BY <2>2 DEF TypeOK, RepoType, Rows, Row
  <2>5. now' \in Nat
    BY DEF TypeOK
  <2>6. bookings[a].end > t
    BY <2>1, <2>2, <2>4, <2>5 DEF Kept
  <2>. QED  BY <2>1, <2>2, <2>6 DEF Kept, ActiveOf
<1>2. IsFiniteSet(before)
  BY FiniteRows, FS_Subset DEF ActiveOf
<1>3. Cardinality(after) <= Cardinality(before) /\ Cardinality(after) \in Nat /\ Cardinality(before) \in Nat
  BY <1>1, <1>2, FS_Subset, FS_CardinalityType
<1>. QED  BY <1>3

\* What a request saw at HasConflict, at HasUserConflict and at the count.
PlaceSeen(c) ==
    /\ c.saw.place <= nextId
    /\ \A a \in Rows : /\ a < c.saw.place
                       /\ bookings[a].workspace = c.workspace /\ Confirmed(a)
                       => ~Overlaps(a, c.start, c.end)

PersonSeen(c) ==
    /\ c.saw.person <= nextId
    /\ \A a \in Rows : /\ a < c.saw.person
                       /\ bookings[a].user = c.user /\ Confirmed(a)
                       => ~Overlaps(a, c.start, c.end)

CountSeen(c) ==
    /\ c.saw.count <= nextId
    /\ Cardinality({a \in ActiveOf(c.user, now) : a < c.saw.count}) < c.saw.limit

LEMMA SeenStays ==
    ASSUME TypeOK, TypeOK', RowStep, NEW c \in CreateReq
    PROVE  /\ PlaceSeen(c) => PlaceSeen(c)'
           /\ PersonSeen(c) => PersonSeen(c)'
           /\ CountSeen(c) => CountSeen(c)'
<1>1. /\ c.saw.place \in Nat /\ c.saw.person \in Nat /\ c.saw.count \in Nat /\ c.saw.limit \in Nat
      /\ nextId \in Nat /\ nextId' \in Nat /\ now \in Nat
  BY DEF CreateReq, Seen, TypeOK, RepoType
<1>2. nextId' >= nextId /\ now' >= now
  BY OldRows DEF RowStep
<1>3. ASSUME NEW a \in Rows', a < nextId PROVE a \in Rows /\ Kept(a)
  BY <1>3, OldRows
<1>4. \A a \in Rows' : a \in Nat
  BY DEF TypeOK, RepoType, Rows
<1>5. PlaceSeen(c) => PlaceSeen(c)'
  BY <1>1, <1>2, <1>3, <1>4 DEF PlaceSeen, Kept, Overlaps
<1>6. PersonSeen(c) => PersonSeen(c)'
  BY <1>1, <1>2, <1>3, <1>4 DEF PersonSeen, Kept, Overlaps
<1>7. ASSUME CountSeen(c) PROVE CountSeen(c)'
  <2>1. now <= now'
    BY <1>1, <1>2 DEF TypeOK
  <2>2. Cardinality({a \in ActiveOf(c.user, now)' : a < c.saw.count}) < c.saw.limit
    BY <1>1, <1>7, <2>1, CountShrinks DEF CountSeen
  <2>. QED  BY <1>1, <1>2, <1>7, <2>2 DEF CountSeen, TypeOK
<1>. QED  BY <1>5, <1>6, <1>7

\* RequestSaw, of one request in the state c.
SawOf(c) ==
    /\ c.pc \in LatePC => PlaceSeen(c)
    /\ c.pc = "count" => c.at <= now
    /\ c.pc \in {"userconflict", "insert"} => CountSeen(c)
    /\ c.pc = "insert" => PersonSeen(c)

LEMMA SawOfRequests == RequestSaw <=> \A r \in Request : SawOf(req[r])
BY DEF RequestSaw, SawOf, PlaceSeen, CountSeen, PersonSeen, LatePC

LEMMA SawOfRequestsNext == RequestSaw' <=> \A r \in Request : SawOf(req[r])'
BY DEF RequestSaw, SawOf, PlaceSeen, CountSeen, PersonSeen, LatePC

\* The statement that makes each check establishes what it saw.
LEMMA AdvanceSaw ==
    ASSUME TypeOK, TypeOK', NEW q \in Request, SawOf(req[q]), Advance(q), req'[q].pc \in LatePC
    PROVE  SawOf(req[q])'
<1>0. /\ UNCHANGED <<bookings, nextId, now>>
      /\ req[q] \in CreateReq
      /\ nextId \in Nat /\ now \in Nat /\ RowStep
  <2>1. \/ CheckCooldown(q) \/ FindWorkspace(q) \/ CheckConflict(q)
        \/ GetSettings(q) \/ CountActive(q) \/ CheckUserConflict(q)
    BY DEF Advance
  <2>2. UNCHANGED <<db, now>>
    BY <2>1, CreateReadType
  <2>3. req[q] \in CreateReq
    BY KindOfRequest
    DEF Advance, CheckConflict, GetSettings, CountActive, CheckUserConflict, At, CreatePC
  <2>4. nextId \in Nat /\ now \in Nat
    BY DEF TypeOK, RepoType
  <2>. QED  BY <2>2, <2>3, <2>4, UnchangedRows DEF db
<1>1. ~Answer(q)
  BY AnswerMoves DEF LatePC
<1>. PICK c \in CreateReq : c = req[q]
  BY <1>0
<1>. PICK d : d = req'[q]
  OBVIOUS
<1>2. \A i \in Rows : bookings'[i] = bookings[i] /\ Rows' = Rows
  BY <1>0 DEF Rows
<1>3. /\ c.saw.place \in Nat /\ c.saw.count \in Nat /\ c.saw.person \in Nat /\ c.saw.limit \in Nat
      /\ c.saw \in Seen
  BY DEF CreateReq, Seen
<1>4. \A i \in Rows : i < nextId
  BY <1>0 DEF TypeOK, RepoType, Rows
<1>5. PlaceSeen(d) => PlaceSeen(d)'
  BY <1>0 DEF PlaceSeen, Rows, Confirmed, Overlaps
<1>6. PersonSeen(d) => PersonSeen(d)'
  BY <1>0 DEF PersonSeen, Rows, Confirmed, Overlaps
<1>7. CountSeen(d) => CountSeen(d)'
  BY <1>0 DEF CountSeen, ActiveOf, Rows, Confirmed
<1>8. SawOf(d)
  <2>1. CASE CheckConflict(q)
    <3>1. c.pc = "conflict" /\ ~HasConflict(c.workspace, c.start, c.end)
          /\ d = [c EXCEPT !.pc = "settings", !.saw.place = nextId]
      BY <1>1, <2>1 DEF CheckConflict, At, TypeOK
    <3>2. /\ d.pc = "settings" /\ d.saw.place = nextId
          /\ d.workspace = c.workspace /\ d.start = c.start /\ d.end = c.end
      BY <1>3, <3>1 DEF CreateReq, Seen
    <3>3. PlaceSeen(d)
      BY <1>0, <3>1, <3>2 DEF PlaceSeen, HasConflict
    <3>. QED  BY <3>2, <3>3 DEF SawOf
  <2>2. CASE GetSettings(q)
    <3>1. c.pc = "settings" /\ d = [c EXCEPT !.pc = "count", !.saw.limit = maxActive, !.at = now]
      BY <2>2 DEF GetSettings, At, TypeOK
    <3>2. /\ d.pc = "count" /\ d.at = now /\ d.saw.place = c.saw.place
          /\ d.workspace = c.workspace /\ d.start = c.start /\ d.end = c.end
      BY <1>3, <3>1 DEF CreateReq, Seen
    <3>3. PlaceSeen(d)
      BY <3>1, <3>2 DEF PlaceSeen, SawOf, LatePC
    <3>. QED  BY <1>0, <3>2, <3>3 DEF SawOf
  <2>3. CASE CountActive(q)
    <3>1. c.pc = "count" /\ CountActiveByUser(c.user, c.at) < c.saw.limit
          /\ d = [c EXCEPT !.pc = "userconflict", !.saw.count = nextId]
      <4>1. CountActiveByUser(c.user, c.at) \in Nat
        BY FiniteRows, FS_Subset, FS_CardinalityType DEF CountActiveByUser, ActiveOf
      <4>2. /\ c.pc = "count"
            /\ ~(CountActiveByUser(c.user, c.at) >= c.saw.limit)
            /\ d = [c EXCEPT !.pc = "userconflict", !.saw.count = nextId]
        <5>. HIDE DEF CountActiveByUser
        <5>. QED  BY <1>1, <2>3 DEF CountActive, At, TypeOK
      <4>. QED  BY <1>3, <4>1, <4>2
    <3>2. /\ d.pc = "userconflict" /\ d.saw.count = nextId /\ d.saw.place = c.saw.place
          /\ d.saw.limit = c.saw.limit /\ d.user = c.user
          /\ d.workspace = c.workspace /\ d.start = c.start /\ d.end = c.end
      BY <1>3, <3>1 DEF CreateReq, Seen
    <3>3. PlaceSeen(d)
      BY <3>1, <3>2 DEF PlaceSeen, SawOf, LatePC
    <3>4. CountSeen(d)
      <4>1. c.at <= now' /\ c.at \in Nat
        BY <1>0, <3>1 DEF SawOf, CreateReq
      <4>2. {a \in ActiveOf(c.user, c.at) : a < nextId} = ActiveOf(c.user, c.at)
        BY <1>4 DEF ActiveOf
      <4>3. Cardinality({a \in ActiveOf(c.user, now)' : a < nextId}) < c.saw.limit
        <5>. PICK mark \in Nat : mark = nextId
          BY <1>0
        <5>1. Cardinality({a \in ActiveOf(c.user, c.at) : a < mark}) < c.saw.limit
          BY <3>1, <4>2 DEF CountActiveByUser
        <5>2. Cardinality({a \in ActiveOf(c.user, now)' : a < mark}) < c.saw.limit
          BY <1>0, <1>3, <4>1, <5>1, CountShrinks
        <5>. QED  BY <5>2
      <4>4. ActiveOf(c.user, now)' = ActiveOf(c.user, now)
        BY <1>0 DEF ActiveOf, Rows, Confirmed
      <4>. QED  BY <1>0, <3>2, <4>3, <4>4 DEF CountSeen
    <3>. QED  BY <3>2, <3>3, <3>4 DEF SawOf
  <2>4. CASE CheckUserConflict(q)
    <3>1. c.pc = "userconflict" /\ ~HasUserConflict(c.user, c.start, c.end)
          /\ d = [c EXCEPT !.pc = "insert", !.saw.person = nextId]
      BY <1>1, <2>4 DEF CheckUserConflict, At, TypeOK
    <3>2. /\ d.pc = "insert" /\ d.saw.person = nextId /\ d.saw.place = c.saw.place
          /\ d.saw.limit = c.saw.limit /\ d.saw.count = c.saw.count /\ d.user = c.user
          /\ d.workspace = c.workspace /\ d.start = c.start /\ d.end = c.end
      BY <1>3, <3>1 DEF CreateReq, Seen
    <3>3. PlaceSeen(d)
      BY <3>1, <3>2 DEF PlaceSeen, SawOf, LatePC
    <3>4. CountSeen(d)
      BY <3>1, <3>2 DEF CountSeen, SawOf
    <3>5. PersonSeen(d)
      BY <1>0, <3>1, <3>2 DEF PersonSeen, HasUserConflict
    <3>. QED  BY <3>2, <3>3, <3>4, <3>5 DEF SawOf
  <2>. QED  BY <2>1, <2>2, <2>3, <2>4 DEF Advance
<1>. QED  BY <1>0, <1>5, <1>6, <1>7, <1>8 DEF SawOf

LEMMA RequestSawNext ==
    ASSUME TypeOK, TypeOK', RequestSaw, RowStep, \A q \in Request : ReqStep(q)
    PROVE  RequestSaw'
<1>. SUFFICES ASSUME NEW q \in Request PROVE SawOf(req[q])'
  BY SawOfRequestsNext
<1>0. SawOf(req[q])
  BY SawOfRequests
<1>1. CASE req'[q].pc \notin LatePC
  BY <1>1 DEF SawOf, LatePC
<1>2. CASE req'[q].pc \in LatePC /\ Advance(q)
  BY <1>0, <1>2, AdvanceSaw
<1>3. CASE req'[q].pc \in LatePC /\ req'[q] = req[q]
  <2>1. req[q] \in CreateReq
    BY <1>3, KindOfRequest DEF LatePC, CreatePC
  <2>. PICK c \in CreateReq : c = req[q]
    BY <2>1
  <2>2. SawOf(c)
    BY <1>0
  <2>3. now' >= now /\ now \in Nat /\ now' \in Nat /\ c.at \in Nat
    BY DEF RowStep, TypeOK, CreateReq
  <2>4. SawOf(c)'
    BY <2>2, <2>3, SeenStays DEF SawOf
  <2>. QED  BY <1>3, <2>4
<1>. QED  BY <1>1, <1>2, <1>3 DEF ReqStep

\* Two rows of which the later one is old are both old.
LEMMA OldPair ==
    ASSUME TypeOK, TypeOK', RowStep, NEW a \in Rows', NEW b \in Rows, b \in Rows', a < b
    PROVE  a \in Rows /\ Kept(a) /\ Kept(b)
<1>1. b < nextId /\ a < nextId
  BY DEF TypeOK, RepoType, Rows
<1>. QED  BY <1>1, OldRows

\* A row that is not old comes from a request that has made all its checks.
LEMMA NewRow ==
    ASSUME TypeOK, RequestSaw, RowStep, NEW b \in Rows', b \notin Rows
    PROVE  /\ b = nextId
           /\ \E c \in CreateReq :
                /\ PlaceSeen(c) /\ PersonSeen(c) /\ CountSeen(c)
                /\ bookings'[b] = [user |-> c.user, workspace |-> c.workspace,
                                   start |-> c.start, end |-> c.end,
                                   status |-> "CONFIRMED", cancelledAt |-> Null]
                /\ saw'[b] = c.saw
<1>1. PICK r \in Request : Added(r)
  BY DEF RowStep, Erased
<1>2. SawOf(req[r]) /\ req[r].pc = "insert" /\ req[r] \in CreateReq
  BY <1>1, SawOfRequests DEF Added, At
<1>3. b = nextId
  BY <1>1 DEF Added
<1>. QED  BY <1>1, <1>2, <1>3 DEF Added, SawOf, LatePC

LEMMA DoubleBookingNext ==
    ASSUME TypeOK, TypeOK', RequestSaw, RowStep, DoubleBookingIsRace
    PROVE  DoubleBookingIsRace'
<1>. SUFFICES ASSUME NEW a \in Rows', NEW b \in Rows', a < b, SamePlace(a, b)', Overlapping(a, b)',
                     Confirmed(a)', Confirmed(b)'
              PROVE  a >= saw'[b].place
  BY DEF DoubleBookingIsRace
<1>1. CASE b \in Rows
  <2>1. a \in Rows /\ Kept(a) /\ Kept(b)
    BY <1>1, OldPair
  <2>. QED
    BY <1>1, <2>1 DEF Kept, SamePlace, Overlapping, Overlaps, DoubleBookingIsRace
<1>2. CASE b \notin Rows
  <2>1. PICK c \in CreateReq :
          /\ PlaceSeen(c)
          /\ bookings'[b] = [user |-> c.user, workspace |-> c.workspace,
                             start |-> c.start, end |-> c.end,
                             status |-> "CONFIRMED", cancelledAt |-> Null]
          /\ saw'[b] = c.saw
    BY <1>2, NewRow
  <2>2. a \in Rows /\ Kept(a) /\ a \in Nat
    BY <1>2, NewRow, OldRows DEF TypeOK, RepoType, Rows
  <2>3. /\ bookings[a].workspace = c.workspace /\ Confirmed(a)
        /\ Overlaps(a, c.start, c.end)
    BY <2>1, <2>2 DEF Kept, SamePlace, Overlapping, Overlaps
  <2>4. c.saw.place \in Nat
    BY DEF CreateReq, Seen
  <2>. QED  BY <2>1, <2>2, <2>3, <2>4 DEF PlaceSeen
<1>. QED  BY <1>1, <1>2

LEMMA UserOverlapNext ==
    ASSUME TypeOK, TypeOK', RequestSaw, RowStep, UserOverlapIsRace
    PROVE  UserOverlapIsRace'
<1>. SUFFICES ASSUME NEW a \in Rows', NEW b \in Rows', a < b, SameUser(a, b)', Overlapping(a, b)',
                     Confirmed(a)', Confirmed(b)'
              PROVE  a >= saw'[b].person
  BY DEF UserOverlapIsRace
<1>1. CASE b \in Rows
  <2>1. a \in Rows /\ Kept(a) /\ Kept(b)
    BY <1>1, OldPair
  <2>. QED
    BY <1>1, <2>1 DEF Kept, SameUser, Overlapping, Overlaps, UserOverlapIsRace
<1>2. CASE b \notin Rows
  <2>1. PICK c \in CreateReq :
          /\ PersonSeen(c)
          /\ bookings'[b] = [user |-> c.user, workspace |-> c.workspace,
                             start |-> c.start, end |-> c.end,
                             status |-> "CONFIRMED", cancelledAt |-> Null]
          /\ saw'[b] = c.saw
    BY <1>2, NewRow
  <2>2. a \in Rows /\ Kept(a) /\ a \in Nat
    BY <1>2, NewRow, OldRows DEF TypeOK, RepoType, Rows
  <2>3. /\ bookings[a].user = c.user /\ Confirmed(a)
        /\ Overlaps(a, c.start, c.end)
    BY <2>1, <2>2 DEF Kept, SameUser, Overlapping, Overlaps
  <2>4. c.saw.person \in Nat
    BY DEF CreateReq, Seen
  <2>. QED  BY <2>1, <2>2, <2>3, <2>4 DEF PersonSeen
<1>. QED  BY <1>1, <1>2

LEMMA CountedNext ==
    ASSUME TypeOK, TypeOK', RequestSaw, RowStep, CountedBelowLimit,
           \A b \in Rows : saw[b].count <= b
    PROVE  CountedBelowLimit' /\ \A b \in Rows' : saw'[b].count <= b
<1>. SUFFICES ASSUME NEW b \in Rows'
              PROVE  /\ saw'[b].count <= b
                     /\ Cardinality({a \in ActiveOf(bookings[b].user, now)' : a < saw'[b].count})
                          < saw'[b].limit
  BY DEF CountedBelowLimit, ActiveOf
<1>0. nextId \in Nat /\ now \in Nat /\ now <= now' /\ now' \in Nat
  BY DEF TypeOK, RepoType, RowStep
<1>1. CASE b \in Rows
  <2>1. Kept(b)
    BY <1>1 DEF RowStep
  <2>2. b < nextId /\ b \in Nat /\ saw[b] \in Seen
    BY <1>1 DEF TypeOK, RepoType, Rows
  <2>. PICK u, mark, limit :
         u = bookings[b].user /\ mark = saw[b].count /\ limit = saw[b].limit
    OBVIOUS
  <2>3. mark \in Nat /\ limit \in Nat /\ mark <= nextId
    BY <1>0, <1>1, <2>2 DEF Seen
  <2>4. Cardinality({a \in ActiveOf(u, now) : a < mark}) < limit
    BY <1>1 DEF CountedBelowLimit
  <2>5. Cardinality({a \in ActiveOf(u, now)' : a < mark}) < limit
    BY <1>0, <2>3, <2>4, CountShrinks
  <2>. QED  BY <1>1, <2>1, <2>5 DEF Kept, ActiveOf
<1>2. CASE b \notin Rows
  <2>1. PICK c \in CreateReq :
          /\ CountSeen(c)
          /\ bookings'[b] = [user |-> c.user, workspace |-> c.workspace,
                             start |-> c.start, end |-> c.end,
                             status |-> "CONFIRMED", cancelledAt |-> Null]
          /\ saw'[b] = c.saw
    BY <1>2, NewRow
  <2>2. c.saw.count \in Nat /\ c.saw.limit \in Nat /\ c.saw.count <= nextId
    BY <2>1 DEF CreateReq, Seen, CountSeen
  <2>3. Cardinality({a \in ActiveOf(c.user, now)' : a < c.saw.count}) < c.saw.limit
    BY <1>0, <2>1, <2>2, CountShrinks DEF CountSeen
  <2>4. bookings'[b].user = c.user /\ b = nextId
    BY <1>2, <2>1, NewRow
  <2>. QED  BY <2>1, <2>2, <2>3, <2>4 DEF ActiveOf
<1>. QED  BY <1>1, <1>2

LEMMA RaceInvInductive == RaceInv /\ [Next]_vars => RaceInv'
<1>. SUFFICES ASSUME RaceInv, [Next]_vars PROVE RaceInv'
  OBVIOUS
<1>1. TypeOK'
  BY NextType DEF RaceInv
<1>2. RowStep /\ StatusTargets' /\ \A q \in Request : ReqStep(q)
  BY StepShape DEF RaceInv
<1>. QED
  BY <1>1, <1>2, RequestSawNext, DoubleBookingNext, UserOverlapNext, CountedNext DEF RaceInv

LEMMA RaceInvInit == Init => RaceInv
<1>. SUFFICES ASSUME Init PROVE RaceInv
  OBVIOUS
<1>1. TypeOK
  BY InitType
<1>2. Rows = {} /\ \A r \in Request : req[r].pc = "idle"
  BY DEF Init, RepoInit, Rows
<1>. QED
  BY <1>1, <1>2 DEF RaceInv, StatusTargets, At, RequestSaw, DoubleBookingIsRace,
     UserOverlapIsRace, CountedBelowLimit

LEMMA RaceInvHolds == Spec => []RaceInv
BY RaceInvInit, RaceInvInductive, PTL DEF Spec

\* What a create request has read stays true, until its INSERT, of the rows it
\* could see: cancellations, completions and deletions only free places.
THEOREM ChecksStayTrue == Spec => []RequestSaw
BY RaceInvHolds, PTL DEF RaceInv

\* However many users and requests there are, two overlapping bookings of one
\* workspace can only come from a row inserted between the HasConflict and the
\* INSERT of the later booking's request.
THEOREM DoubleBookingOnlyByRace == Spec => []DoubleBookingIsRace
BY RaceInvHolds, PTL DEF RaceInv

\* The same for two overlapping bookings of one user and HasUserConflict.
THEOREM UserOverlapOnlyByRace == Spec => []UserOverlapIsRace
BY RaceInvHolds, PTL DEF RaceInv

\* A user exceeds the limit a booking was admitted under only by rows inserted
\* after the count its request made.
THEOREM LimitExceededOnlyByRace == Spec => []CountedBelowLimit
BY RaceInvHolds, PTL DEF RaceInv

-----------------------------------------------------------------------------
(* Rows and workspaces that come and go *)

\* The statements that write the bookings table.
Writer(r) ==
    \/ InsertBooking(r) \/ CancelUpdate(r) \/ StatusUpdate(r) \/ DeleteRow(r) \/ Sweep(r)
    \/ \E id \in KnownId : AdminCancel(r, id)

LEMMA Writers ==
    ASSUME TypeOK, [Next]_vars
    PROVE  UNCHANGED <<bookings, nextId, saw>> \/ \E r \in Request : Writer(r)
<1>1. ASSUME NEW r \in Request, Submit(r) PROVE UNCHANGED <<bookings, nextId, saw>>
  BY <1>1, SubmitReq DEF db
<1>2. ASSUME NEW r \in Request, OneStatement(r)
      PROVE  UNCHANGED <<bookings, nextId, saw>> \/ Writer(r)
  BY <1>2 DEF OneStatement, SetAvailable, UpdateSettings, Writer
<1>3. ASSUME NEW r \in Request, Proceed(r)
      PROVE  UNCHANGED <<bookings, nextId, saw>> \/ Writer(r)
  BY <1>3, CreateReadType, AdminReadType
  DEF Proceed, CreateStep, CancelStep, StatusStep, DeleteStep, Writer, db
<1>4. ASSUME NEW r \in Request, Abort(r) PROVE UNCHANGED <<bookings, nextId, saw>>
  BY <1>4 DEF Abort, db
<1>5. Tick \/ UNCHANGED vars => UNCHANGED <<bookings, nextId, saw>>
  BY DEF Tick, vars, db
<1>. QED  BY <1>1, <1>2, <1>3, <1>4, <1>5 DEF Next

\* A row disappears only with its workspace.
LEMMA GoneWith ==
    ASSUME TypeOK, [Next]_vars, NEW i \in Rows, i \notin Rows'
    PROVE  \E r \in Request : DeleteRow(r) /\ bookings[i].workspace = req[r].workspace
<1>1. RepoType /\ now \in Nat
  BY DEF TypeOK
<1>2. bookings' # bookings
  BY DEF Rows
<1>3. ASSUME NEW r \in Request, InsertBooking(r) PROVE Rows \subseteq Rows'
  <2>1. req[r] \in CreateReq
    BY <1>3, KindOfRequest DEF InsertBooking, At, CreatePC
  <2>. QED  BY <1>1, <1>3, <2>1, CreateRow DEF InsertBooking, CreateReq, Rows
<1>4. ASSUME NEW S, NEW s, SetStatus(S, s) PROVE Rows' = Rows
  BY <1>4 DEF SetStatus, Rows
<1>5. ASSUME NEW id, NEW s, NEW t, Cancel(id, s, t) PROVE Rows' = Rows
  BY <1>5 DEF Cancel, Rows
<1>6. ASSUME NEW r \in Request, DeleteRow(r) PROVE bookings[i].workspace = req[r].workspace
  BY <1>1, <1>6, DeleteRows DEF DeleteRow
<1>7. PICK r \in Request : Writer(r)
  BY <1>2, Writers
<1>8. ~(InsertBooking(r) \/ CancelUpdate(r) \/ StatusUpdate(r) \/ Sweep(r))
      /\ ~\E id \in KnownId : AdminCancel(r, id)
  BY <1>3, <1>4, <1>5
  DEF CancelUpdate, StatusUpdate, UpdateStatus, Sweep, MarkPastCompleted, AdminCancel
<1>. QED  BY <1>6, <1>7, <1>8 DEF Writer

\* A row is only ever added by the INSERT of a create request.
LEMMA InsertedBy ==
    ASSUME TypeOK, StatusTargets, [Next]_vars, NEW i \in Rows', i \notin Rows
    PROVE  \E r \in Request : InsertBooking(r) /\ Added(r) /\ i = nextId
                              /\ req[r].workspace \in DOMAIN available
<1>1. PICK r \in Request : Writer(r)
  BY Writers DEF Rows
<1>2. RowStep
  BY StepShape
<1>3. PICK q \in Request : Added(q)
  BY <1>2 DEF RowStep, Erased
<1>4. nextId' = nextId + 1 /\ i = nextId /\ nextId \in Nat
  BY <1>3 DEF Added, TypeOK, RepoType
<1>5. ASSUME NEW x \in Request, Writer(x), ~InsertBooking(x) PROVE nextId' = nextId
  BY <1>5 DEF Writer, CancelUpdate, Cancel, StatusUpdate, UpdateStatus, SetStatus, DeleteRow,
              DeleteByWorkspace, Sweep, MarkPastCompleted, AdminCancel
<1>6. InsertBooking(r) /\ nextId' # nextId
  BY <1>1, <1>4, <1>5
<1>7. req[r].workspace \in DOMAIN available
  BY <1>6 DEF InsertBooking
<1>8. Added(r)
  <2>1. req'[r] = [pc |-> "idle"] /\ \A x \in Request \ {r} : req'[x] = req[x]
    BY <1>6, AnswerMoves DEF InsertBooking
  <2>2. req'[q] = [pc |-> "idle"] /\ req[q].pc = "insert"
    BY <1>3, AnswerMoves DEF Added, At
  <2>3. q = r
    BY <2>1, <2>2
  <2>. QED  BY <1>3, <2>3
<1>. QED  BY <1>4, <1>6, <1>7, <1>8

\* Workspaces go by a deletion only.
LEMMA PlacesStay ==
    ASSUME TypeOK, [Next]_vars, \A r \in Request : ~DeleteRow(r)
    PROVE  DOMAIN available' = DOMAIN available
<1>1. ASSUME NEW r \in Request, Submit(r) PROVE available' = available
  BY <1>1, SubmitReq DEF db
<1>2. ASSUME NEW r \in Request, OneStatement(r) PROVE DOMAIN available' = DOMAIN available
  BY <1>2 DEF OneStatement, AdminCancel, SetAvailable, UpdateSettings, TypeOK
<1>3. ASSUME NEW r \in Request, Proceed(r) PROVE available' = available
  <2>1. InsertBooking(r) \/ CancelUpdate(r) \/ StatusUpdate(r) \/ Sweep(r) \/ UNCHANGED db
    BY <1>3, CreateReadType, AdminReadType DEF Proceed, CreateStep, CancelStep, StatusStep, DeleteStep
  <2>. QED  BY <2>1 DEF InsertBooking, CancelUpdate, StatusUpdate, Sweep, db
<1>4. ASSUME NEW r \in Request, Abort(r) PROVE available' = available
  BY <1>4 DEF Abort, db
<1>5. Tick \/ UNCHANGED vars => available' = available
  BY DEF Tick, vars, db
<1>. QED  BY <1>1, <1>2, <1>3, <1>4, <1>5 DEF Next

\* What a step does to the workspaces that exist: it leaves them, and books only one
\* of them, or it removes one with its rows.
PlaceStep ==
    \/ /\ DOMAIN available' = DOMAIN available
       /\ Rows \subseteq Rows'
       /\ \A i \in Rows' \ Rows : bookings'[i].workspace \in DOMAIN available
    \/ \E w \in Workspace :
          /\ DOMAIN available' = DOMAIN available \ {w}
          /\ Rows' = {i \in Rows : bookings[i].workspace # w}
          /\ \A i \in Rows' : bookings'[i] = bookings[i]
          /\ nextId' = nextId

LEMMA PlaceSteps ==
    ASSUME TypeOK, StatusTargets, [Next]_vars
    PROVE  PlaceStep
<1>0. RepoType
  BY DEF TypeOK
<1>1. ASSUME NEW r \in Request, DeleteRow(r) PROVE PlaceStep
  <2>1. req[r].workspace \in Workspace
    BY <1>1, KindOfRequest DEF DeleteRow, At, DeleteReq
  <2>2. /\ Rows' = {i \in Rows : bookings[i].workspace # req[r].workspace}
        /\ \A i \in Rows' : bookings'[i] = bookings[i]
        /\ nextId' = nextId
    BY <1>0, <1>1, DeleteRows DEF DeleteRow
  <2>3. DOMAIN available' = DOMAIN available \ {req[r].workspace}
    BY <1>1 DEF DeleteRow
  <2>. QED  BY <2>1, <2>2, <2>3 DEF PlaceStep
<1>2. ASSUME \A r \in Request : ~DeleteRow(r) PROVE PlaceStep
  <2>1. DOMAIN available' = DOMAIN available
    BY <1>2, PlacesStay
  <2>2. Rows \subseteq Rows'
    BY <1>2, GoneWith
  <2>3. ASSUME NEW i \in Rows' \ Rows PROVE bookings'[i].workspace \in DOMAIN available
    <3>. PICK r \in Request : Added(r) /\ i = nextId /\ req[r].workspace \in DOMAIN available
      BY InsertedBy
    <3>. QED  BY DEF Added
  <2>. QED  BY <2>1, <2>2, <2>3 DEF PlaceStep
<1>. QED  BY <1>1, <1>2

-----------------------------------------------------------------------------
(* The handlers implement the ledger *)

\* A create request that has been validated asks for a real interval.
ValidTerms ==
    \A r \in Request :
        req[r].pc \in CreatePC \ {"cooldown"} => req[r].end > req[r].start

LEMMA ValidTermsNext ==
    ASSUME TypeOK, ValidTerms, [Next]_vars
    PROVE  ValidTerms'
<1>1. CASE req' = req
  BY <1>1 DEF ValidTerms
<1>2. ASSUME NEW r \in Request, \A q \in Request \ {r} : req'[q] = req[q],
             req'[r].pc \in CreatePC \ {"cooldown"} => req'[r].end > req'[r].start
      PROVE  ValidTerms'
  BY <1>2 DEF ValidTerms
<1>3. ASSUME NEW r \in Request, Submit(r) PROVE ValidTerms'
  <2>1. req'[r].pc \notin CreatePC \ {"cooldown"}
    BY <1>3 DEF Submit, BeginCreate, BeginCancel, BeginStatus, BeginDelete, BeginVisit,
                Begin, TypeOK, CreatePC
  <2>. QED  BY <1>2, <1>3, <2>1, SubmitReq
<1>4. ASSUME NEW r \in Request, Answer(r) PROVE ValidTerms'
  BY <1>2, <1>4, AnswerMoves DEF CreatePC
<1>5. ASSUME NEW r \in Request, CreateStep(r), ~Answer(r) PROVE ValidTerms'
  <2>1. req[r] \in CreateReq
    BY <1>5, KindOfRequest
    DEF CreateStep, CheckCooldown, FindWorkspace, CheckConflict, GetSettings, CountActive,
        CheckUserConflict, InsertBooking, At, CreatePC
  <2>2. /\ req[r].pc = "cooldown" => req[r].end > req[r].start
        /\ req[r].pc \in CreatePC
        /\ req'[r].start = req[r].start /\ req'[r].end = req[r].end
    BY <1>5, <2>1
    DEF CreateStep, CheckCooldown, ValidInterval, FindWorkspace, CheckConflict, GetSettings,
        CountActive, CheckUserConflict, InsertBooking, Goto, At, CreatePC, TypeOK, CreateReq
  <2>3. \A q \in Request \ {r} : req'[q] = req[q]
    BY <1>5, ProceedReq DEF Proceed
  <2>. QED  BY <1>2, <2>2, <2>3 DEF ValidTerms
<1>6. ASSUME NEW r \in Request, CancelStep(r) \/ StatusStep(r) \/ DeleteStep(r), ~Answer(r)
      PROVE  ValidTerms'
  <2>1. req'[r].pc \notin CreatePC
    <3>1. req[r] \in CancelReq \cup StatusReq \cup DeleteReq
      BY <1>6, KindOfRequest
      DEF CancelStep, FindToCancel, CancelCooldown, CancelUpdate, StatusStep, FindForStatus,
          StatusUpdate, DeleteStep, DeleteCheck, DeleteRow, At
    <3>. QED
      BY <1>6, <3>1
      DEF CancelStep, FindToCancel, CancelCooldown, CancelUpdate, StatusStep, FindForStatus,
          StatusUpdate, DeleteStep, DeleteCheck, DeleteRow, Goto, At, CreatePC, TypeOK,
          CancelReq, StatusReq, DeleteReq
  <2>2. \A q \in Request \ {r} : req'[q] = req[q]
    BY <1>6, ProceedReq DEF Proceed
  <2>. QED  BY <1>2, <2>1, <2>2
<1>7. ASSUME NEW r \in Request, Sweep(r) \/ Abort(r) PROVE ValidTerms'
  BY <1>4, <1>7 DEF Sweep, Abort
<1>8. ASSUME NEW r \in Request, Submit(r) \/ OneStatement(r) \/ Proceed(r) \/ Abort(r)
      PROVE  ValidTerms'
  BY <1>1, <1>3, <1>4, <1>5, <1>6, <1>7, <1>8
  DEF Proceed, OneStatement, AdminCancel, SetAvailable, UpdateSettings
<1>. QED  BY <1>1, <1>8 DEF Next, Tick, vars

\* The entry of the ledger a row stands for.
EntryOf(i) ==
    [holder |-> bookings[i].user, place |-> bookings[i].workspace,
     start  |-> bookings[i].start, end |-> bookings[i].end,
     state |-> IF Confirmed(i) THEN "open" ELSE "closed"]

books == [i \in Rows |-> EntryOf(i)]

\* Whatever a step does to the rows is a step of the ledger or leaves it alone.
LEMMA LedgerStep ==
    ASSUME TypeOK, TypeOK', ValidTerms, RowStep, PlaceStep
    PROVE  [Ledger!Next]_<<books, nextId, DOMAIN available>>
<1>1. CASE Rows' = Rows /\ nextId' = nextId /\ DOMAIN available' = DOMAIN available
  <2>. DEFINE S == {i \in Rows : bookings'[i].status # "CONFIRMED"}
  <2>1. ASSUME NEW i \in Rows
        PROVE  books'[i] = IF i \in S THEN [books[i] EXCEPT !.state = "closed"] ELSE books[i]
    <3>1. Kept(i)
      BY <1>1 DEF RowStep
    <3>2. CASE i \in S
      BY <1>1, <3>1, <3>2 DEF books, EntryOf, Kept, Confirmed
    <3>3. CASE i \notin S
      BY <1>1, <3>1, <3>3 DEF books, EntryOf, Kept, Confirmed
    <3>. QED  BY <3>2, <3>3
  <2>2. books' = [i \in DOMAIN books |-> IF i \in S THEN [books[i] EXCEPT !.state = "closed"]
                                         ELSE books[i]]
    BY <1>1, <2>1 DEF books
  <2>3. \E T \in SUBSET DOMAIN books :
           /\ T \subseteq DOMAIN books
           /\ books' = [i \in DOMAIN books |-> IF i \in T THEN [books[i] EXCEPT !.state = "closed"]
                                              ELSE books[i]]
           /\ UNCHANGED nextId /\ UNCHANGED DOMAIN available
    <3>1. S \in SUBSET DOMAIN books
      BY DEF books
    <3>. HIDE DEF S
    <3>. QED  BY <1>1, <2>2, <3>1
  <2>6. Ledger!Next
    BY <2>3 DEF Ledger!Next, Ledger!Close, books, EntryOf
  <2>. QED  BY <2>6
<1>2. ASSUME NEW w \in Workspace, Rows' = {i \in Rows : bookings[i].workspace # w}, nextId' = nextId,
             \A i \in Rows' : bookings'[i] = bookings[i], DOMAIN available' = DOMAIN available \ {w}
      PROVE  Ledger!Next
  <2>1. \A i \in Rows' : books'[i] = books[i]
    BY <1>2 DEF books, EntryOf, Confirmed
  <2>2. Ledger!Erase(w)
    BY <1>2, <2>1 DEF Ledger!Erase, books, EntryOf
  <2>. QED  BY <2>2 DEF Ledger!Next
<1>3. ASSUME NEW r \in Request, Added(r), DOMAIN available' = DOMAIN available,
             \A i \in Rows' \ Rows : bookings'[i].workspace \in DOMAIN available
      PROVE  Ledger!Next
  <2>1. /\ Rows' = Rows \cup {nextId} /\ nextId' = nextId + 1
        /\ \A i \in Rows : books'[i] = books[i]
    BY <1>3 DEF Added, books, EntryOf, Confirmed
  <2>2. books'[nextId] = [holder |-> req[r].user, place |-> req[r].workspace,
                          start |-> req[r].start, end |-> req[r].end, state |-> "open"]
    BY <1>3, <2>1 DEF Added, books, EntryOf, Confirmed
  <2>3. req[r] \in CreateReq /\ req[r].end > req[r].start
    BY <1>3 DEF Added, ValidTerms, At, CreatePC
  <2>4. req[r].workspace \in DOMAIN available
    <3>1. nextId \in Rows' \ Rows
      BY <2>1 DEF TypeOK, RepoType, Rows
    <3>. QED  BY <1>3, <3>1 DEF Added
  <2>5. /\ books'[nextId] \in Ledger!Entry
        /\ books'[nextId].state = "open"
        /\ books'[nextId].place \in DOMAIN available
        /\ books'[nextId].end > books'[nextId].start
    BY <2>2, <2>3, <2>4 DEF Ledger!Entry, CreateReq
  <2>6. DOMAIN books' = DOMAIN books \cup {nextId}
    BY <2>1 DEF books
  <2>7. Ledger!Book
    BY <1>3, <2>1, <2>5, <2>6 DEF Ledger!Book, books, EntryOf
  <2>. QED  BY <2>7 DEF Ledger!Next
<1>4. CASE \E w \in Workspace :
              /\ DOMAIN available' = DOMAIN available \ {w}
              /\ Rows' = {i \in Rows : bookings[i].workspace # w}
              /\ \A i \in Rows' : bookings'[i] = bookings[i]
              /\ nextId' = nextId
  BY <1>2, <1>4
<1>5. CASE /\ DOMAIN available' = DOMAIN available
           /\ Rows \subseteq Rows'
           /\ \A i \in Rows' \ Rows : bookings'[i].workspace \in DOMAIN available
  <2>1. Erased => Rows' = Rows /\ nextId' = nextId
    BY <1>5 DEF Erased
  <2>. QED  BY <1>1, <1>3, <1>5, <2>1 DEF RowStep
<1>. QED  BY <1>4, <1>5 DEF PlaceStep

LEMMA LedgerInit == Init => Ledger!Init
BY DEF Init, RepoInit, Ledger!Init, Rows

LEMMA ValidTermsInit == Init => ValidTerms /\ StatusTargets
BY DEF Init, ValidTerms, StatusTargets, At, CreatePC

\* Whatever interleaving of the handlers: no booking is altered, reopened or
\* renumbered, each new one is open on a real interval and of a workspace that exists,
\* and bookings leave the table only with their workspace.
THEOREM HandlersKeepLedger == Spec => KeepsLedger
<1>. DEFINE Inv == TypeOK /\ StatusTargets /\ ValidTerms
<1>1. Init => Inv
  BY InitType, ValidTermsInit
<1>2. Inv /\ [Next]_vars => Inv'
  BY NextType, StepShape, ValidTermsNext
<1>3. Inv /\ Inv' /\ [Next]_vars => [Ledger!Next]_<<books, nextId, DOMAIN available>>
  BY StepShape, PlaceSteps, LedgerStep
<1>4. [Ledger!Next]_<<books, nextId, DOMAIN available>>
      <=> [Ledger!Next]_<<[i \in Rows |-> [holder |-> bookings[i].user,
                                          place  |-> bookings[i].workspace,
                                          start  |-> bookings[i].start,
                                          end    |-> bookings[i].end,
                                          state  |-> IF Confirmed(i) THEN "open" ELSE "closed"]], nextId, DOMAIN available>>
  BY DEF books, EntryOf
<1>. QED  BY <1>1, <1>2, <1>3, <1>4, LedgerInit, PTL DEF Spec, KeepsLedger, Ledger!Spec

-----------------------------------------------------------------------------
(* One request at a time *)

Alone == \A r, q \in Request : r = q

\* Nothing is inserted between the checks of the only request and its insert.
AloneInv ==
    /\ \A r \in Request :
          /\ req[r].pc \in LatePC => req[r].saw.place = nextId
          /\ req[r].pc = "insert" => req[r].saw.person = nextId
    /\ \A b \in Rows : saw[b].place = b /\ saw[b].person = b

LEMMA AloneNext ==
    ASSUME Alone, TypeOK, StatusTargets, AloneInv, [Next]_vars
    PROVE  AloneInv'
<1>0. RowStep /\ \A q \in Request : ReqStep(q)
  BY StepShape
<1>1. ASSUME NEW b \in Rows' PROVE saw'[b].place = b /\ saw'[b].person = b
  <2>1. CASE b \in Rows
    BY <1>0, <1>1, <2>1 DEF RowStep, Kept, AloneInv
  <2>2. CASE b \notin Rows
    <3>1. PICK r \in Request : Added(r)
      BY <1>0, <2>2 DEF RowStep, Erased
    <3>2. b = nextId /\ saw'[b] = req[r].saw /\ req[r].pc = "insert"
      BY <2>2, <3>1 DEF Added, At
    <3>. QED  BY <3>2 DEF AloneInv, LatePC
  <2>. QED  BY <2>1, <2>2
<1>2. ASSUME NEW q \in Request
      PROVE  /\ req'[q].pc \in LatePC => req'[q].saw.place = nextId'
             /\ req'[q].pc = "insert" => req'[q].saw.person = nextId'
  <2>1. CASE \E r \in Request : Added(r)
    <3>1. Added(q)
      BY <2>1 DEF Alone
    <3>. QED  BY <3>1, AnswerMoves DEF Added, LatePC
  <2>2. CASE nextId' = nextId
    <3>1. CASE req'[q] = req[q] \/ req'[q].pc \notin LatePC
      BY <2>2, <3>1 DEF AloneInv, LatePC
    <3>2. CASE Advance(q) /\ req'[q].pc \in LatePC
      <4>1. ~Answer(q)
        BY <3>2, AnswerMoves DEF LatePC
      <4>2. req[q] \in CreateReq
        BY <3>2, KindOfRequest
        DEF Advance, CheckConflict, GetSettings, CountActive, CheckUserConflict, At, CreatePC
      <4>3. CASE CheckConflict(q)
        BY <2>2, <4>1, <4>2, <4>3 DEF CheckConflict, TypeOK, CreateReq, Seen
      <4>4. CASE GetSettings(q)
        BY <2>2, <4>1, <4>2, <4>4 DEF GetSettings, AloneInv, At, LatePC, TypeOK, CreateReq, Seen
      <4>5. CASE CountActive(q)
        BY <2>2, <4>1, <4>2, <4>5 DEF CountActive, AloneInv, At, LatePC, TypeOK, CreateReq, Seen
      <4>6. CASE CheckUserConflict(q)
        BY <2>2, <4>1, <4>2, <4>6
        DEF CheckUserConflict, AloneInv, At, LatePC, TypeOK, CreateReq, Seen
      <4>. QED  BY <3>2, <4>3, <4>4, <4>5, <4>6 DEF Advance
    <3>. QED  BY <1>0, <3>1, <3>2 DEF ReqStep
  <2>. QED  BY <1>0, <2>1, <2>2 DEF RowStep, Erased
<1>. QED  BY <1>1, <1>2 DEF AloneInv

\* When requests are handled one after the other, no workspace and no user has
\* two confirmed bookings for one moment: the checks are right, and only
\* running them concurrently breaks what they promise.
THEOREM SerialRequestsNeverOverlap ==
    ASSUME Alone
    PROVE  Spec => [](NoDoubleBooking /\ NoUserOverlap)
<1>1. Init => AloneInv
  BY DEF Init, RepoInit, AloneInv, Rows, LatePC
<1>2. RaceInv /\ AloneInv /\ [Next]_vars => AloneInv'
  BY AloneNext DEF RaceInv
<1>3. RaceInv /\ AloneInv => NoDoubleBooking /\ NoUserOverlap
  <2>. SUFFICES ASSUME RaceInv, AloneInv PROVE NoDoubleBooking /\ NoUserOverlap
    OBVIOUS
  <2>1. \A a \in Rows : a \in Nat
    BY DEF RaceInv, TypeOK, RepoType, Rows
  <2>2. \A a, b \in Rows : Overlapping(a, b) => Overlapping(b, a)
    BY DEF RaceInv, TypeOK, RepoType, Rows, Row, Overlapping, Overlaps
  <2>3. NoDoubleBooking
    BY <2>1, <2>2 DEF RaceInv, AloneInv, DoubleBookingIsRace, NoDoubleBooking, SamePlace
  <2>4. NoUserOverlap
    BY <2>1, <2>2 DEF RaceInv, AloneInv, UserOverlapIsRace, NoUserOverlap, SameUser
  <2>. QED  BY <2>3, <2>4
<1>. QED  BY <1>1, <1>2, <1>3, RaceInvHolds, PTL DEF Spec
=============================================================================
