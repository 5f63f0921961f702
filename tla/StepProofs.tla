----------------------------- MODULE StepProofs -----------------------------
(***************************************************************************)
(* Theorems about what a single step may do to a booking: how it changes   *)
(* its status, when it disappears and, with one request at a time, what    *)
(* is booked, completed and erased.                                        *)
(***************************************************************************)
EXTENDS BookingProofs

-----------------------------------------------------------------------------
(* What becomes of a row *)

\* A row is left as it is, completed by a sweep, cancelled by an administrator
\* or by its user, or given the status an administrator has asked for.
Fate(i) ==
    \/ bookings'[i] = bookings[i]
    \/ Confirmed(i) /\ bookings'[i] = [bookings[i] EXCEPT !.status = "COMPLETED"]
    \/ /\ Confirmed(i) /\ now' = now
       /\ bookings'[i] = [bookings[i] EXCEPT !.status = "CANCELLED_BY_ADMIN", !.cancelledAt = now]
    \/ /\ \E r \in Request : CancelUpdate(r) /\ req[r].booking = i
       /\ Confirmed(i) /\ now' = now
       /\ bookings'[i] = [bookings[i] EXCEPT !.status = "CANCELLED_BY_USER", !.cancelledAt = now]
    \/ \E r \in Request :
          /\ StatusUpdate(r) /\ req[r].booking = i
          /\ req[r].target \in {"COMPLETED", "CANCELLED_BY_ADMIN"} /\ req[r].found = "CONFIRMED"
          /\ bookings'[i] = [bookings[i] EXCEPT !.status = req[r].target]

LEMMA Fates ==
    ASSUME TypeOK, StatusTargets, [Next]_vars, NEW i \in Rows, i \in Rows'
    PROVE  Fate(i)
<1>1. RepoType /\ now \in Nat
  BY DEF TypeOK
<1>2. CASE UNCHANGED <<bookings, nextId, saw>>
  BY <1>2 DEF Fate
<1>3. ASSUME NEW r \in Request, InsertBooking(r) PROVE bookings'[i] = bookings[i]
  <2>1. req[r] \in CreateReq
    BY <1>3, KindOfRequest DEF InsertBooking, At, CreatePC
  <2>. QED  BY <1>1, <1>3, <2>1, CreateRow DEF InsertBooking, CreateReq
<1>4. ASSUME NEW r \in Request, CancelUpdate(r) PROVE Fate(i)
  <2>1. Cancel(req[r].booking, "CANCELLED_BY_USER", now) /\ now' = now
    BY <1>4 DEF CancelUpdate
  <2>2. bookings'[i] = IF i = req[r].booking /\ Confirmed(i)
                       THEN [bookings[i] EXCEPT !.status = "CANCELLED_BY_USER", !.cancelledAt = now]
                       ELSE bookings[i]
    BY <1>1, <2>1, CancelRow DEF Status
  <2>. QED  BY <1>4, <2>1, <2>2 DEF Fate
<1>5. ASSUME NEW r \in Request, StatusUpdate(r) PROVE Fate(i)
  <2>1. /\ SetStatus({req[r].booking}, req[r].target)
        /\ req[r].target \in {"COMPLETED", "CANCELLED_BY_ADMIN"} /\ req[r].found = "CONFIRMED"
    BY <1>5 DEF StatusUpdate, UpdateStatus, StatusTargets
  <2>2. bookings'[i] = IF i \in {req[r].booking} THEN [bookings[i] EXCEPT !.status = req[r].target]
                       ELSE bookings[i]
    BY <1>1, <2>1, SetStatusRows DEF Status
  <2>. QED  BY <1>5, <2>1, <2>2 DEF Fate
<1>6. ASSUME NEW r \in Request, DeleteRow(r) PROVE bookings'[i] = bookings[i]
  BY <1>1, <1>6, DeleteRows DEF DeleteRow
<1>7. ASSUME NEW r \in Request, Sweep(r) PROVE Fate(i)
  <2>. DEFINE S == {j \in Rows : Confirmed(j) /\ bookings[j].end <= req[r].at}
  <2>1. SetStatus(S, "COMPLETED")
    BY <1>7 DEF Sweep, MarkPastCompleted
  <2>2. i \in S => Confirmed(i)
    OBVIOUS
  <2>. HIDE DEF S
  <2>3. bookings'[i] = IF i \in S THEN [bookings[i] EXCEPT !.status = "COMPLETED"] ELSE bookings[i]
    BY <1>1, <2>1, SetStatusRows DEF Status
  <2>. QED  BY <2>2, <2>3 DEF Fate
<1>8. ASSUME NEW r \in Request, NEW id \in KnownId, AdminCancel(r, id) PROVE Fate(i)
  <2>1. Cancel(id, "CANCELLED_BY_ADMIN", now) /\ now' = now
    BY <1>8 DEF AdminCancel
  <2>2. bookings'[i] = IF i = id /\ Confirmed(i)
                       THEN [bookings[i] EXCEPT !.status = "CANCELLED_BY_ADMIN", !.cancelledAt = now]
                       ELSE bookings[i]
    BY <1>1, <2>1, CancelRow DEF Status
  <2>. QED  BY <2>1, <2>2 DEF Fate
<1>. QED  BY <1>2, <1>3, <1>4, <1>5, <1>6, <1>7, <1>8, Writers DEF Writer, Fate

-----------------------------------------------------------------------------
(* The time of cancellation *)

LEMMA CancellationTimedNext ==
    ASSUME TypeOK, TypeOK', StatusTargets, CancellationTimed, [Next]_vars
    PROVE  CancellationTimed'
<1>0. RowStep /\ now \in Nat /\ now' \in Nat /\ now' >= now
  BY StepShape DEF TypeOK, RowStep
<1>. SUFFICES ASSUME NEW i \in Rows'
              PROVE  /\ bookings'[i].cancelledAt # Null => bookings'[i].cancelledAt <= now'
                     /\ Confirmed(i)' => bookings'[i].cancelledAt = Null
                     /\ bookings'[i].status = "CANCELLED_BY_USER" => bookings'[i].cancelledAt # Null
  BY DEF CancellationTimed
<1>1. CASE i \notin Rows
  <2>1. PICK r \in Request : Added(r)
    BY <1>0, <1>1 DEF RowStep, Erased
  <2>2. i = nextId
    BY <1>1, <2>1 DEF Added
  <2>3. bookings'[i].status = "CONFIRMED" /\ bookings'[i].cancelledAt = Null
    BY <2>1, <2>2 DEF Added
  <2>. QED  BY <2>3
<1>2. CASE i \in Rows
  <2>1. /\ bookings[i] \in Row
        /\ bookings[i].cancelledAt # Null => bookings[i].cancelledAt <= now
        /\ Confirmed(i) => bookings[i].cancelledAt = Null
        /\ bookings[i].status = "CANCELLED_BY_USER" => bookings[i].cancelledAt # Null
    BY <1>2 DEF CancellationTimed, TypeOK, RepoType, Rows
  <2>2. bookings[i].cancelledAt # Null => bookings[i].cancelledAt <= now'
    BY <1>0, <2>1 DEF Row
  <2>3. Null # now
    BY <1>0, NullAssumption
  <2>4. Fate(i)
    BY <1>2, Fates
  <2>5. CASE bookings'[i] = bookings[i]
    BY <2>1, <2>2, <2>5 DEF Confirmed
  <2>6. CASE Confirmed(i) /\ bookings'[i] = [bookings[i] EXCEPT !.status = "COMPLETED"]
    BY <2>1, <2>2, <2>6 DEF Row, Confirmed
  <2>7. ASSUME NEW s \in {"CANCELLED_BY_ADMIN", "CANCELLED_BY_USER"}, now' = now,
               bookings'[i] = [bookings[i] EXCEPT !.status = s, !.cancelledAt = now]
        PROVE  bookings'[i].status = s /\ bookings'[i].cancelledAt = now
    BY <2>1, <2>7 DEF Row
  <2>8. CASE /\ now' = now
             /\ \/ bookings'[i] = [bookings[i] EXCEPT !.status = "CANCELLED_BY_ADMIN", !.cancelledAt = now]
                \/ bookings'[i] = [bookings[i] EXCEPT !.status = "CANCELLED_BY_USER", !.cancelledAt = now]
    BY <1>0, <2>3, <2>7, <2>8 DEF Confirmed
  <2>9. ASSUME NEW s \in {"COMPLETED", "CANCELLED_BY_ADMIN"},
               bookings'[i] = [bookings[i] EXCEPT !.status = s]
        PROVE  bookings'[i].status = s /\ bookings'[i].cancelledAt = bookings[i].cancelledAt
    BY <2>1, <2>9 DEF Row
  <2>10. CASE \E r \in Request : /\ req[r].target \in {"COMPLETED", "CANCELLED_BY_ADMIN"}
                                 /\ bookings'[i] = [bookings[i] EXCEPT !.status = req[r].target]
    BY <2>2, <2>9, <2>10 DEF Confirmed
  <2>. QED  BY <2>4, <2>5, <2>6, <2>8, <2>10 DEF Fate
<1>. QED  BY <1>1, <1>2

\* The throttle counts from times that are there and not in the future: however
\* cancellations, completions and the administrator's changes of status overtake
\* each other, no row is left cancelled by its user without a time, and none that
\* is confirmed with one.
THEOREM CancellationsAreTimed == Spec => []CancellationTimed
<1>. DEFINE Inv == TypeOK /\ StatusTargets /\ CancellationTimed
<1>1. Init => Inv
  BY InitType, ValidTermsInit DEF Init, RepoInit, CancellationTimed, Rows
<1>2. Inv /\ [Next]_vars => Inv'
  BY NextType, StepShape, CancellationTimedNext
<1>. QED  BY <1>1, <1>2, PTL DEF Spec

LEMMA StatusTargetsHold == Spec => [](TypeOK /\ StatusTargets)
<1>1. Init => TypeOK /\ StatusTargets
  BY InitType, ValidTermsInit
<1>2. TypeOK /\ StatusTargets /\ [Next]_vars => (TypeOK /\ StatusTargets)'
  BY NextType, StepShape
<1>. QED  BY <1>1, <1>2, PTL DEF Spec

\* A closed booking is left alone by sweeps, cancellations and deletions of other
\* places, whatever they had read before: only the UPDATE of a status form that had
\* found it open rewrites it, and only its status.
THEOREM RewrittenOnlyByRace == Spec => RewrittenIsRace
<1>. DEFINE Rewriting ==
        \A i \in Rows : ~Confirmed(i) /\ ~Gone(i) /\ bookings'[i] # bookings[i] =>
            \E r \in Request :
                /\ At(r, "statusUpdate")
                /\ req[r].booking = i
                /\ req[r].found = "CONFIRMED"
                /\ req[r].target \in {"COMPLETED", "CANCELLED_BY_ADMIN"}
                /\ bookings'[i] = [bookings[i] EXCEPT !.status = req[r].target]
<1>1. ASSUME TypeOK, StatusTargets, [Next]_vars PROVE Rewriting
  <2>. SUFFICES ASSUME NEW i \in Rows, i \in Rows', ~Confirmed(i), bookings'[i] # bookings[i]
                PROVE  \E r \in Request :
                          /\ At(r, "statusUpdate")
                          /\ req[r].booking = i
                          /\ req[r].found = "CONFIRMED"
                          /\ req[r].target \in {"COMPLETED", "CANCELLED_BY_ADMIN"}
                          /\ bookings'[i] = [bookings[i] EXCEPT !.status = req[r].target]
    BY Zenon DEF Gone, Rows
  <2>1. Fate(i)
    BY <1>1, Fates
  <2>2. PICK r \in Request :
              /\ StatusUpdate(r) /\ req[r].booking = i
              /\ req[r].target \in {"COMPLETED", "CANCELLED_BY_ADMIN"}
              /\ req[r].found = "CONFIRMED"
              /\ bookings'[i] = [bookings[i] EXCEPT !.status = req[r].target]
    BY <2>1 DEF Fate
  <2>3. At(r, "statusUpdate")
    BY <2>2 DEF StatusUpdate
  <2>. QED  BY <2>2, <2>3
<1>2. TypeOK /\ StatusTargets /\ [Next]_vars => [Rewriting]_vars
  BY <1>1
<1>3. Spec => [][Rewriting]_vars
  BY <1>2, StatusTargetsHold, PTL DEF Spec
<1>. QED  BY <1>3 DEF RewrittenIsRace

\* However creations and deletions interleave, no booking is left without its
\* workspace: the INSERT fails as a whole and the DELETE takes the bookings along.
THEOREM BookedAlwaysExist == Spec => [](\A i \in Rows : bookings[i].workspace \in DOMAIN available)
<1>. DEFINE Housed == \A i \in Rows : bookings[i].workspace \in DOMAIN available
            Inv == TypeOK /\ StatusTargets /\ Housed
<1>1. Init => Housed
  BY DEF Init, RepoInit, Rows
<1>2. ASSUME Inv, [Next]_vars PROVE Housed'
  <2>0. RepoType /\ RowStep
    BY <1>2, StepShape DEF TypeOK
  <2>. SUFFICES ASSUME NEW i \in Rows' PROVE bookings'[i].workspace \in DOMAIN available'
    OBVIOUS
  <2>1. CASE i \notin Rows
    <3>1. PICK r \in Request : /\ InsertBooking(r) /\ Added(r) /\ i = nextId
                               /\ req[r].workspace \in DOMAIN available
      BY <1>2, <2>1, InsertedBy
    <3>. QED  BY <3>1 DEF InsertBooking, Added
  <2>2. CASE i \in Rows
    <3>1. /\ bookings'[i].workspace = bookings[i].workspace
          /\ bookings[i].workspace \in DOMAIN available
      BY <1>2, <2>0, <2>2 DEF RowStep, Kept
    <3>2. ASSUME NEW r \in Request, DeleteRow(r)
          PROVE  bookings[i].workspace \in DOMAIN available'
      BY <2>0, <2>2, <3>1, <3>2, DeleteRows DEF DeleteRow
    <3>. QED  BY <1>2, <3>1, <3>2, PlacesStay
  <2>. QED  BY <2>1, <2>2
<1>. QED  BY <1>1, <1>2, StatusTargetsHold, PTL DEF Spec

-----------------------------------------------------------------------------
(* Deleting a workspace *)

\* What a workspace deletion relies on: the rows it could see that are still
\* confirmed are over.
DeleteSawOf(c) ==
    /\ c.pc = "deleteCheck" => c.at <= now
    /\ c.pc = "deleteRow" =>
          /\ c.place <= nextId
          /\ \A i \in Rows : /\ i < c.place /\ bookings[i].workspace = c.workspace /\ Confirmed(i)
                             => bookings[i].end <= now

DeleteSaw == \A r \in Request : DeleteSawOf(req[r])

\* A request changes its state only by a step of its own.
LEMMA OwnStep ==
    ASSUME TypeOK, [Next]_vars, NEW q \in Request, req'[q] # req[q]
    PROVE  Submit(q) \/ Proceed(q) \/ Abort(q)
<1>1. ASSUME NEW r \in Request, OneStatement(r) PROVE req' = req
  BY <1>1 DEF OneStatement, AdminCancel, SetAvailable, UpdateSettings
<1>2. Tick \/ UNCHANGED vars => req' = req
  BY DEF Tick, vars
<1>3. ASSUME NEW r \in Request, Submit(r) \/ Proceed(r) \/ Abort(r) PROVE r = q
  <2>1. \A x \in Request \ {r} : req'[x] = req[x]
    BY <1>3, SubmitReq, ProceedReq, AnswerMoves DEF Abort
  <2>. QED  BY <2>1
<1>. QED  BY <1>1, <1>2, <1>3 DEF Next

\* How a request gets to the two statements of a deletion.
LEMMA DeleteMove ==
    ASSUME TypeOK, [Next]_vars, NEW q \in Request, req'[q].pc \in {"deleteCheck", "deleteRow"}
    PROVE  \/ req'[q] = req[q]
           \/ \E w \in Workspace : BeginDelete(q, w)
           \/ DeleteCheck(q) /\ ~Answer(q)
<1>. SUFFICES ASSUME req'[q] # req[q]
              PROVE  (\E w \in Workspace : BeginDelete(q, w)) \/ (DeleteCheck(q) /\ ~Answer(q))
  OBVIOUS
<1>1. ~Answer(q)
  BY AnswerMoves
<1>2. CASE Submit(q)
  BY <1>2 DEF Submit, BeginCreate, BeginCancel, BeginStatus, BeginVisit, Begin, TypeOK
<1>3. CASE Proceed(q)
  <2>1. ASSUME CreateStep(q) PROVE FALSE
    <3>1. req[q] \in CreateReq
      BY <2>1, KindOfRequest
      DEF CreateStep, CheckCooldown, FindWorkspace, CheckConflict, GetSettings, CountActive,
          CheckUserConflict, InsertBooking, At, CreatePC
    <3>. QED
      BY <1>1, <2>1, <3>1
      DEF CreateStep, CheckCooldown, FindWorkspace, CheckConflict, GetSettings, CountActive,
          CheckUserConflict, InsertBooking, Goto, TypeOK, CreateReq
  <2>2. ASSUME CancelStep(q) PROVE FALSE
    <3>1. req[q] \in CancelReq
      BY <2>2, KindOfRequest DEF CancelStep, FindToCancel, CancelCooldown, CancelUpdate, At
    <3>. QED
      BY <1>1, <2>2, <3>1
      DEF CancelStep, FindToCancel, CancelCooldown, CancelUpdate, Goto, TypeOK, CancelReq
  <2>3. ASSUME StatusStep(q) PROVE FALSE
    <3>1. req[q] \in StatusReq
      BY <2>3, KindOfRequest DEF StatusStep, FindForStatus, StatusUpdate, At
    <3>. QED
      BY <1>1, <2>3, <3>1 DEF StatusStep, FindForStatus, StatusUpdate, Goto, TypeOK, StatusReq
  <2>. QED  BY <1>1, <1>3, <2>1, <2>2, <2>3 DEF Proceed, DeleteStep, DeleteRow, Sweep
<1>. QED  BY <1>1, <1>2, <1>3, OwnStep DEF Abort

\* Time passes, rows are closed and erased and new ones have new numbers: the
\* rows below the mark that are confirmed stay among those that were.
LEMMA DeleteSawStays ==
    ASSUME TypeOK, TypeOK', RowStep, NEW c \in DeleteReq, DeleteSawOf(c)
    PROVE  DeleteSawOf(c)'
<1>1. /\ c.at \in Nat /\ c.place \in Nat /\ now \in Nat /\ now' \in Nat /\ now' >= now
      /\ nextId \in Nat /\ nextId' \in Nat /\ nextId' >= nextId
  BY OldRows DEF DeleteReq, TypeOK, RepoType, RowStep
<1>2. ASSUME c.pc = "deleteRow", NEW i \in Rows', i < c.place,
             bookings'[i].workspace = c.workspace, Confirmed(i)'
      PROVE  bookings'[i].end <= now'
  <2>1. i < nextId
    BY <1>1, <1>2 DEF DeleteSawOf, TypeOK, RepoType, Rows
  <2>2. i \in Rows /\ Kept(i)
    BY <1>2, <2>1, OldRows
  <2>3. bookings[i].end \in Nat /\ bookings[i].end <= now
    BY <1>2, <2>2 DEF DeleteSawOf, Kept, TypeOK, RepoType, Rows, Row
  <2>. QED  BY <1>1, <2>2, <2>3 DEF Kept
<1>. QED  BY <1>1, <1>2 DEF DeleteSawOf

LEMMA DeleteSawNext ==
    ASSUME TypeOK, TypeOK', StatusTargets, DeleteSaw, [Next]_vars
    PROVE  DeleteSaw'
<1>0. RowStep /\ now \in Nat /\ nextId \in Nat
  BY StepShape DEF TypeOK, RepoType
<1>. SUFFICES ASSUME NEW q \in Request PROVE DeleteSawOf(req[q])'
  BY DEF DeleteSaw
<1>1. DeleteSawOf(req[q])
  BY DEF DeleteSaw
<1>2. CASE req'[q].pc \notin {"deleteCheck", "deleteRow"}
  BY <1>2 DEF DeleteSawOf
<1>3. CASE req'[q] = req[q] /\ req[q].pc \in {"deleteCheck", "deleteRow"}
  <2>. PICK c \in DeleteReq : c = req[q]
    BY <1>3, KindOfRequest
  <2>1. DeleteSawOf(c)'
    BY <1>0, <1>1, DeleteSawStays
  <2>. QED  BY <1>3, <2>1
<1>4. ASSUME NEW w \in Workspace, BeginDelete(q, w) PROVE DeleteSawOf(req[q])'
  <2>1. req'[q] = [pc |-> "deleteCheck", workspace |-> w, at |-> now, place |-> 0] /\ now' = now
    BY <1>4 DEF BeginDelete, Begin, TypeOK
  <2>. QED  BY <1>0, <2>1 DEF DeleteSawOf
<1>5. CASE DeleteCheck(q) /\ ~Answer(q)
  <2>. PICK c \in DeleteReq : c = req[q]
    BY <1>5, KindOfRequest DEF DeleteCheck, At
  <2>1. /\ ~HasFuture(c.workspace, c.at) /\ UNCHANGED <<db, now>>
        /\ req'[q] = [c EXCEPT !.pc = "deleteRow", !.place = nextId]
        /\ c.pc = "deleteCheck"
    BY <1>5 DEF DeleteCheck, At, TypeOK
  <2>2. /\ req'[q].pc = "deleteRow" /\ req'[q].place = nextId
        /\ req'[q].workspace = c.workspace /\ c.at <= now /\ c.at \in Nat
    BY <1>1, <2>1 DEF DeleteSawOf, DeleteReq
  <2>3. ASSUME NEW i \in Rows', bookings'[i].workspace = c.workspace, Confirmed(i)'
        PROVE  bookings'[i].end <= now'
    <3>1. i \in Rows /\ bookings[i].workspace = c.workspace /\ Confirmed(i)
          /\ bookings'[i] = bookings[i] /\ now' = now /\ bookings[i].end \in Nat
      BY <2>1, <2>3 DEF db, Rows, Confirmed, TypeOK, RepoType, Row
    <3>2. bookings[i].end <= c.at
      BY <2>1, <2>2, <3>1 DEF HasFuture
    <3>. QED  BY <1>0, <2>2, <3>1, <3>2
  <2>. QED  BY <1>0, <2>1, <2>2, <2>3 DEF DeleteSawOf, db
<1>. QED  BY <1>2, <1>3, <1>4, <1>5, DeleteMove

LEMMA DeleteSawHolds == Spec => [](TypeOK /\ StatusTargets /\ DeleteSaw)
<1>1. Init => TypeOK /\ StatusTargets /\ DeleteSaw
  BY InitType, ValidTermsInit DEF Init, DeleteSaw, DeleteSawOf
<1>2. TypeOK /\ StatusTargets /\ DeleteSaw /\ [Next]_vars => (TypeOK /\ StatusTargets /\ DeleteSaw)'
  BY NextType, StepShape, DeleteSawNext
<1>. QED  BY <1>1, <1>2, PTL DEF Spec

\* What a deletion takes with it.
Erasing ==
    \A i \in Rows : Gone(i) /\ i \in ActiveOf(bookings[i].user, now) =>
        \E r \in Request : At(r, "deleteRow") /\ i >= req[r].place

LEMMA ErasingNext ==
    ASSUME TypeOK, StatusTargets, DeleteSaw, [Next]_vars
    PROVE  Erasing
<1>. SUFFICES ASSUME NEW i \in Rows, i \notin Rows', i \in ActiveOf(bookings[i].user, now)
              PROVE  \E r \in Request : At(r, "deleteRow") /\ i >= req[r].place
  BY DEF Erasing, Gone, Rows
<1>1. PICK r \in Request : DeleteRow(r) /\ bookings[i].workspace = req[r].workspace
  BY GoneWith
<1>2. At(r, "deleteRow") /\ req[r] \in DeleteReq /\ DeleteSawOf(req[r])
  BY <1>1, KindOfRequest DEF DeleteRow, At, DeleteSaw
<1>3. i \in Nat /\ bookings[i].end \in Nat /\ now \in Nat /\ req[r].place \in Nat
  BY <1>2 DEF TypeOK, RepoType, Rows, Row, DeleteReq
<1>4. Confirmed(i) /\ ~(bookings[i].end <= now)
  BY <1>3 DEF ActiveOf
<1>5. ~(i < req[r].place)
  BY <1>1, <1>2, <1>4 DEF DeleteSawOf, At
<1>. QED  BY <1>2, <1>3, <1>5

\* WorkspaceRepo.Delete asks for active bookings and then deletes: it takes one
\* with it only if that booking was inserted between the two statements.
THEOREM ErasedOnlyByRace == Spec => ErasedIsRace
<1>1. TypeOK /\ StatusTargets /\ DeleteSaw /\ [Next]_vars => [Erasing]_vars
  BY ErasingNext
<1>2. Spec => [][Erasing]_vars
  BY <1>1, DeleteSawHolds, PTL DEF Spec
<1>. QED  BY <1>2 DEF ErasedIsRace, Erasing

-----------------------------------------------------------------------------
(* One request at a time *)

\* With one request at a time: what it has read is what the tables say.
SerialOf(c) ==
    /\ c.pc \in LatePC \cup {"conflict"} =>
          c.workspace \in DOMAIN available /\ available[c.workspace]
    /\ c.pc \in {"count", "userconflict", "insert"} => c.saw.limit = maxActive
    /\ c.pc \in {"userconflict", "insert"} => c.saw.count = nextId
    /\ c.pc = "deleteRow" => c.place = nextId
    /\ c.pc = "statusUpdate" /\ c.booking \in Rows => Confirmed(c.booking)

SerialInv == \A r \in Request : SerialOf(req[r])

LEMMA SerialNext ==
    ASSUME Alone, TypeOK, SerialInv, [Next]_vars
    PROVE  SerialInv'
<1>. SUFFICES ASSUME NEW q \in Request PROVE SerialOf(req[q])'
  BY DEF SerialInv
<1>0. SerialOf(req[q]) /\ \A r \in Request : r = q
  BY DEF SerialInv, Alone
<1>. USE DEF LatePC
<1>1. CASE UNCHANGED <<db, req>>
  BY <1>0, <1>1 DEF SerialOf, db, Rows, Confirmed
<1>2. CASE Answer(q)
  BY <1>2, AnswerMoves DEF SerialOf
<1>3. CASE OneStatement(q)
  <2>1. req[q].pc = "idle" /\ req' = req
    BY <1>3 DEF OneStatement, AdminCancel, SetAvailable, UpdateSettings, At
  <2>. QED  BY <2>1 DEF SerialOf
<1>4. CASE Submit(q)
  <2>1. req'[q].pc \in {"cooldown", "cancelFind", "statusFind", "deleteCheck", "sweep"}
    BY <1>4 DEF Submit, BeginCreate, BeginCancel, BeginStatus, BeginDelete, BeginVisit, Begin, TypeOK
  <2>. QED  BY <2>1 DEF SerialOf
<1>5. CASE /\ ~Answer(q)
           /\ \/ CheckCooldown(q) \/ FindWorkspace(q) \/ CheckConflict(q)
              \/ GetSettings(q) \/ CountActive(q) \/ CheckUserConflict(q)
  <2>. PICK c \in CreateReq : c = req[q]
    BY <1>5, KindOfRequest
    DEF CheckCooldown, FindWorkspace, CheckConflict, GetSettings, CountActive, CheckUserConflict,
        At, CreatePC
  <2>. PICK d : d = req'[q]
    OBVIOUS
  <2>1. UNCHANGED <<db, now>>
    BY <1>5, CreateReadType
  <2>2. SerialOf(d)
    <3>1. c.saw \in Seen
      BY DEF CreateReq
    <3>2. CASE CheckCooldown(q) \/ FindWorkspace(q)
      BY <1>5, <3>2 DEF CheckCooldown, FindWorkspace, Goto, TypeOK, CreateReq, SerialOf
    <3>3. CASE CheckConflict(q)
      <4>1. c.pc = "conflict" /\ d = [c EXCEPT !.pc = "settings", !.saw.place = nextId]
        BY <1>5, <3>3 DEF CheckConflict, At, TypeOK
      <4>. QED  BY <1>0, <4>1 DEF CreateReq, SerialOf
    <3>4. CASE GetSettings(q)
      <4>1. c.pc = "settings" /\ d = [c EXCEPT !.pc = "count", !.saw.limit = maxActive, !.at = now]
        BY <3>4 DEF GetSettings, At, TypeOK
      <4>2. d.pc = "count" /\ d.workspace = c.workspace /\ d.saw.limit = maxActive
        BY <3>1, <4>1 DEF CreateReq, Seen
      <4>. QED  BY <1>0, <4>1, <4>2 DEF SerialOf
    <3>5. CASE CountActive(q)
      <4>1. c.pc = "count" /\ d = [c EXCEPT !.pc = "userconflict", !.saw.count = nextId]
        BY <1>5, <3>5 DEF CountActive, At, TypeOK
      <4>2. /\ d.pc = "userconflict" /\ d.workspace = c.workspace /\ d.saw.limit = c.saw.limit
            /\ d.saw.count = nextId
        BY <3>1, <4>1 DEF CreateReq, Seen
      <4>. QED  BY <1>0, <4>1, <4>2 DEF SerialOf
    <3>6. CASE CheckUserConflict(q)
      <4>1. c.pc = "userconflict" /\ d = [c EXCEPT !.pc = "insert", !.saw.person = nextId]
        BY <1>5, <3>6 DEF CheckUserConflict, At, TypeOK
      <4>2. /\ d.pc = "insert" /\ d.workspace = c.workspace /\ d.saw.limit = c.saw.limit
            /\ d.saw.count = c.saw.count
        BY <3>1, <4>1 DEF CreateReq, Seen
      <4>. QED  BY <1>0, <4>1, <4>2 DEF SerialOf
    <3>. QED  BY <1>5, <3>2, <3>3, <3>4, <3>5, <3>6
  <2>3. SerialOf(d)'
    BY <2>1, <2>2 DEF SerialOf, db, Rows, Confirmed
  <2>. QED  BY <2>3
<1>6. CASE ~Answer(q) /\ (FindToCancel(q) \/ CancelCooldown(q))
  <2>1. req[q] \in CancelReq
    BY <1>6, KindOfRequest DEF FindToCancel, CancelCooldown, At
  <2>. QED  BY <1>6, <2>1 DEF FindToCancel, CancelCooldown, Goto, TypeOK, CancelReq, SerialOf
<1>7. CASE ~Answer(q) /\ FindForStatus(q)
  <2>1. req[q] \in StatusReq /\ UNCHANGED <<db, now>>
    BY <1>7, KindOfRequest DEF FindForStatus, At
  <2>2. /\ req'[q].pc = "statusUpdate" /\ req'[q].booking = req[q].booking
        /\ bookings[req[q].booking].status = "CONFIRMED"
    BY <1>7, <2>1 DEF FindForStatus, AllowedTransition, Goto, TypeOK, StatusReq
  <2>. QED  BY <2>1, <2>2 DEF SerialOf, Confirmed, db
<1>8. CASE ~Answer(q) /\ DeleteCheck(q)
  <2>1. req[q] \in DeleteReq /\ UNCHANGED <<db, now>>
    BY <1>8, KindOfRequest DEF DeleteCheck, At
  <2>2. req'[q].pc = "deleteRow" /\ req'[q].place = nextId
    BY <1>8, <2>1 DEF DeleteCheck, TypeOK, DeleteReq
  <2>. QED  BY <2>1, <2>2 DEF SerialOf, db
<1>9. CASE Proceed(q)
  <2>1. CreateStep(q) => Answer(q) \/ CheckCooldown(q) \/ FindWorkspace(q) \/ CheckConflict(q)
                         \/ GetSettings(q) \/ CountActive(q) \/ CheckUserConflict(q)
    BY DEF CreateStep, InsertBooking
  <2>2. CancelStep(q) => Answer(q) \/ FindToCancel(q) \/ CancelCooldown(q)
    BY DEF CancelStep, CancelUpdate
  <2>3. StatusStep(q) => Answer(q) \/ FindForStatus(q)
    BY DEF StatusStep, StatusUpdate
  <2>4. DeleteStep(q) => Answer(q) \/ DeleteCheck(q)
    BY DEF DeleteStep, DeleteRow
  <2>5. Sweep(q) => Answer(q)
    BY DEF Sweep
  <2>. QED  BY <1>2, <1>5, <1>6, <1>7, <1>8, <1>9, <2>1, <2>2, <2>3, <2>4, <2>5 DEF Proceed
<1>10. CASE Abort(q)
  BY <1>2, <1>10 DEF Abort
<1>. QED
  BY <1>0, <1>1, <1>3, <1>4, <1>9, <1>10 DEF Next, Tick, vars, db

LEMMA SerialHolds == ASSUME Alone PROVE Spec => [](RaceInv /\ DeleteSaw /\ SerialInv)
<1>1. Init => RaceInv /\ DeleteSaw /\ SerialInv
  BY RaceInvInit DEF Init, SerialInv, SerialOf, DeleteSaw, DeleteSawOf, LatePC
<1>2. RaceInv /\ DeleteSaw /\ SerialInv /\ [Next]_vars => (RaceInv /\ DeleteSaw /\ SerialInv)'
  <2>1. RaceInv /\ RaceInv' => TypeOK /\ TypeOK' /\ StatusTargets
    BY DEF RaceInv
  <2>. QED  BY <2>1, RaceInvInductive, DeleteSawNext, SerialNext
<1>. QED  BY <1>1, <1>2, PTL DEF Spec

\* Deleting a workspace takes no active booking with it when nothing is inserted
\* between the two statements of WorkspaceRepo.Delete.
THEOREM SerialDeletesNothingActive == ASSUME Alone PROVE Spec => NoActiveErased
<1>. DEFINE Sparing == \A i \in Rows : Gone(i) => i \notin ActiveOf(bookings[i].user, now)
            Inv == RaceInv /\ DeleteSaw /\ SerialInv
<1>1. ASSUME Inv, [Next]_vars PROVE Sparing
  <2>0. TypeOK
    BY <1>1 DEF RaceInv
  <2>. SUFFICES ASSUME NEW i \in Rows, i \notin Rows'
                PROVE  i \notin ActiveOf(bookings[i].user, now)
    BY DEF Gone, Rows
  <2>1. PICK r \in Request : DeleteRow(r) /\ bookings[i].workspace = req[r].workspace
    BY <1>1, <2>0, GoneWith
  <2>2. At(r, "deleteRow") /\ DeleteSawOf(req[r]) /\ req[r].place = nextId
    BY <1>1, <2>1 DEF DeleteRow, At, DeleteSaw, SerialInv, SerialOf
  <2>3. i < nextId /\ bookings[i].end \in Nat /\ now \in Nat
    BY <2>0 DEF TypeOK, RepoType, Rows, Row
  <2>4. Confirmed(i) => bookings[i].end <= now
    BY <2>1, <2>2, <2>3 DEF DeleteSawOf, At
  <2>. QED  BY <2>3, <2>4 DEF ActiveOf
<1>2. Inv /\ [Next]_vars => [Sparing]_vars
  BY <1>1
<1>3. Spec => [][Sparing]_vars
  BY <1>2, SerialHolds, PTL DEF Spec
<1>. QED  BY <1>3 DEF NoActiveErased

\* A booking that is completed or cancelled is never completed or cancelled again
\* when no request closes it between the two statements of the status form: the
\* UPDATE itself does not look at the status it replaces.
THEOREM SerialStatusIsFinal == ASSUME Alone PROVE Spec => StatusIsFinal
<1>. DEFINE Final == \A i \in Rows \cap DOMAIN bookings' :
                        Confirmed(i) \/ bookings'[i].status = bookings[i].status
            Inv == RaceInv /\ DeleteSaw /\ SerialInv
<1>1. ASSUME Inv, [Next]_vars PROVE Final
  <2>0. TypeOK /\ StatusTargets
    BY <1>1 DEF RaceInv
  <2>. SUFFICES ASSUME NEW i \in Rows, i \in Rows', ~Confirmed(i)
                PROVE  bookings'[i].status = bookings[i].status
    BY DEF Rows
  <2>1. Fate(i)
    BY <1>1, <2>0, Fates
  <2>2. ASSUME NEW r \in Request, StatusUpdate(r), req[r].booking = i PROVE FALSE
    BY <1>1, <2>2 DEF StatusUpdate, At, SerialInv, SerialOf
  <2>. QED  BY <2>1, <2>2 DEF Fate
<1>2. Inv /\ [Next]_vars => [Final]_vars
  BY <1>1
<1>3. Spec => [][Final]_vars
  BY <1>2, SerialHolds, PTL DEF Spec
<1>. QED  BY <1>3 DEF StatusIsFinal

\* FindWorkspace reads is_available statements before the INSERT: with nothing in
\* between a booking is never made for a workspace that is disabled or gone.
THEOREM SerialBooksEnabled == ASSUME Alone PROVE Spec => NoDisabledBooked
<1>. DEFINE Enabled == \A i \in DOMAIN bookings' \ Rows :
                LET w == bookings'[i].workspace IN w \in DOMAIN available /\ available[w]
            Inv == RaceInv /\ DeleteSaw /\ SerialInv
<1>1. ASSUME Inv, [Next]_vars PROVE Enabled
  <2>. SUFFICES ASSUME NEW i \in Rows', i \notin Rows
                PROVE  /\ bookings'[i].workspace \in DOMAIN available
                       /\ available[bookings'[i].workspace]
    BY DEF Rows
  <2>1. PICK r \in Request : Added(r) /\ i = nextId
    BY <1>1, InsertedBy DEF RaceInv
  <2>2. bookings'[i].workspace = req[r].workspace /\ req[r].pc = "insert"
    BY <2>1 DEF Added, At
  <2>3. SerialOf(req[r])
    BY <1>1 DEF SerialInv
  <2>. QED  BY <2>2, <2>3 DEF SerialOf, LatePC
<1>2. Inv /\ [Next]_vars => [Enabled]_vars
  BY <1>1
<1>3. Spec => [][Enabled]_vars
  BY <1>2, SerialHolds, PTL DEF Spec
<1>. QED  BY <1>3 DEF NoDisabledBooked

\* An added row is one more active booking of its user at most.
LEMMA OneMoreActive ==
    ASSUME TypeOK, NEW r \in Request, Added(r), NEW u
    PROVE  CountActiveByUser(u, now)' <= CountActiveByUser(u, now) + 1
<1>. DEFINE before == ActiveOf(u, now)
<1>1. Rows' = Rows \cup {nextId} /\ now' = now /\ \A i \in Rows : bookings'[i] = bookings[i]
  BY DEF Added
<1>2. ActiveOf(u, now)' \subseteq before \cup {nextId}
  BY <1>1 DEF ActiveOf, Confirmed
<1>3. IsFiniteSet(before)
  BY FiniteRows, FS_Subset DEF ActiveOf
<1>. HIDE DEF before
<1>4. /\ IsFiniteSet(before \cup {nextId}) /\ Cardinality(before) \in Nat
      /\ Cardinality(before \cup {nextId}) <= Cardinality(before) + 1
  BY <1>3, FS_AddElement, FS_CardinalityType
<1>5. /\ Cardinality(ActiveOf(u, now)') <= Cardinality(before \cup {nextId})
      /\ Cardinality(ActiveOf(u, now)') \in Nat /\ Cardinality(before \cup {nextId}) \in Nat
  BY <1>2, <1>4, FS_Subset, FS_CardinalityType
<1>6. Cardinality(ActiveOf(u, now)') <= Cardinality(before) + 1
  BY <1>4, <1>5
<1>. QED  BY <1>6 DEF CountActiveByUser, before

\* CountActive compares with a limit read before it and the INSERT comes two
\* statements later: with nothing in between no booking takes its user over the
\* limit in force.
THEOREM SerialLimitHolds == ASSUME Alone PROVE Spec => LimitHolds
<1>. DEFINE Held == \A u \in User :
                       (\E i \in DOMAIN bookings' \ Rows : bookings'[i].user = u)
                       => CountActiveByUser(u, now)' <= maxActive
            Inv == RaceInv /\ DeleteSaw /\ SerialInv
<1>1. ASSUME Inv, [Next]_vars PROVE Held
  <2>0. TypeOK /\ StatusTargets /\ RequestSaw
    BY <1>1 DEF RaceInv
  <2>. SUFFICES ASSUME NEW u \in User, NEW i \in Rows', i \notin Rows, bookings'[i].user = u
                PROVE  CountActiveByUser(u, now)' <= maxActive
    BY DEF Rows
  <2>1. PICK r \in Request : Added(r) /\ i = nextId
    BY <1>1, <2>0, InsertedBy
  <2>2. req[r].user = u /\ req[r].pc = "insert" /\ req[r] \in CreateReq
    BY <2>1 DEF Added, At
  <2>3. /\ SawOf(req[r]) /\ SerialOf(req[r])
        /\ maxActive \in Nat
    BY <1>1, <2>0, SawOfRequests, LimitAssumption DEF SerialInv, TypeOK
  <2>4. Cardinality({a \in ActiveOf(u, now) : a < nextId}) < maxActive
    BY <2>2, <2>3 DEF SawOf, CountSeen, SerialOf
  <2>5. {a \in ActiveOf(u, now) : a < nextId} = ActiveOf(u, now)
    BY <2>0 DEF ActiveOf, TypeOK, RepoType, Rows
  <2>6. CountActiveByUser(u, now) < maxActive
    BY <2>4, <2>5 DEF CountActiveByUser
  <2>7. CountActiveByUser(u, now)' <= CountActiveByUser(u, now) + 1
    BY <2>0, <2>1, OneMoreActive
  <2>8. CountActiveByUser(u, now) \in Nat /\ CountActiveByUser(u, now)' \in Nat
    <3>1. IsFiniteSet(Rows)
      BY <2>0, FiniteRows
    <3>2. IsFiniteSet(Rows')
      BY <2>1, <3>1, FS_AddElement DEF Added
    <3>. QED  BY <3>1, <3>2, FS_Subset, FS_CardinalityType DEF CountActiveByUser, ActiveOf
  <2>. HIDE DEF CountActiveByUser
  <2>. QED  BY <2>3, <2>6, <2>7, <2>8
<1>2. Inv /\ [Next]_vars => [Held]_vars
  BY <1>1
<1>3. Spec => [][Held]_vars
  BY <1>2, SerialHolds, PTL DEF Spec
<1>. QED  BY <1>3 DEF LimitHolds
=============================================================================
