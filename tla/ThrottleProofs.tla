--------------------------- MODULE ThrottleProofs ---------------------------
(***************************************************************************)
(* Theorems about the cancellation throttle, for any window and block, any *)
(* number of requests in progress and any history of cancellations.        *)
(***************************************************************************)
EXTENDS StepProofs, WellFoundedInduction

-----------------------------------------------------------------------------
(* Least and greatest *)

LEMMA LeastNat ==
    ASSUME NEW T \in SUBSET Nat, T # {}
    PROVE  \E x \in T : \A y \in T : x <= y
<1>. DEFINE lt == {ss \in Nat \X Nat : ss[1] < ss[2]}
<1>1. IsWellFoundedOn(lt, Nat)
  BY NatLessThanWellFounded, Zenon DEF OpToRel
<1>2. \A x, y \in T : <<y, x>> \notin lt => x <= y
  OBVIOUS
<1>. HIDE DEF lt
<1>3. \E x \in T : \A y \in T : ~(<<y, x>> \in lt)
  BY <1>1, WFMin
<1>. QED  BY <1>2, <1>3

LEMMA GreatestNat ==
    ASSUME NEW n \in Nat, NEW T \in SUBSET (0 .. n), T # {}
    PROVE  \E x \in T : \A y \in T : x >= y
<1>. DEFINE U == {n - x : x \in T}
<1>1. U \in SUBSET Nat /\ U # {}
  <2>1. \A x \in T : n - x \in Nat
    OBVIOUS
  <2>. QED  BY <2>1
<1>2. PICK d \in U : \A y \in U : d <= y
  <2>. HIDE DEF U
  <2>. QED  BY <1>1, LeastNat
<1>3. PICK x \in T : d = n - x
  OBVIOUS
<1>4. ASSUME NEW y \in T PROVE x >= y
  <2>1. n - y \in U
    OBVIOUS
  <2>2. n - x <= n - y
    BY <1>2, <1>3, <2>1
  <2>. QED  BY <2>2
<1>. QED  BY <1>4

LEMMA MinOfNats ==
    ASSUME NEW T \in SUBSET Nat, T # {}
    PROVE  Min(T) \in T /\ \A y \in T : Min(T) <= y
BY LeastNat DEF Min

LEMMA MaxOfNats ==
    ASSUME NEW n \in Nat, NEW T \in SUBSET (0 .. n), T # {}
    PROVE  Max(T) \in T /\ \A y \in T : Max(T) >= y
BY GreatestNat DEF Max

-----------------------------------------------------------------------------
(* What CooldownUntil computes *)

at(i) == bookings[i].cancelledAt

\* What CooldownUntil relies on in the table.
Dated == TypeOK /\ CancellationTimed

LEMMA ThreeDistinct ==
    ASSUME NEW a, NEW b, NEW d, a # b, a # d, b # d
    PROVE  Cardinality({a, b, d}) = 3
<1>1. IsFiniteSet({}) /\ Cardinality({}) = 0
  BY FS_EmptySet
<1>2. IsFiniteSet({a}) /\ Cardinality({a}) = 1
  <2>1. IsFiniteSet({} \cup {a}) /\ Cardinality({} \cup {a}) = 0 + 1
    BY <1>1, FS_AddElement
  <2>2. {a} = {} \cup {a}
    OBVIOUS
  <2>. QED  BY <2>1, <2>2
<1>3. IsFiniteSet({a, b}) /\ Cardinality({a, b}) = 2
  <2>1. IsFiniteSet({a} \cup {b}) /\ Cardinality({a} \cup {b}) = 1 + 1
    BY <1>2, FS_AddElement
  <2>2. {a, b} = {a} \cup {b}
    OBVIOUS
  <2>. QED  BY <2>1, <2>2
<1>4. Cardinality({a, b} \cup {d}) = 2 + 1
  BY <1>3, FS_AddElement
<1>5. {a, b, d} = {a, b} \cup {d}
  OBVIOUS
<1>. QED  BY <1>4, <1>5

\* A finite set of at least three elements has a part with three.
LEMMA ThreeOf ==
    ASSUME NEW S, IsFiniteSet(S), Cardinality(S) >= 3
    PROVE  \E T \in SUBSET S : Cardinality(T) = 3
<1>0. Cardinality({}) = 0 /\ Cardinality(S) \in Nat
  BY FS_EmptySet, FS_CardinalityType
<1>1. PICK a : a \in S
  BY <1>0
<1>2. IsFiniteSet(S \ {a}) /\ Cardinality(S \ {a}) = Cardinality(S) - 1
  BY <1>1, FS_RemoveElement
<1>3. PICK b : b \in S \ {a}
  BY <1>0, <1>2
<1>4. Cardinality((S \ {a}) \ {b}) = Cardinality(S \ {a}) - 1
  BY <1>2, <1>3, FS_RemoveElement
<1>5. PICK d : d \in (S \ {a}) \ {b}
  BY <1>0, <1>2, <1>4
<1>6. Cardinality({a, b, d}) = 3
  BY <1>3, <1>5, ThreeDistinct
<1>. QED  BY <1>1, <1>3, <1>5, <1>6

\* Of any set with three cancellations there are three that no other is later than.
LEMMA LatestThreeExist ==
    ASSUME Dated, NEW u, NEW R \in SUBSET CancelledByUser(u), Cardinality(R) >= 3
    PROVE  /\ LatestThree(R) \in kSubset(3, R)
           /\ \A i \in LatestThree(R), j \in R \ LatestThree(R) : at(i) >= at(j)
<1>1. IsFiniteSet(R)
  BY FiniteRows, FS_Subset DEF Dated, CancelledByUser
<1>2. now \in Nat /\ \A i \in R : at(i) \in 0 .. now
  BY DEF Dated, TypeOK, RepoType, Row, Rows, CancellationTimed, CancelledByUser, at
<1>3. ASSUME NEW X \in SUBSET R, X # {}
      PROVE  \E i \in X : \A j \in X : at(i) >= at(j)
  <2>. DEFINE T == {at(i) : i \in X}
  <2>1. T \in SUBSET (0 .. now) /\ T # {}
    BY <1>2, <1>3
  <2>2. PICK x \in T : \A y \in T : x >= y
    <3>. HIDE DEF T
    <3>. QED  BY <1>2, <2>1, GreatestNat
  <2>. QED  BY <2>2
<1>4. /\ Cardinality(R) \in Nat
      /\ \A x : /\ IsFiniteSet(R \ {x})
                /\ Cardinality(R \ {x}) = IF x \in R THEN Cardinality(R) - 1 ELSE Cardinality(R)
  BY <1>1, FS_RemoveElement, FS_CardinalityType
<1>5. R # {}
  BY FS_EmptySet
<1>6. PICK a \in R : \A j \in R : at(a) >= at(j)
  BY <1>3, <1>5
<1>7. IsFiniteSet(R \ {a}) /\ Cardinality(R \ {a}) >= 2 /\ R \ {a} # {}
  <2>1. IsFiniteSet(R \ {a}) /\ Cardinality(R \ {a}) >= 2
    BY <1>4
  <2>. QED  BY <2>1, FS_EmptySet
<1>8. PICK b \in R \ {a} : \A j \in R \ {a} : at(b) >= at(j)
  BY <1>3, <1>7
<1>9. R \ {a, b} # {}
  <2>1. Cardinality((R \ {a}) \ {b}) = Cardinality(R \ {a}) - 1
    BY <1>7, FS_RemoveElement
  <2>2. Cardinality(R \ {a}) \in Nat
    BY <1>7, FS_CardinalityType
  <2>3. (R \ {a}) \ {b} # {}
    <3>1. Cardinality((R \ {a}) \ {b}) # 0
      BY <1>7, <2>1, <2>2
    <3>2. Cardinality({}) = 0
      BY FS_EmptySet
    <3>. QED  BY <3>1, <3>2
  <2>. QED  BY <2>3
<1>10. PICK d \in R \ {a, b} : \A j \in R \ {a, b} : at(d) >= at(j)
  BY <1>3, <1>9
<1>11. Cardinality({a, b, d}) = 3
  BY ThreeDistinct
<1>12. {a, b, d} \in kSubset(3, R)
  BY <1>11 DEF kSubset
<1>13. \A i \in {a, b, d}, j \in R \ {a, b, d} : at(i) >= at(j)
  BY <1>6, <1>8, <1>10
<1>14. \E T \in kSubset(3, R) : \A i \in T, j \in R \ T :
            bookings[i].cancelledAt >= bookings[j].cancelledAt
  BY <1>12, <1>13 DEF at
<1>. QED  BY <1>14 DEF LatestThree, at

LEMMA RecentOnes ==
    ASSUME Dated, NEW u, NEW t \in Nat
    PROVE  /\ Recent(u, t) \subseteq CancelledByUser(u)
           /\ IsFiniteSet(Recent(u, t))
           /\ \A i \in CancelledByUser(u) :
                 at(i) \in Nat /\ (at(i) + CancelBlock > t => i \in Recent(u, t))
<1>1. Recent(u, t) \subseteq CancelledByUser(u)
  BY DEF Recent, CancelledByUser
<1>2. IsFiniteSet(Recent(u, t))
  BY FiniteRows, FS_Subset DEF Dated, Recent
<1>3. ASSUME NEW i \in CancelledByUser(u) PROVE at(i) \in Nat
  BY DEF Dated, TypeOK, RepoType, Row, Rows, CancellationTimed, CancelledByUser, at
<1>4. ASSUME NEW i \in CancelledByUser(u), at(i) + CancelBlock > t PROVE i \in Recent(u, t)
  <2>1. at(i) >= t - CancelWindow
    BY <1>3, <1>4, CancelAssumption
  <2>2. at(i) # Null
    BY <1>3, NullAssumption
  <2>. QED  BY <2>1, <2>2 DEF Recent, CancelledByUser, at
<1>. QED  BY <1>1, <1>2, <1>3, <1>4

\* A block is three cancellations that are all less than CancelBlock old, and it
\* ends when the third latest is not: m is its time.
LEMMA CooldownEnds ==
    ASSUME Dated, NEW u, NEW t \in Nat, InCooldown(u, t)
    PROVE  \E m \in Nat :
              /\ CooldownUntil(u, t) = m + CancelBlock
              /\ m + CancelBlock > t
              /\ \E T \in kSubset(3, CancelledByUser(u)) : \A i \in T : at(i) >= m
              /\ \A T \in kSubset(3, CancelledByUser(u)) : \E i \in T : at(i) <= m
<1>. DEFINE R == Recent(u, t)
            L == LatestThree(R)
            times == {bookings[i].cancelledAt : i \in L}
            m == Min(times)
<1>1. Cardinality(R) >= 3
  <2>1. Cardinality(R) \in Nat
    BY RecentOnes, FS_CardinalityType
  <2>2. ~(Cardinality(R) < 3)
    BY DEF InCooldown, CooldownUntil
  <2>. QED  BY <2>1, <2>2
<1>2. CooldownUntil(u, t) = m + CancelBlock /\ m + CancelBlock > t
  BY <1>1 DEF InCooldown, CooldownUntil
<1>3. L \in kSubset(3, R) /\ \A i \in L, j \in R \ L : at(i) >= at(j)
  BY <1>1, RecentOnes, LatestThreeExist
<1>. HIDE DEF L
<1>4. L \subseteq R /\ Cardinality(L) = 3
  BY <1>3 DEF kSubset
<1>5. L # {}
  BY <1>4, FS_EmptySet
<1>6. R \subseteq CancelledByUser(u) /\ \A i \in R : at(i) \in Nat
  BY RecentOnes
<1>7. times \in SUBSET Nat /\ times # {}
  BY <1>4, <1>5, <1>6 DEF at
<1>8. m \in times /\ \A y \in times : m <= y
  <2>. HIDE DEF times
  <2>. QED  BY <1>7, MinOfNats
<1>9. m \in Nat /\ \A i \in L : at(i) >= m
  BY <1>4, <1>6, <1>7, <1>8 DEF at
<1>10. PICK k \in L : at(k) = m
  BY <1>8 DEF at
<1>. HIDE DEF m
<1>11. L \in kSubset(3, CancelledByUser(u))
  BY <1>4, <1>6 DEF kSubset
<1>12. ASSUME NEW T \in kSubset(3, CancelledByUser(u)) PROVE \E i \in T : at(i) <= m
  <2>1. T \subseteq CancelledByUser(u) /\ Cardinality(T) = 3
    BY DEF kSubset
  <2>2. SUFFICES ASSUME \A i \in T : ~(at(i) <= m)
                 PROVE  FALSE
    OBVIOUS
  <2>3. \A i \in T : at(i) \in Nat /\ at(i) > m
    BY <1>9, <2>1, <2>2, RecentOnes
  <2>4. \A i \in T : at(i) + CancelBlock > t
    BY <1>2, <1>9, <2>3, CancelAssumption
  <2>5. T \subseteq R
    BY <2>1, <2>4, RecentOnes
  <2>6. CASE T \subseteq L
    <3>1. IsFiniteSet(L)
      BY <1>4, RecentOnes, FS_Subset
    <3>2. T = L
      BY <1>4, <2>1, <2>6, <3>1, FS_Subset
    <3>. QED  BY <1>9, <1>10, <2>3, <3>2
  <2>7. ASSUME NEW j \in T, j \notin L PROVE FALSE
    <3>1. at(k) >= at(j)
      BY <1>3, <2>5, <2>7
    <3>. QED  BY <1>9, <1>10, <2>3, <3>1
  <2>. QED  BY <2>6, <2>7
<1>. QED  BY <1>2, <1>9, <1>11, <1>12

\* InCooldown without the window: the look-back of 24 hours never hides a
\* cancellation that is less than 12 hours old.
LEMMA CooldownMeans ==
    ASSUME Dated, NEW u, NEW t \in Nat
    PROVE  InCooldown(u, t) <=> \E T \in kSubset(3, CancelledByUser(u)) :
                                   \A i \in T : at(i) + CancelBlock > t
<1>1. ASSUME InCooldown(u, t)
      PROVE  \E T \in kSubset(3, CancelledByUser(u)) : \A i \in T : at(i) + CancelBlock > t
  <2>1. PICK m \in Nat : /\ m + CancelBlock > t
                         /\ \E T \in kSubset(3, CancelledByUser(u)) : \A i \in T : at(i) >= m
    BY <1>1, CooldownEnds
  <2>2. PICK T \in kSubset(3, CancelledByUser(u)) : \A i \in T : at(i) >= m
    BY <2>1
  <2>3. \A i \in T : at(i) \in Nat
    BY RecentOnes DEF kSubset
  <2>. QED  BY <2>1, <2>2, <2>3, CancelAssumption
<1>2. ASSUME NEW T \in kSubset(3, CancelledByUser(u)), \A i \in T : at(i) + CancelBlock > t
      PROVE  InCooldown(u, t)
  <2>. DEFINE R == Recent(u, t)
              L == LatestThree(R)
              times == {bookings[i].cancelledAt : i \in L}
              m == Min(times)
  <2>1. T \subseteq R /\ Cardinality(T) = 3 /\ R \subseteq CancelledByUser(u)
    BY <1>2, RecentOnes DEF kSubset
  <2>2. Cardinality(R) >= 3 /\ Cardinality(R) \in Nat /\ IsFiniteSet(R)
    BY <2>1, RecentOnes, FS_Subset, FS_CardinalityType
  <2>3. L \in kSubset(3, R) /\ \A i \in L, j \in R \ L : at(i) >= at(j)
    BY <2>1, <2>2, LatestThreeExist
  <2>. HIDE DEF L
  <2>4. L \subseteq R /\ Cardinality(L) = 3 /\ L # {}
    BY <2>3, FS_EmptySet DEF kSubset
  <2>5. \A i \in R : at(i) \in Nat
    BY <2>1, RecentOnes
  <2>6. times \in SUBSET Nat /\ times # {}
    BY <2>4, <2>5 DEF at
  <2>7. m \in times /\ m \in Nat
    <3>. HIDE DEF times
    <3>. QED  BY <2>6, MinOfNats
  <2>8. PICK k \in L : at(k) = m
    BY <2>7 DEF at
  <2>. HIDE DEF m
  <2>9. m + CancelBlock > t
    <3>1. CASE T \subseteq L
      <4>1. T = L
        BY <2>1, <2>2, <2>4, <3>1, FS_Subset
      <4>. QED  BY <1>2, <2>8, <4>1
    <3>2. ASSUME NEW j \in T, j \notin L PROVE m + CancelBlock > t
      <4>1. at(k) >= at(j) /\ at(j) + CancelBlock > t /\ at(j) \in Nat
        BY <1>2, <2>1, <2>3, <2>5, <3>2
      <4>. QED  BY <2>7, <2>8, <4>1, CancelAssumption
    <3>. QED  BY <3>1, <3>2
  <2>10. CooldownUntil(u, t) = m + CancelBlock
    BY <2>2, <2>9 DEF CooldownUntil, m, L
  <2>11. m + CancelBlock # 0
    BY <2>7, <2>9, CancelAssumption
  <2>. QED  BY <2>10, <2>11 DEF InCooldown
<1>. QED  BY <1>1, <1>2

-----------------------------------------------------------------------------
(* The fourth cancellation *)

\* The requests that have passed CooldownUntil and are about to cancel.
Passed(u) == {r \in Request : At(r, "cancelUpdate") /\ req[r].user = u}

\* A cancellation in progress is of a booking its user owned when it was read,
\* and the clock it compares with is not ahead.
CancelOwnerOf(c) ==
    /\ c.pc \in {"cancelFind", "cancelCooldown", "cancelUpdate"} => c.booking < nextId
    /\ c.pc \in {"cancelCooldown", "cancelUpdate"} =>
          /\ c.at <= now
          /\ c.booking \in Rows => bookings[c.booking].user = c.user

CancelOwner == \A r \in Request : CancelOwnerOf(req[r])

\* Of cancellations that lie within one block there are never more than two and
\* one for each request; while the block they begin lasts, the requests that
\* have passed the throttle and will still cancel are counted with them.
FewWithin(u) ==
    \A S \in SUBSET CancelledByUser(u) :
        /\ (\A i, j \in S : at(i) < at(j) + CancelBlock) => Cardinality(S) <= 2 + Cardinality(Request)
        /\ (\A i \in S : now < at(i) + CancelBlock) =>
              Cardinality(S) + Cardinality(Passed(u)) <= 2 + Cardinality(Request)

ThrottleInv == CancelOwner /\ \A u \in User : FewWithin(u)

\* How a request gets to the statements of a cancellation.
LEMMA CancelMove ==
    ASSUME TypeOK, [Next]_vars, NEW q \in Request,
           req'[q].pc \in {"cancelFind", "cancelCooldown", "cancelUpdate"}
    PROVE  \/ req'[q] = req[q]
           \/ \E u \in User, id \in KnownId : BeginCancel(q, u, id)
           \/ FindToCancel(q) /\ ~Answer(q)
           \/ CancelCooldown(q) /\ ~Answer(q)
<1>. SUFFICES ASSUME req'[q] # req[q]
              PROVE  \/ \E u \in User, id \in KnownId : BeginCancel(q, u, id)
                     \/ FindToCancel(q) /\ ~Answer(q)
                     \/ CancelCooldown(q) /\ ~Answer(q)
  OBVIOUS
<1>1. ~Answer(q)
  BY AnswerMoves
<1>2. CASE Submit(q)
  BY <1>2 DEF Submit, BeginCreate, BeginStatus, BeginDelete, BeginVisit, Begin, TypeOK
<1>3. CASE Proceed(q)
  <2>1. ASSUME CreateStep(q) PROVE FALSE
    <3>1. req[q] \in CreateReq
      BY <2>1, KindOfRequest
      DEF CreateStep, CheckCooldown, FindWorkspace, CheckConflict, GetSettings, CountActive,
          CheckUserConflict, InsertBooking, At, CreatePC
    <3>. QED
      BY <1>1, <2>1, <3>1
      DEF CreateStep, CheckCooldown, FindWorkspace, CheckConflict, GetSettings, CountActive,
          CheckUserConflict, InsertBooking, Goto, TypeOK, CreateReq
  <2>2. ASSUME DeleteStep(q) PROVE FALSE
    <3>1. req[q] \in DeleteReq
      BY <2>2, KindOfRequest DEF DeleteStep, DeleteCheck, DeleteRow, At
    <3>. QED
      BY <1>1, <2>2, <3>1 DEF DeleteStep, DeleteCheck, DeleteRow, TypeOK, DeleteReq
  <2>3. ASSUME StatusStep(q) PROVE FALSE
    <3>1. req[q] \in StatusReq
      BY <2>3, KindOfRequest DEF StatusStep, FindForStatus, StatusUpdate, At
    <3>. QED
      BY <1>1, <2>3, <3>1 DEF StatusStep, FindForStatus, StatusUpdate, Goto, TypeOK, StatusReq
  <2>. QED  BY <1>1, <1>3, <2>1, <2>2, <2>3 DEF Proceed, CancelStep, CancelUpdate, Sweep
<1>. QED  BY <1>1, <1>2, <1>3, OwnStep DEF Abort

\* A row keeps its user and its number, whatever happens to it.
LEMMA CancelOwnerStays ==
    ASSUME TypeOK, TypeOK', RowStep, NEW c \in CancelReq, CancelOwnerOf(c)
    PROVE  CancelOwnerOf(c)'
<1>1. /\ c.at \in Nat /\ c.booking \in Nat /\ now \in Nat /\ now' \in Nat /\ now' >= now
      /\ nextId \in Nat /\ nextId' \in Nat /\ nextId' >= nextId
  BY OldRows DEF CancelReq, TypeOK, RepoType, RowStep
<1>2. ASSUME c.booking < nextId, c.booking \in Rows'
      PROVE  c.booking \in Rows /\ Kept(c.booking)
  BY <1>2, OldRows
<1>3. c.pc \in {"cancelFind", "cancelCooldown", "cancelUpdate"} => c.booking < nextId
  BY DEF CancelOwnerOf
<1>4. ASSUME c.pc \in {"cancelCooldown", "cancelUpdate"}
      PROVE  c.at <= now' /\ (c.booking \in Rows' => bookings'[c.booking].user = c.user)
  BY <1>1, <1>2, <1>3, <1>4 DEF CancelOwnerOf, Kept
<1>. QED  BY <1>1, <1>3, <1>4 DEF CancelOwnerOf

LEMMA CancelOwnerNext ==
    ASSUME TypeOK, TypeOK', StatusTargets, CancelOwner, [Next]_vars
    PROVE  CancelOwner'
<1>0. RowStep /\ now \in Nat /\ nextId \in Nat
  BY StepShape DEF TypeOK, RepoType
<1>. SUFFICES ASSUME NEW q \in Request PROVE CancelOwnerOf(req[q])'
  BY DEF CancelOwner
<1>1. CancelOwnerOf(req[q])
  BY DEF CancelOwner
<1>2. CASE req'[q].pc \notin {"cancelFind", "cancelCooldown", "cancelUpdate"}
  BY <1>2 DEF CancelOwnerOf
<1>3. CASE req'[q] = req[q] /\ req[q].pc \in {"cancelFind", "cancelCooldown", "cancelUpdate"}
  <2>. PICK c \in CancelReq : c = req[q]
    BY <1>3, KindOfRequest
  <2>1. CancelOwnerOf(c)'
    BY <1>0, <1>1, CancelOwnerStays
  <2>. QED  BY <1>3, <2>1
<1>4. ASSUME NEW u \in User, NEW id \in KnownId, BeginCancel(q, u, id) PROVE CancelOwnerOf(req[q])'
  <2>1. req'[q] = [pc |-> "cancelFind", user |-> u, booking |-> id, at |-> 0] /\ nextId' = nextId
    BY <1>4 DEF BeginCancel, Begin, TypeOK, db
  <2>. QED  BY <1>0, <2>1 DEF CancelOwnerOf, KnownId
<1>5. CASE FindToCancel(q) /\ ~Answer(q)
  <2>. PICK c \in CancelReq : c = req[q]
    BY <1>5, KindOfRequest DEF FindToCancel, At
  <2>1. /\ c.booking \in Rows /\ bookings[c.booking].user = c.user /\ UNCHANGED <<db, now>>
        /\ req'[q] = [c EXCEPT !.pc = "cancelCooldown", !.at = now] /\ c.pc = "cancelFind"
    BY <1>5 DEF FindToCancel, At, TypeOK
  <2>2. /\ req'[q].pc = "cancelCooldown" /\ req'[q].at = now /\ req'[q].booking = c.booking
        /\ req'[q].user = c.user
    BY <2>1 DEF CancelReq
  <2>. QED  BY <1>0, <1>1, <2>1, <2>2 DEF CancelOwnerOf, db
<1>6. CASE CancelCooldown(q) /\ ~Answer(q)
  <2>. PICK c \in CancelReq : c = req[q]
    BY <1>6, KindOfRequest DEF CancelCooldown, At
  <2>1. UNCHANGED <<db, now>> /\ req'[q] = [c EXCEPT !.pc = "cancelUpdate"] /\ c.pc = "cancelCooldown"
    BY <1>6 DEF CancelCooldown, Goto, At, TypeOK
  <2>2. /\ req'[q].pc = "cancelUpdate" /\ req'[q].at = c.at /\ req'[q].booking = c.booking
        /\ req'[q].user = c.user
    BY <2>1 DEF CancelReq
  <2>. QED  BY <1>0, <1>1, <2>1, <2>2 DEF CancelOwnerOf, db, Rows
<1>. QED  BY <1>2, <1>3, <1>4, <1>5, <1>6, CancelMove

\* A row is cancelled by its user by one statement only; any other step leaves
\* the cancellations of a user as they are, or fewer.
Cancels(r, i) ==
    /\ CancelUpdate(r) /\ req[r].booking = i
    /\ i \in Rows /\ Confirmed(i)

LEMMA CancelledRows ==
    ASSUME TypeOK, StatusTargets, [Next]_vars, NEW u, NEW i \in CancelledByUser(u)'
    PROVE  \/ i \in CancelledByUser(u) /\ at(i)' = at(i)
           \/ \E r \in Request : Cancels(r, i) /\ at(i)' = now
<1>1. i \in Rows' /\ bookings'[i].user = u /\ bookings'[i].status = "CANCELLED_BY_USER"
  BY DEF CancelledByUser
<1>2. RowStep
  BY StepShape
<1>3. i \in Rows
  <2>1. ASSUME NEW r \in Request, Added(r), i = nextId PROVE FALSE
    BY <1>1, <2>1 DEF Added
  <2>. QED  BY <1>1, <1>2, <2>1 DEF RowStep, Erased, Added
<1>4. Kept(i) /\ bookings[i] \in Row
  BY <1>1, <1>2, <1>3 DEF RowStep, TypeOK, RepoType, Rows
<1>5. Fate(i)
  BY <1>1, <1>3, Fates
<1>6. CASE bookings'[i] = bookings[i]
  BY <1>1, <1>3, <1>6 DEF CancelledByUser, at
<1>7. CASE /\ \E r \in Request : CancelUpdate(r) /\ req[r].booking = i
           /\ Confirmed(i)
           /\ bookings'[i] = [bookings[i] EXCEPT !.status = "CANCELLED_BY_USER", !.cancelledAt = now]
  BY <1>3, <1>4, <1>7 DEF Cancels, at, Row
<1>. QED  BY <1>1, <1>4, <1>5, <1>6, <1>7 DEF Fate, Row

LEMMA PassedMove ==
    ASSUME TypeOK, [Next]_vars, NEW u, NEW q \in Passed(u)'
    PROVE  q \in Passed(u) \/ (CancelCooldown(q) /\ ~Answer(q) /\ req[q].user = u)
<1>1. q \in Request /\ req'[q].pc = "cancelUpdate" /\ req'[q].user = u
  BY DEF Passed, At
<1>2. CASE req'[q] = req[q]
  BY <1>1, <1>2 DEF Passed, At
<1>3. CASE \E v \in User, id \in KnownId : BeginCancel(q, v, id)
  BY <1>1, <1>3 DEF BeginCancel, Begin, TypeOK
<1>4. CASE FindToCancel(q) /\ ~Answer(q)
  <2>1. req[q] \in CancelReq
    BY <1>1, <1>4, KindOfRequest DEF FindToCancel, At
  <2>. QED  BY <1>1, <1>4, <2>1 DEF FindToCancel, TypeOK, CancelReq
<1>5. CASE CancelCooldown(q) /\ ~Answer(q)
  <2>1. req[q] \in CancelReq
    BY <1>1, <1>5, KindOfRequest DEF CancelCooldown, At
  <2>. QED  BY <1>1, <1>5, <2>1 DEF CancelCooldown, Goto, TypeOK, CancelReq
<1>. QED  BY <1>1, <1>2, <1>3, <1>4, <1>5, CancelMove

LEMMA CancelledFinite ==
    ASSUME Dated, NEW u, NEW S \in SUBSET CancelledByUser(u)
    PROVE  /\ IsFiniteSet(S) /\ Cardinality(S) \in Nat
           /\ \A i \in S : at(i) \in Nat /\ at(i) <= now
<1>1. IsFiniteSet(S)
  BY FiniteRows, FS_Subset DEF Dated, CancelledByUser
<1>2. \A i \in S : at(i) \in Nat /\ at(i) <= now
  BY DEF Dated, TypeOK, RepoType, Row, Rows, CancellationTimed, CancelledByUser, at
<1>. QED  BY <1>1, <1>2, FS_CardinalityType

LEMMA PassedFinite ==
    ASSUME IsFiniteSet(Request), NEW P \in SUBSET Request
    PROVE  /\ IsFiniteSet(P) /\ Cardinality(P) \in Nat /\ Cardinality(Request) \in Nat
           /\ Cardinality(P) <= Cardinality(Request)
BY FS_Subset, FS_CardinalityType

\* A step that lets nobody through and cancels nothing.
LEMMA FewWithinStays ==
    ASSUME IsFiniteSet(Request), Dated, TypeOK', NEW u, FewWithin(u), now' >= now,
           \A i \in CancelledByUser(u)' : i \in CancelledByUser(u) /\ at(i)' = at(i),
           Passed(u)' \subseteq Passed(u)
    PROVE  FewWithin(u)'
<1>. SUFFICES ASSUME NEW S \in SUBSET CancelledByUser(u)'
              PROVE  /\ (\A i, j \in S : at(i)' < at(j)' + CancelBlock)
                            => Cardinality(S) <= 2 + Cardinality(Request)
                     /\ (\A i \in S : now' < at(i)' + CancelBlock)
                            => Cardinality(S) + Cardinality(Passed(u)') <= 2 + Cardinality(Request)
  BY DEF FewWithin
<1>1. S \in SUBSET CancelledByUser(u) /\ \A i \in S : at(i)' = at(i)
  OBVIOUS
<1>2. Cardinality(S) \in Nat /\ now \in Nat /\ now' \in Nat /\ \A i \in S : at(i) \in Nat
  BY <1>1, CancelledFinite DEF Dated, TypeOK
<1>3. Cardinality(Passed(u)') <= Cardinality(Passed(u)) /\ Cardinality(Passed(u)') \in Nat
      /\ Cardinality(Passed(u)) \in Nat /\ Cardinality(Request) \in Nat
  <2>1. Passed(u) \in SUBSET Request
    BY DEF Passed
  <2>2. IsFiniteSet(Passed(u))
    BY <2>1, PassedFinite
  <2>. QED  BY <2>1, <2>2, PassedFinite, FS_Subset, FS_CardinalityType
<1>4. (\A i, j \in S : at(i)' < at(j)' + CancelBlock) => Cardinality(S) <= 2 + Cardinality(Request)
  BY <1>1 DEF FewWithin
<1>5. ASSUME \A i \in S : now' < at(i)' + CancelBlock
      PROVE  Cardinality(S) + Cardinality(Passed(u)') <= 2 + Cardinality(Request)
  <2>1. \A i \in S : now < at(i) + CancelBlock
    BY <1>1, <1>2, <1>5, CancelAssumption
  <2>2. Cardinality(S) + Cardinality(Passed(u)) <= 2 + Cardinality(Request)
    BY <1>1, <2>1 DEF FewWithin
  <2>. QED  BY <1>2, <1>3, <2>2
<1>. QED  BY <1>4, <1>5

\* A request passes CooldownUntil: at most two cancellations can be within the
\* block then, for three of them would have stopped it.
LEMMA FewWithinPasses ==
    ASSUME IsFiniteSet(Request), Dated, TypeOK', CancelOwner, NEW u, FewWithin(u),
           NEW r \in Request, CancelCooldown(r), ~Answer(r), req[r].user = u
    PROVE  FewWithin(u)'
<1>1. UNCHANGED <<db, now>>
  BY DEF CancelCooldown
<1>2. /\ ~InCooldown(u, req[r].at) /\ req[r].at \in Nat /\ req[r].at <= now
      /\ now \in Nat
  BY KindOfRequest DEF CancelCooldown, At, CancelOwner, CancelOwnerOf, CancelReq, Dated, TypeOK
<1>3. CancelledByUser(u)' = CancelledByUser(u) /\ \A i : at(i)' = at(i)
  BY <1>1 DEF db, CancelledByUser, Rows, at
<1>. SUFFICES ASSUME NEW S \in SUBSET CancelledByUser(u)
              PROVE  /\ (\A i, j \in S : at(i) < at(j) + CancelBlock)
                            => Cardinality(S) <= 2 + Cardinality(Request)
                     /\ (\A i \in S : now < at(i) + CancelBlock)
                            => Cardinality(S) + Cardinality(Passed(u)') <= 2 + Cardinality(Request)
  BY <1>1, <1>3 DEF FewWithin
<1>4. (\A i, j \in S : at(i) < at(j) + CancelBlock) => Cardinality(S) <= 2 + Cardinality(Request)
  BY DEF FewWithin
<1>5. ASSUME \A i \in S : now < at(i) + CancelBlock
      PROVE  Cardinality(S) + Cardinality(Passed(u)') <= 2 + Cardinality(Request)
  <2>1. IsFiniteSet(S) /\ Cardinality(S) \in Nat /\ \A i \in S : at(i) \in Nat
    BY CancelledFinite
  <2>2. \A i \in S : at(i) + CancelBlock > req[r].at
    BY <1>2, <1>5, <2>1, CancelAssumption
  <2>3. Cardinality(S) <= 2
    <3>1. SUFFICES ASSUME Cardinality(S) >= 3 PROVE FALSE
      BY <2>1
    <3>2. PICK T \in SUBSET S : Cardinality(T) = 3
      BY <2>1, <3>1, ThreeOf
    <3>3. T \in kSubset(3, CancelledByUser(u))
      BY <3>2 DEF kSubset
    <3>4. InCooldown(u, req[r].at)
      BY <1>2, <2>2, <3>3, CooldownMeans
    <3>. QED  BY <1>2, <3>4
  <2>4. /\ Cardinality(Passed(u)') \in Nat /\ Cardinality(Request) \in Nat
        /\ Cardinality(Passed(u)') <= Cardinality(Request)
    <3>1. Passed(u)' \in SUBSET Request
      BY DEF Passed
    <3>. QED  BY <3>1, PassedFinite
  <2>. QED  BY <2>1, <2>3, <2>4
<1>. QED  BY <1>4, <1>5

\* A cancellation is written: one more row, one fewer request on its way.
LEMMA FewWithinCancels ==
    ASSUME IsFiniteSet(Request), Dated, CancelOwner, NEW u, FewWithin(u),
           NEW r \in Request, NEW i, Cancels(r, i), bookings[i].user = u
    PROVE  FewWithin(u)'
<1>1. /\ RepoType /\ TypeOK /\ now \in Nat /\ now' = now /\ Answer(r) /\ At(r, "cancelUpdate")
      /\ Cancel(i, "CANCELLED_BY_USER", now)
  BY DEF Dated, TypeOK, Cancels, CancelUpdate
<1>2. req[r].user = u /\ i \in Rows /\ Confirmed(i)
  BY <1>1 DEF Cancels, CancelOwner, CancelOwnerOf, At
<1>3. /\ Rows' = Rows
      /\ \A j \in Rows \ {i} : bookings'[j] = bookings[j]
      /\ bookings'[i] = [bookings[i] EXCEPT !.status = "CANCELLED_BY_USER", !.cancelledAt = now]
  BY <1>1, <1>2, CancelRow DEF Status
<1>4. at(i)' = now
  BY <1>1, <1>2, <1>3 DEF at, RepoType, Rows, Row
<1>5. \A j \in CancelledByUser(u)' \ {i} : j \in CancelledByUser(u) /\ at(j)' = at(j)
  BY <1>3 DEF CancelledByUser, at
<1>6. r \in Passed(u) /\ Passed(u)' \subseteq Passed(u) \ {r}
  <2>1. req'[r] = [pc |-> "idle"] /\ \A q \in Request \ {r} : req'[q] = req[q]
    BY <1>1, AnswerMoves
  <2>2. ASSUME NEW q \in Passed(u)' PROVE q \in Passed(u) \ {r}
    <3>1. q \in Request /\ req'[q].pc = "cancelUpdate" /\ req'[q].user = u
      BY DEF Passed, At
    <3>. QED  BY <2>1, <3>1 DEF Passed, At
  <2>. QED  BY <1>1, <1>2, <2>2 DEF Passed
<1>. DEFINE n  == Cardinality(Request)
            p  == Cardinality(Passed(u))
            p2 == Cardinality(Passed(u)')
<1>7. n \in Nat /\ p \in Nat /\ p2 \in Nat /\ p2 + 1 <= p
  <2>1. Passed(u) \in SUBSET Request
    BY DEF Passed
  <2>2. IsFiniteSet(Passed(u)) /\ p \in Nat /\ n \in Nat
    BY <2>1, PassedFinite
  <2>3. IsFiniteSet(Passed(u) \ {r}) /\ Cardinality(Passed(u) \ {r}) = p - 1
    BY <1>6, <2>2, FS_RemoveElement
  <2>4. p2 <= Cardinality(Passed(u) \ {r}) /\ p2 \in Nat
    BY <1>6, <2>3, FS_Subset, FS_CardinalityType
  <2>. QED  BY <2>2, <2>3, <2>4
<1>. HIDE DEF n, p, p2
<1>. SUFFICES ASSUME NEW S \in SUBSET CancelledByUser(u)'
              PROVE  /\ (\A k, j \in S : at(k)' < at(j)' + CancelBlock) => Cardinality(S) <= 2 + n
                     /\ (\A k \in S : now' < at(k)' + CancelBlock) => Cardinality(S) + p2 <= 2 + n
  BY DEF FewWithin, n, p2
<1>8. /\ \A X \in SUBSET CancelledByUser(u) : IsFiniteSet(X) /\ Cardinality(X) \in Nat
      /\ \A X \in SUBSET CancelledByUser(u) :
            /\ (\A k, j \in X : at(k) < at(j) + CancelBlock) => Cardinality(X) <= 2 + n
            /\ (\A k \in X : now < at(k) + CancelBlock) => Cardinality(X) + p <= 2 + n
  BY CancelledFinite DEF FewWithin, n, p
<1>9. CASE i \notin S
  <2>1. S \in SUBSET CancelledByUser(u) /\ \A j \in S : at(j)' = at(j)
    BY <1>5, <1>9
  <2>. QED  BY <1>1, <1>7, <1>8, <2>1
<1>10. CASE i \in S
  <2>. DEFINE old == S \ {i}
  <2>1. old \in SUBSET CancelledByUser(u) /\ \A j \in old : at(j)' = at(j)
    BY <1>5
  <2>2. IsFiniteSet(old) /\ Cardinality(old) \in Nat
    BY <1>8, <2>1
  <2>3. Cardinality(S) = Cardinality(old) + 1
    <3>1. S = old \cup {i} /\ i \notin old
      BY <1>10
    <3>. HIDE DEF old
    <3>. QED  BY <2>2, <3>1, FS_AddElement
  <2>4. ASSUME \A j \in S : now' < at(j)' + CancelBlock PROVE Cardinality(S) + p2 <= 2 + n
    <3>1. \A j \in old : now < at(j) + CancelBlock
      BY <1>1, <2>1, <2>4
    <3>2. Cardinality(old) + p <= 2 + n
      BY <1>8, <2>1, <3>1
    <3>. HIDE DEF old
    <3>. QED  BY <1>7, <2>2, <2>3, <3>2
  <2>5. ASSUME \A k, j \in S : at(k)' < at(j)' + CancelBlock PROVE Cardinality(S) <= 2 + n
    <3>1. \A j \in S : now' < at(j)' + CancelBlock
      BY <1>1, <1>4, <1>10, <2>5
    <3>2. Cardinality(S) + p2 <= 2 + n
      BY <2>4, <3>1
    <3>. HIDE DEF old
    <3>. QED  BY <1>7, <2>2, <2>3, <3>2
  <2>. QED  BY <2>4, <2>5
<1>. QED  BY <1>9, <1>10

LEMMA FewWithinNext ==
    ASSUME IsFiniteSet(Request), Dated, TypeOK', StatusTargets, CancelOwner, NEW u, FewWithin(u),
           [Next]_vars
    PROVE  FewWithin(u)'
<1>0. TypeOK /\ RowStep /\ now' >= now
  BY StepShape DEF Dated, RowStep
<1>1. ASSUME NEW q \in Passed(u)', q \notin Passed(u) PROVE FewWithin(u)'
  <2>1. q \in Request
    BY DEF Passed
  <2>2. CancelCooldown(q) /\ ~Answer(q) /\ req[q].user = u
    BY <1>0, <1>1, PassedMove
  <2>. QED  BY <2>1, <2>2, FewWithinPasses
<1>2. ASSUME NEW i \in CancelledByUser(u)', ~(i \in CancelledByUser(u) /\ at(i)' = at(i))
      PROVE  FewWithin(u)'
  <2>1. PICK r \in Request : Cancels(r, i)
    BY <1>0, <1>2, CancelledRows
  <2>2. bookings[i].user = u
    BY <1>0, <2>1 DEF Cancels, CancelledByUser, RowStep, Kept
  <2>. QED  BY <2>1, <2>2, FewWithinCancels
<1>. QED  BY <1>0, <1>1, <1>2, FewWithinStays

LEMMA ThrottleInit ==
    ASSUME IsFiniteSet(Request), Init
    PROVE  Dated /\ StatusTargets /\ ThrottleInv
<1>1. TypeOK /\ StatusTargets /\ CancellationTimed
  BY InitType, ValidTermsInit DEF Init, RepoInit, CancellationTimed, Rows
<1>2. CancelOwner
  BY DEF Init, CancelOwner, CancelOwnerOf
<1>3. ASSUME NEW u \in User PROVE FewWithin(u)
  <2>1. CancelledByUser(u) = {} /\ Passed(u) = {}
    BY DEF Init, RepoInit, CancelledByUser, Rows, Passed, At
  <2>2. Cardinality({}) = 0 /\ Cardinality(Request) \in Nat
    BY FS_EmptySet, FS_CardinalityType
  <2>3. ASSUME NEW S \in SUBSET CancelledByUser(u)
        PROVE  Cardinality(S) = 0 /\ Cardinality(Passed(u)) = 0
    BY <2>1, <2>2
  <2>. QED  BY <2>2, <2>3 DEF FewWithin
<1>. QED  BY <1>1, <1>2, <1>3 DEF Dated, ThrottleInv

LEMMA ThrottleNext ==
    ASSUME IsFiniteSet(Request), Dated, StatusTargets, ThrottleInv, [Next]_vars
    PROVE  (Dated /\ StatusTargets /\ ThrottleInv)'
<1>1. TypeOK' /\ StatusTargets' /\ CancellationTimed'
  BY NextType, StepShape, CancellationTimedNext DEF Dated
<1>2. CancelOwner'
  BY <1>1, CancelOwnerNext DEF Dated, ThrottleInv
<1>3. ASSUME NEW u \in User PROVE FewWithin(u)'
  BY <1>1, FewWithinNext DEF ThrottleInv
<1>. QED  BY <1>1, <1>2, <1>3 DEF Dated, ThrottleInv

LEMMA ThrottleHolds ==
    ASSUME IsFiniteSet(Request)
    PROVE  Spec => [](Dated /\ StatusTargets /\ ThrottleInv)
BY ThrottleInit, ThrottleNext, PTL DEF Spec

\* Cancellations that are few within a block are far apart when they are many.
LEMMA FewAreFar ==
    ASSUME IsFiniteSet(Request), Dated, ThrottleInv
    PROVE  FourthWaits
<1>. DEFINE n == Cardinality(Request)
<1>. SUFFICES ASSUME NEW u \in User, NEW S \in kSubset(3 + n, CancelledByUser(u)),
                     NEW times, times = {at(i) : i \in S}
              PROVE  Max(times) - Min(times) >= CancelBlock
  BY DEF FourthWaits, at
<1>1. S \in SUBSET CancelledByUser(u) /\ Cardinality(S) = 3 + n /\ n \in Nat
  BY FS_CardinalityType DEF kSubset
<1>. HIDE DEF n
<1>2. now \in Nat /\ \A i \in S : at(i) \in Nat /\ at(i) <= now
  BY <1>1, CancelledFinite DEF Dated, TypeOK
<1>3. S # {}
  BY <1>1, FS_EmptySet
<1>4. times \in SUBSET (0 .. now) /\ times # {} /\ times \in SUBSET Nat
  BY <1>2, <1>3
<1>5. /\ Min(times) \in Nat /\ \A i \in S : Min(times) <= at(i)
      /\ Max(times) \in Nat /\ \A i \in S : Max(times) >= at(i)
  <2>1. Min(times) \in times /\ \A y \in times : Min(times) <= y
    BY <1>4, MinOfNats
  <2>2. Max(times) \in times /\ \A y \in times : Max(times) >= y
    BY <1>2, <1>4, MaxOfNats
  <2>. QED  BY <1>4, <2>1, <2>2
<1>6. ASSUME ~(Max(times) - Min(times) >= CancelBlock) PROVE FALSE
  <2>1. \A i, j \in S : at(i) < at(j) + CancelBlock
    BY <1>2, <1>5, <1>6, CancelAssumption
  <2>2. Cardinality(S) <= 2 + n
    BY <1>1, <2>1 DEF ThrottleInv, FewWithin, n
  <2>. QED  BY <1>1, <2>2
<1>. QED  BY <1>6

\* Concurrent cancellations can pass the throttle together, but only one for each
\* request in progress: of any 3 + N cancellations of a user, N the number of
\* requests the server runs at once, the last comes a whole block after the first.
THEOREM FourthCancellationWaits ==
    ASSUME IsFiniteSet(Request)
    PROVE  Spec => []FourthWaits
<1>1. Spec => [](Dated /\ ThrottleInv)
  BY ThrottleHolds, PTL
<1>2. Dated /\ ThrottleInv => FourthWaits
  BY FewAreFar
<1>. QED  BY <1>1, <1>2, PTL

-----------------------------------------------------------------------------
(* Blocks in time *)

\* Three cancellations of the user that are all less than CancelBlock old.
ThreeWithinBlock(u) ==
    \E T \in kSubset(3, CancelledByUser(u)) : \A i \in T : at(i) + CancelBlock > now

\* What a block says about the moment it holds in.
BlockedNow(u) ==
    /\ InCooldown(u, now) <=> ThreeWithinBlock(u)
    /\ InCooldown(u, now) =>
         \E m \in Nat :
            /\ CooldownUntil(u, now) = m + CancelBlock
            /\ \E T \in kSubset(3, CancelledByUser(u)) : \A i \in T : at(i) >= m
            /\ \A T \in kSubset(3, CancelledByUser(u)) : \E i \in T : at(i) <= m

LEMMA BlockedNowAlways == ASSUME NEW u PROVE Dated => BlockedNow(u)
<1>. SUFFICES ASSUME Dated PROVE BlockedNow(u)
  OBVIOUS
<1>0. now \in Nat
  BY DEF Dated, TypeOK
<1>1. InCooldown(u, now) <=> ThreeWithinBlock(u)
  BY <1>0, CooldownMeans DEF ThreeWithinBlock
<1>2. ASSUME InCooldown(u, now)
      PROVE  \E m \in Nat :
                /\ CooldownUntil(u, now) = m + CancelBlock
                /\ \E T \in kSubset(3, CancelledByUser(u)) : \A i \in T : at(i) >= m
                /\ \A T \in kSubset(3, CancelledByUser(u)) : \E i \in T : at(i) <= m
  BY <1>0, <1>2, CooldownEnds
<1>. QED  BY <1>1, <1>2 DEF BlockedNow

\* The same of the state after a step.
LEMMA BlockedNowNext == ASSUME NEW u PROVE Dated' => BlockedNow(u)'
<1>1. Dated => BlockedNow(u)
  BY BlockedNowAlways
<1>. QED  BY <1>1, PTL

\* Whatever cancellations the look-back window still holds, a user who is blocked
\* is told a moment that is yet to come and at most a block away: CooldownUntil
\* names the end of a block that began with a cancellation of his.
THEOREM BlocksEndSoon ==
    Spec => [](\A u \in User : InCooldown(u, now) =>
                   CooldownUntil(u, now) > now /\ CooldownUntil(u, now) <= now + CancelBlock)
<1>1. ASSUME Dated, NEW u \in User, InCooldown(u, now)
      PROVE  CooldownUntil(u, now) > now /\ CooldownUntil(u, now) <= now + CancelBlock
  <2>0. now \in Nat
    BY <1>1 DEF Dated, TypeOK
  <2>1. PICK m \in Nat : /\ CooldownUntil(u, now) = m + CancelBlock
                         /\ m + CancelBlock > now
                         /\ \E T \in kSubset(3, CancelledByUser(u)) : \A i \in T : at(i) >= m
    BY <1>1, <2>0, CooldownEnds
  <2>2. PICK T \in kSubset(3, CancelledByUser(u)) : \A i \in T : at(i) >= m
    BY <2>1
  <2>3. T \subseteq CancelledByUser(u) /\ T # {}
    BY <2>2, FS_EmptySet DEF kSubset
  <2>4. PICK i \in T : at(i) \in Nat /\ at(i) <= now /\ at(i) >= m
    BY <1>1, <2>2, <2>3, CancelledFinite
  <2>. QED  BY <2>0, <2>1, <2>4, CancelAssumption
<1>2. Spec => []Dated
  <2>1. Spec => [](TypeOK /\ CancellationTimed)
    BY TypeCorrect, CancellationsAreTimed, PTL
  <2>. QED  BY <2>1 DEF Dated
<1>3. Dated => \A u \in User : InCooldown(u, now) =>
                   CooldownUntil(u, now) > now /\ CooldownUntil(u, now) <= now + CancelBlock
  BY <1>1
<1>. QED  BY <1>2, <1>3, PTL

\* A cancellation written is what starts a block.
StartsBlock(u) ==
    \E i \in Rows \cap DOMAIN bookings' :
        bookings[i].user = u /\ Confirmed(i) /\ bookings'[i].status = "CANCELLED_BY_USER"

LEMMA BlockStarts ==
    ASSUME Dated, Dated', StatusTargets, [Next]_vars, NEW u, ~InCooldown(u, now), InCooldown(u, now)'
    PROVE  StartsBlock(u)
<1>0. TypeOK /\ RowStep /\ now \in Nat /\ now' \in Nat /\ now' >= now
  BY StepShape DEF Dated, TypeOK, RowStep
<1>1. PICK T \in kSubset(3, CancelledByUser(u)') : \A i \in T : at(i)' + CancelBlock > now'
  BY BlockedNowNext DEF BlockedNow, ThreeWithinBlock
<1>2. T \subseteq CancelledByUser(u)' /\ Cardinality(T) = 3
  BY <1>1 DEF kSubset
<1>3. CASE \A i \in T : i \in CancelledByUser(u) /\ at(i)' = at(i)
  <2>1. T \in kSubset(3, CancelledByUser(u)) /\ \A i \in T : at(i) \in Nat
    BY <1>2, <1>3, CancelledFinite DEF kSubset
  <2>2. \A i \in T : at(i) + CancelBlock > now
    BY <1>0, <1>1, <1>3, <2>1, CancelAssumption
  <2>3. InCooldown(u, now)
    BY <2>1, <2>2, BlockedNowAlways DEF BlockedNow, ThreeWithinBlock
  <2>. QED  BY <2>3
<1>4. ASSUME NEW i \in T, ~(i \in CancelledByUser(u) /\ at(i)' = at(i)) PROVE StartsBlock(u)
  <2>1. i \in CancelledByUser(u)'
    BY <1>2
  <2>2. PICK r \in Request : Cancels(r, i)
    BY <1>0, <1>4, <2>1, CancelledRows
  <2>. QED  BY <1>0, <2>1, <2>2 DEF Cancels, CancelledByUser, RowStep, Kept, StartsBlock, Rows
<1>. QED  BY <1>3, <1>4

\* The clock and the look-back window alone never block anyone, and neither does a
\* workspace deleted with the cancellations it had: only a cancellation does.
THEOREM OnlyCancellationsBlock == Spec => BlockNeedsCancel
<1>. DEFINE Started == \A u \in User : ~InCooldown(u, now) /\ InCooldown(u, now)' =>
                           \E i \in Rows \cap DOMAIN bookings' :
                               bookings[i].user = u /\ Confirmed(i)
                               /\ bookings'[i].status = "CANCELLED_BY_USER"
            Inv == TypeOK /\ StatusTargets /\ CancellationTimed
<1>1. Spec => []Inv
  <2>1. Init => Inv
    BY InitType, ValidTermsInit DEF Init, RepoInit, CancellationTimed, Rows
  <2>2. Inv /\ [Next]_vars => Inv'
    BY NextType, StepShape, CancellationTimedNext
  <2>. QED  BY <2>1, <2>2, PTL DEF Spec
<1>2. Inv /\ Inv' /\ [Next]_vars => [Started]_vars
  BY BlockStarts DEF Dated, StartsBlock
<1>3. Spec => [][Started]_vars
  BY <1>1, <1>2, PTL DEF Spec
<1>. QED  BY <1>3 DEF BlockNeedsCancel

\* With one request at a time nobody has three fresh cancellations when his next
\* one is written.
FreeToCancel ==
    \A r \in Request, u \in User : At(r, "cancelUpdate") /\ req[r].user = u => ~InCooldown(u, now)

LEMMA FreeToCancelNext ==
    ASSUME Alone, Dated, Dated', StatusTargets, CancelOwner, FreeToCancel, [Next]_vars
    PROVE  FreeToCancel'
<1>0. TypeOK /\ now \in Nat /\ now' \in Nat
  BY DEF Dated, TypeOK
<1>. SUFFICES ASSUME NEW q \in Request, NEW u \in User, At(q, "cancelUpdate")',
                     req'[q].user = u, InCooldown(u, now)'
              PROVE  FALSE
  BY DEF FreeToCancel
<1>1. q \in Passed(u)'
  BY DEF Passed, At
<1>2. CASE CancelCooldown(q) /\ ~Answer(q) /\ req[q].user = u
  <2>1. /\ UNCHANGED <<db, now>> /\ ~InCooldown(u, req[q].at)
        /\ req[q].at \in Nat /\ req[q].at <= now
    BY <1>0, <1>2, KindOfRequest
    DEF CancelCooldown, At, CancelOwner, CancelOwnerOf, CancelReq
  <2>2. PICK T \in kSubset(3, CancelledByUser(u)') : \A i \in T : at(i)' + CancelBlock > now'
    BY BlockedNowNext DEF BlockedNow, ThreeWithinBlock
  <2>3. CancelledByUser(u)' = CancelledByUser(u) /\ now' = now /\ \A i : at(i)' = at(i)
    BY <2>1 DEF db, CancelledByUser, Rows, at
  <2>4. T \in kSubset(3, CancelledByUser(u)) /\ \A i \in T : at(i) \in Nat
    BY <2>2, <2>3, CancelledFinite DEF kSubset
  <2>5. \A i \in T : at(i) + CancelBlock > req[q].at
    BY <1>0, <2>1, <2>2, <2>3, <2>4, CancelAssumption
  <2>6. InCooldown(u, req[q].at)
    BY <2>1, <2>4, <2>5, CooldownMeans
  <2>. QED  BY <2>1, <2>6
<1>3. CASE q \in Passed(u) /\ ~(CancelCooldown(q) /\ ~Answer(q) /\ req[q].user = u)
  <2>1. At(q, "cancelUpdate") /\ req[q].user = u
    BY <1>3 DEF Passed
  <2>2. ~InCooldown(u, now)
    BY <2>1 DEF FreeToCancel
  <2>3. PICK i \in Rows \cap DOMAIN bookings' :
            bookings[i].user = u /\ Confirmed(i) /\ bookings'[i].status = "CANCELLED_BY_USER"
    BY <2>2, BlockStarts DEF StartsBlock
  <2>4. i \in Rows /\ i \in CancelledByUser(u)' /\ i \notin CancelledByUser(u)
    BY <1>0, <2>3, StepShape DEF CancelledByUser, Confirmed, RowStep, Kept, Rows
  <2>5. PICK r \in Request : Cancels(r, i)
    BY <1>0, <2>4, CancelledRows
  <2>6. r = q
    BY DEF Alone
  <2>7. req'[q] = [pc |-> "idle"]
    BY <1>0, <2>5, <2>6, AnswerMoves DEF Cancels, CancelUpdate
  <2>. QED  BY <2>7 DEF At
<1>. QED  BY <1>0, <1>1, <1>2, <1>3, PassedMove

\* Nothing gone, nobody able to cancel and no request to complete or cancel what
\* is no longer confirmed: the cancellations of a blocked user stay as they are.
LEMMA BlockedKeepsCancellations ==
    ASSUME Dated, StatusTargets, CancelOwner, FreeToCancel, SerialInv, [Next]_vars,
           NEW u \in User, InCooldown(u, now), Rows \subseteq Rows'
    PROVE  /\ CancelledByUser(u)' = CancelledByUser(u)
           /\ \A i \in CancelledByUser(u) : at(i)' = at(i)
<1>0. TypeOK /\ now \in Nat
  BY DEF Dated, TypeOK
<1>1. ASSUME NEW i \in CancelledByUser(u)' PROVE i \in CancelledByUser(u)
  <2>1. ASSUME NEW r \in Request, Cancels(r, i) PROVE FALSE
    <3>1. At(r, "cancelUpdate") /\ bookings[i].user = req[r].user
      BY <2>1 DEF Cancels, CancelUpdate, CancelOwner, CancelOwnerOf, At
    <3>2. bookings[i].user = u
      BY <1>0, <1>1, <2>1, StepShape DEF Cancels, CancelledByUser, RowStep, Kept
    <3>. QED  BY <3>1, <3>2 DEF FreeToCancel
  <2>. QED  BY <1>0, <1>1, <2>1, CancelledRows
<1>2. ASSUME NEW i \in CancelledByUser(u) PROVE i \in CancelledByUser(u)' /\ at(i)' = at(i)
  <2>1. /\ i \in Rows /\ i \in Rows' /\ ~Confirmed(i)
        /\ bookings[i].user = u /\ bookings[i].status = "CANCELLED_BY_USER"
    BY DEF CancelledByUser, Confirmed
  <2>2. Fate(i)
    BY <1>0, <2>1, Fates
  <2>3. ASSUME NEW r \in Request, StatusUpdate(r), req[r].booking = i PROVE FALSE
    BY <2>1, <2>3 DEF StatusUpdate, At, SerialInv, SerialOf
  <2>4. bookings'[i] = bookings[i]
    BY <2>1, <2>2, <2>3 DEF Fate
  <2>. QED  BY <2>1, <2>4 DEF CancelledByUser, at
<1>. QED  BY <1>1, <1>2

\* CooldownUntil is recomputed by every request from the rows of the last 24
\* hours: with one request at a time and no workspace deleted, the moment a user
\* is told stays the moment until which he is blocked, although cancellations
\* leave the window and others would change which three are the latest.
THEOREM SerialBlockIsSteady == ASSUME Alone PROVE Spec => BlockIsSteady
<1>. DEFINE Steady == \A u \in User :
                /\ InCooldown(u, now)
                /\ now' < CooldownUntil(u, now)
                /\ ~(\E i \in Rows : Gone(i))
                => CooldownUntil(u, now)' = CooldownUntil(u, now)
            Inv == Dated /\ StatusTargets /\ CancelOwner /\ FreeToCancel /\ RaceInv /\ SerialInv
<1>1. Spec => []Inv
  <2>1. Init => Dated /\ StatusTargets /\ CancelOwner /\ FreeToCancel
    BY InitType, ValidTermsInit
    DEF Init, RepoInit, CancellationTimed, Rows, Dated, CancelOwner, CancelOwnerOf, FreeToCancel, At
  <2>2. ASSUME Dated, StatusTargets, CancelOwner, FreeToCancel, [Next]_vars
        PROVE  (Dated /\ StatusTargets /\ CancelOwner /\ FreeToCancel)'
    <3>1. TypeOK' /\ StatusTargets' /\ CancellationTimed'
      BY <2>2, NextType, StepShape, CancellationTimedNext DEF Dated
    <3>2. CancelOwner'
      BY <2>2, <3>1, CancelOwnerNext DEF Dated
    <3>3. FreeToCancel'
      BY <2>2, <3>1, FreeToCancelNext DEF Dated
    <3>. QED  BY <3>1, <3>2, <3>3 DEF Dated
  <2>3. Spec => [](RaceInv /\ SerialInv)
    BY SerialHolds, PTL
  <2>. QED  BY <2>1, <2>2, <2>3, PTL DEF Spec
<1>2. ASSUME Inv, Inv', [Next]_vars PROVE [Steady]_vars
  <2>. SUFFICES ASSUME NEW u \in User, InCooldown(u, now), now' < CooldownUntil(u, now),
                       \A i \in Rows : ~Gone(i)
                PROVE  CooldownUntil(u, now)' = CooldownUntil(u, now)
    OBVIOUS
  <2>1. Rows \subseteq Rows' /\ now' \in Nat
    BY <1>2 DEF Gone, Rows, Dated, TypeOK
  <2>2. CancelledByUser(u)' = CancelledByUser(u) /\ \A i \in CancelledByUser(u) : at(i)' = at(i)
    BY <1>2, <2>1, BlockedKeepsCancellations
  <2>. DEFINE three == kSubset(3, CancelledByUser(u))
  <2>3. /\ three = kSubset(3, CancelledByUser(u)')
        /\ \A T \in three : \A i \in T : at(i)' = at(i) /\ at(i) \in Nat
    BY <1>2, <2>2, CancelledFinite DEF kSubset
  <2>4. PICK m \in Nat : /\ CooldownUntil(u, now) = m + CancelBlock
                         /\ \E T \in three : \A i \in T : at(i) >= m
                         /\ \A T \in three : \E i \in T : at(i) <= m
    BY <1>2, BlockedNowAlways DEF BlockedNow
  <2>5. InCooldown(u, now)'
    <3>1. PICK T \in three : \A i \in T : at(i) >= m
      BY <2>4
    <3>2. \A i \in T : at(i)' + CancelBlock > now'
      BY <2>1, <2>3, <2>4, <3>1, CancelAssumption
    <3>. QED  BY <1>2, <2>3, <3>2, BlockedNowNext DEF BlockedNow, ThreeWithinBlock
  <2>6. PICK k \in Nat : /\ CooldownUntil(u, now)' = k + CancelBlock
                         /\ \E T \in three : \A i \in T : at(i)' >= k
                         /\ \A T \in three : \E i \in T : at(i)' <= k
    <3>. HIDE DEF three
    <3>. QED  BY <1>2, <2>3, <2>5, BlockedNowNext DEF BlockedNow
  <2>. HIDE DEF three
  <2>7. m <= k /\ k <= m
    BY <2>3, <2>4, <2>6
  <2>. QED  BY <2>4, <2>6, <2>7
<1>3. Spec => [][Steady]_vars
  BY <1>1, <1>2, PTL DEF Spec
<1>. QED  BY <1>3 DEF BlockIsSteady
=============================================================================
