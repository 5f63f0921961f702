---------------------------- MODULE ReportProofs ----------------------------
(***************************************************************************)
(* Theorems about the report that is built while the handlers write, for   *)
(* any bookings, periods, places and limits and without the bounds of the  *)
(* runs.                                                                   *)
(***************************************************************************)
EXTENDS BookingReport, ThrottleProofs

-----------------------------------------------------------------------------
(* Sums of the groups of a set *)

\* m[T] counts what is in the groups T of f.
Counts(m, f) ==
    /\ m \in [SUBSET DOMAIN f -> Nat]
    /\ m[{}] = 0
    /\ \A T \in SUBSET DOMAIN f : \A x \in T : m[T] = f[x] + m[T \ {x}]

\* Taking the groups one by one, as Sum does, counts what is in all of them: a
\* smallest set of groups counted otherwise would not be empty, and without the
\* group taken first it would be a smaller one.
LEMMA SumCounts ==
    ASSUME NEW f, NEW m, IsFiniteSet(DOMAIN f), Counts(m, f)
    PROVE  Sum(f) = m[DOMAIN f]
<1>. PICK D : D = DOMAIN f
  OBVIOUS
<1>0. /\ IsFiniteSet(D) /\ m \in [SUBSET D -> Nat] /\ m[{}] = 0
      /\ \A T \in SUBSET D : \A x \in T : m[T] = f[x] + m[T \ {x}]
  BY DEF Counts
<1>. DEFINE step(g) == [T \in SUBSET D |-> IF T = {} THEN 0
                                           ELSE LET x == CHOOSE x \in T : TRUE IN f[x] + g[T \ {x}]]
            iter == CHOOSE g : g = step(g)
<1>1. Sum(f) = iter[D]
  BY Zenon DEF Sum, MapThenSumSet, MapThenFoldSet
<1>2. m = step(m)
  <2>1. ASSUME NEW T \in SUBSET D, T # {}
        PROVE  m[T] = LET x == CHOOSE x \in T : TRUE IN f[x] + m[T \ {x}]
    <3>. PICK x : x = CHOOSE y \in T : TRUE
      OBVIOUS
    <3>1. x \in T
      BY <2>1
    <3>2. m[T] = f[x] + m[T \ {x}]
      BY <1>0, <3>1
    <3>. QED  BY <3>2
  <2>2. \A T \in SUBSET D : m[T] = IF T = {} THEN 0
                                    ELSE LET x == CHOOSE x \in T : TRUE IN f[x] + m[T \ {x}]
    BY <1>0, <2>1
  <2>3. m = [T \in SUBSET D |-> m[T]]
    BY <1>0
  <2>. QED  BY <2>2, <2>3, Zenon
<1>3. iter = step(iter)
  <2>1. \E g : g = step(g)
    BY <1>2, Zenon
  <2>. HIDE DEF step
  <2>. QED  BY <2>1, Zenon
<1>. HIDE DEF iter
<1>4. \A T \in SUBSET D : iter[T] = IF T = {} THEN 0
                                    ELSE LET x == CHOOSE x \in T : TRUE IN f[x] + iter[T \ {x}]
  BY <1>3, Zenon
<1>5. ASSUME iter[D] # m[D]
      PROVE  FALSE
  <2>. DEFINE bad == {T \in SUBSET D : iter[T] # m[T]}
              sizes == {Cardinality(T) : T \in bad}
  <2>1. \A T \in SUBSET D : IsFiniteSet(T) /\ Cardinality(T) \in Nat
    BY <1>0, FS_Subset, FS_CardinalityType
  <2>2. PICK n \in sizes : \A k \in sizes : n <= k
    <3>1. sizes \in SUBSET Nat
      BY <2>1
    <3>2. sizes # {}
      BY <1>5
    <3>. HIDE DEF sizes
    <3>. QED  BY <3>1, <3>2, LeastNat
  <2>3. PICK T \in bad : Cardinality(T) = n
    OBVIOUS
  <2>4. T \in SUBSET D /\ iter[T] # m[T]
    OBVIOUS
  <2>5. T # {}
    BY <1>0, <1>4, <2>4
  <2>. PICK x \in T : x = CHOOSE y \in T : TRUE
    BY <2>5
  <2>6. iter[T] = f[x] + iter[T \ {x}] /\ m[T] = f[x] + m[T \ {x}]
    BY <1>0, <1>4, <2>4, <2>5, Zenon
  <2>7. T \ {x} \in bad
    BY <1>0, <2>4, <2>6
  <2>8. Cardinality(T \ {x}) = n - 1 /\ n \in Nat
    BY <2>1, <2>3, <2>4, FS_RemoveElement
  <2>9. n <= Cardinality(T \ {x})
    BY <2>2, <2>7
  <2>. QED  BY <2>8, <2>9
<1>. QED  BY <1>1, <1>5

\* CountBy for a key given as a function.
CountOf(S, key) == [k \in {key[i] : i \in S} |-> Cardinality({i \in S : key[i] = k})]

LEMMA DisjointSum ==
    ASSUME NEW A, IsFiniteSet(A), NEW B, IsFiniteSet(B), A \cap B = {}
    PROVE  Cardinality(A \cup B) = Cardinality(A) + Cardinality(B)
<1>1. Cardinality(A) \in Nat /\ Cardinality(B) \in Nat
  BY FS_CardinalityType
<1>2. Cardinality(A \cap B) = 0
  BY FS_EmptySet
<1>3. Cardinality(A \cup B) = Cardinality(A) + Cardinality(B) - Cardinality(A \cap B)
  BY ONLY IsFiniteSet(A), IsFiniteSet(B), FS_Union
<1>. QED  BY <1>1, <1>2, <1>3

\* A block of some groups of S counts the members of S in these groups.
LEMMA SumOfGroups ==
    ASSUME NEW S, IsFiniteSet(S), NEW key, NEW T \in SUBSET DOMAIN CountOf(S, key)
    PROVE  /\ IsFiniteSet(DOMAIN CountOf(S, key)) /\ IsFiniteSet(T)
           /\ Sum(Restricted(CountOf(S, key), T)) = Cardinality({i \in S : key[i] \in T})
<1>. DEFINE all == CountOf(S, key)
            f == Restricted(all, T)
            of == [U \in SUBSET T |-> {i \in S : key[i] \in U}]
            m == [U \in SUBSET T |-> Cardinality(of[U])]
<1>1. IsFiniteSet(DOMAIN all)
  <2>. DEFINE g == [i \in S |-> key[i]]
  <2>1. g \in Surjection(S, DOMAIN all)
    BY DEF CountOf, Surjection
  <2>. HIDE DEF g
  <2>. QED  BY <2>1, FS_Surjection
<1>2. IsFiniteSet(T)
  BY <1>1, FS_Subset
<1>3. \A U \in SUBSET T : IsFiniteSet(of[U]) /\ Cardinality(of[U]) \in Nat
  BY FS_Subset, FS_CardinalityType
<1>4. m \in [SUBSET T -> Nat]
  BY <1>3
<1>5. m[{}] = 0
  BY FS_EmptySet
<1>6. ASSUME NEW U \in SUBSET T, NEW x \in U
      PROVE  m[U] = f[x] + m[U \ {x}]
  <2>1. f[x] = Cardinality(of[{x}])
    <3>1. f[x] = Cardinality({i \in S : key[i] = x})
      BY DEF CountOf, Restricted
    <3>2. {i \in S : key[i] = x} = of[{x}]
      OBVIOUS
    <3>. QED  BY <3>1, <3>2
  <2>2. of[U] = of[{x}] \cup of[U \ {x}] /\ of[{x}] \cap of[U \ {x}] = {}
    OBVIOUS
  <2>3. /\ IsFiniteSet(of[{x}]) /\ Cardinality(of[{x}]) \in Nat
        /\ IsFiniteSet(of[U \ {x}]) /\ Cardinality(of[U \ {x}]) \in Nat
    BY <1>3
  <2>4. Cardinality(of[U]) = Cardinality(of[{x}]) + Cardinality(of[U \ {x}])
    <3>. PICK A, B : A = of[{x}] /\ B = of[U \ {x}]
      OBVIOUS
    <3>1. IsFiniteSet(A) /\ IsFiniteSet(B) /\ A \cap B = {} /\ of[U] = A \cup B
      BY <2>2, <2>3
    <3>2. Cardinality(A \cup B) = Cardinality(A) + Cardinality(B)
      BY <3>1, DisjointSum
    <3>. QED  BY <3>1, <3>2
  <2>. QED  BY <2>1, <2>4
<1>7. DOMAIN f = T
  BY DEF Restricted
<1>. HIDE DEF f, of, m
<1>8. \A U \in SUBSET T : \A x \in U : m[U] = f[x] + m[U \ {x}]
  BY <1>6
<1>9. Counts(m, f)
  BY <1>4, <1>5, <1>7, <1>8 DEF Counts
<1>10. Sum(f) = m[T]
  BY <1>2, <1>7, <1>9, SumCounts
<1>. QED  BY <1>1, <1>2, <1>10 DEF f, m, of

\* The groups of a statement, whatever key it groups by, as CountOf has them.
LEMMA KeysOfReport ==
    ASSUME NEW S
    PROVE  /\ CountBy(S, ByStatus) = CountOf(S, [i \in S |-> bookings[i].status])
           /\ CountBy(S, ByPlace) = CountOf(S, [i \in S |-> PlaceOf[bookings[i].workspace]])
           /\ CountBy(S, ByDay) = CountOf(S, [i \in S |-> bookings[i].start \div Day])
           /\ CountBy(S, ByUser) = CountOf(S, [i \in S |-> bookings[i].user])
<1>1. CountBy(S, ByStatus) = CountOf(S, [i \in S |-> bookings[i].status])
  BY DEF CountBy, CountOf, ByStatus
<1>2. CountBy(S, ByPlace) = CountOf(S, [i \in S |-> PlaceOf[bookings[i].workspace]])
  BY DEF CountBy, CountOf, ByPlace
<1>3. CountBy(S, ByDay) = CountOf(S, [i \in S |-> bookings[i].start \div Day])
  BY DEF CountBy, CountOf, ByDay
<1>4. CountBy(S, ByUser) = CountOf(S, [i \in S |-> bookings[i].user])
  BY DEF CountBy, CountOf, ByUser
<1>. QED  BY <1>1, <1>2, <1>3, <1>4

\* All groups together count every booking once.
LEMMA AllGroups ==
    ASSUME NEW S, IsFiniteSet(S), NEW key
    PROVE  Sum(Restricted(CountOf(S, key), DOMAIN CountOf(S, key))) = Cardinality(S)
<1>1. {i \in S : key[i] \in DOMAIN CountOf(S, key)} = S
  BY DEF CountOf
<1>. QED  BY <1>1, SumOfGroups

\* A block of some groups counts no booking twice, and leaves one out only if it
\* leaves out a group.
LEMMA SomeGroups ==
    ASSUME NEW S, IsFiniteSet(S), NEW key, NEW n \in Nat,
           NEW T \in kSubset(n, DOMAIN CountOf(S, key))
    PROVE  /\ Cardinality(DOMAIN Restricted(CountOf(S, key), T)) = n
           /\ Sum(Restricted(CountOf(S, key), T)) <= Cardinality(S)
           /\ n = Cardinality(DOMAIN CountOf(S, key))
                 => Sum(Restricted(CountOf(S, key), T)) = Cardinality(S)
<1>. DEFINE all == CountOf(S, key)
<1>1. T \in SUBSET DOMAIN all /\ Cardinality(T) = n /\ DOMAIN Restricted(all, T) = T
  BY DEF kSubset, Restricted
<1>2. /\ IsFiniteSet(DOMAIN all)
      /\ Sum(Restricted(all, T)) = Cardinality({i \in S : key[i] \in T})
  BY <1>1, SumOfGroups
<1>3. Cardinality({i \in S : key[i] \in T}) <= Cardinality(S)
  BY FS_Subset
<1>4. n = Cardinality(DOMAIN all) => T = DOMAIN all
  BY <1>1, <1>2, FS_Subset
<1>5. n = Cardinality(DOMAIN all) => Sum(Restricted(all, T)) = Cardinality(S)
  BY <1>4, AllGroups
<1>. QED  BY <1>1, <1>2, <1>3, <1>5

-----------------------------------------------------------------------------
(* What the statements of a report have read *)

Building == {"totals", "popular", "daily", "users"}

ReportShape(q) ==
    /\ q.pc \in {"none", "shown", "saved"} \cup Building
    /\ q.pc \in Building =>
          q = [pc |-> q.pc, from |-> q.from, to |-> q.to, opened |-> q.opened,
               mark |-> q.mark, first |-> q.first, cut |-> q.cut, overdue |-> q.overdue,
               status |-> q.status, popular |-> q.popular, daily |-> q.daily, users |-> q.users]
    /\ q.pc \in {"shown", "saved"} =>
          q = [pc |-> q.pc, from |-> q.from, to |-> q.to, cut |-> q.cut, overdue |-> q.overdue,
               steady |-> q.steady, status |-> q.status, popular |-> q.popular,
               daily |-> q.daily, users |-> q.users]

\* No row has come or gone since the totals.
Steady(q) == nextId = q.mark /\ q.first \subseteq Rows

\* A block of the groups counted most, limit at most, of n bookings.
TopOf(block, limit, n) ==
    /\ Sum(block) <= n
    /\ Cardinality(DOMAIN block) < limit => Sum(block) = n

\* As long as no row comes or goes the bookings of the period are those of the
\* totals, and each block read whole counts every one of them once.
ReportRead(q) ==
    /\ q.pc \in {"popular", "daily", "users"} =>
          /\ IsFiniteSet(q.first) /\ q.mark \in Nat /\ q.mark <= nextId
          /\ Steady(q) => InPeriod(q) = q.first
          /\ ~q.cut => Sum(q.status) = Cardinality(q.first)
    /\ q.pc \in {"daily", "users"} /\ Steady(q) /\ ~q.cut =>
          TopOf(q.popular, TopPlaces, Cardinality(q.first))
    /\ q.pc = "users" /\ Steady(q) /\ ~q.cut => Sum(q.daily) = Cardinality(q.first)
    /\ q.pc \in {"shown", "saved"} /\ q.steady /\ ~q.cut =>
          /\ Sum(q.daily) = Sum(q.status)
          /\ TopOf(q.popular, TopPlaces, Sum(q.status))
          /\ TopOf(q.users, TopUsers, Sum(q.status))

ReportInv ==
    /\ TypeOK
    /\ StatusTargets
    /\ ReportShape(report)
    /\ ReportRead(report)

\* The blocks with a limit and the days, read to their end.
LEMMA TopBlock ==
    ASSUME NEW S, IsFiniteSet(S), NEW key, NEW limit \in Nat, NEW n,
           n = Limited(Cardinality(DOMAIN CountOf(S, key)), limit),
           NEW block \in Leading(CountOf(S, key), n)
    PROVE  TopOf(block, limit, Cardinality(S))
<1>. PICK all : all = CountOf(S, key)
  OBVIOUS
<1>1. IsFiniteSet(DOMAIN all) /\ Cardinality(DOMAIN all) \in Nat
  BY SumOfGroups, FS_CardinalityType
<1>2. n \in Nat /\ (n < limit => n = Cardinality(DOMAIN all))
  BY <1>1 DEF Limited
<1>3. PICK T \in kSubset(n, DOMAIN all) : block = Restricted(all, T)
  BY DEF Leading
<1>. QED  BY <1>2, <1>3, SomeGroups DEF TopOf

LEMMA DayBlock ==
    ASSUME NEW S, IsFiniteSet(S), NEW key, NEW n,
           n = Cardinality(DOMAIN CountOf(S, key)),
           NEW block \in FirstDays(CountOf(S, key), n)
    PROVE  Sum(block) = Cardinality(S)
<1>. PICK all : all = CountOf(S, key)
  OBVIOUS
<1>1. n \in Nat
  BY SumOfGroups, FS_CardinalityType
<1>2. PICK T \in kSubset(n, DOMAIN all) : block = Restricted(all, T)
  BY DEF FirstDays
<1>. QED  BY <1>1, <1>2, SomeGroups

-----------------------------------------------------------------------------
(* The handlers *)

\* Rows keep their terms, so those of a period change only if rows come or go.
LEMMA ReportReadStays ==
    ASSUME TypeOK, TypeOK', RowStep, NEW q, ReportRead(q)
    PROVE  ReportRead(q)'
<1>0. \/ Rows' \subseteq Rows /\ nextId' = nextId
      \/ nextId' = nextId + 1
  <2>1. CASE Erased
    BY <2>1 DEF Erased
  <2>2. CASE \E r \in Request : Added(r)
    BY <2>2 DEF Added
  <2>. QED  BY <2>1, <2>2 DEF RowStep
<1>1. nextId \in Nat /\ nextId' \in Nat /\ nextId' >= nextId
  <2>1. nextId \in Nat /\ nextId' \in Nat
    BY DEF TypeOK, RepoType
  <2>. QED  BY <1>0, <2>1
<1>2. ASSUME q.pc \in {"popular", "daily", "users"}, Steady(q)'
      PROVE  Steady(q) /\ InPeriod(q)' = q.first
  <2>1. nextId' = nextId /\ nextId = q.mark /\ q.first \subseteq Rows'
    BY <1>1, <1>2 DEF ReportRead, Steady
  <2>2. Rows' \subseteq Rows
    BY <1>0, <1>1, <2>1
  <2>3. InPeriod(q) = q.first /\ Steady(q)
    BY <1>2, <2>1, <2>2 DEF ReportRead, Steady
  <2>4. \A i \in Rows' : bookings'[i].start = bookings[i].start
    BY <2>2 DEF RowStep, Kept
  <2>. QED  BY <2>1, <2>2, <2>3, <2>4 DEF InPeriod
<1>3. q.pc \in {"popular", "daily", "users"} => q.mark <= nextId'
  BY <1>1 DEF ReportRead
<1>. QED  BY <1>2, <1>3 DEF ReportRead

-----------------------------------------------------------------------------
(* The statements of the report *)

LEMMA ReportMoves ==
    ASSUME ReportInv, UNCHANGED vars, NEW p, p = report', ReportShape(p), ReportRead(p)
    PROVE  ReportInv'
<1>1. TypeOK' /\ StatusTargets'
  BY DEF ReportInv, vars, TypeOK, RepoType, Rows, StatusTargets, At
<1>2. InPeriod(p)' = InPeriod(p) /\ Steady(p)' = Steady(p)
  BY DEF vars, InPeriod, Rows, Steady
<1>3. ReportRead(p)'
  BY <1>2 DEF vars, ReportRead
<1>4. ReportShape(p)'
  BY DEF ReportShape
<1>. QED  BY <1>1, <1>3, <1>4 DEF ReportInv

LEMMA OpenReportInv ==
    ASSUME ReportInv, NEW p \in Period, OpenReport(p)
    PROVE  ReportInv'
<1>. PICK q : q = report'
  OBVIOUS
<1>1. UNCHANGED vars /\ ReportShape(q) /\ q.pc = "totals"
  BY DEF OpenReport, ReportShape, Building
<1>. QED  BY <1>1, ReportMoves DEF ReportRead

LEMMA TotalsInv ==
    ASSUME ReportInv, Totals
    PROVE  ReportInv'
<1>. PICK q, p : q = report /\ p = report'
  OBVIOUS
<1>. DEFINE S == InPeriod(q)
            all == CountBy(S, ByStatus)
<1>0. UNCHANGED vars /\ q.pc = "totals" /\ ReportShape(q) /\ TypeOK
  BY DEF Totals, ReportInv
<1>1. PICK T \in SUBSET DOMAIN all :
        report' = [report EXCEPT !.pc = "popular", !.status = Restricted(all, T),
                                 !.cut = T # DOMAIN all, !.mark = nextId, !.first = S,
                                 !.overdue = \E i \in S : Confirmed(i) /\ bookings[i].end <= report.opened]
  BY DEF Totals
<1>2. PICK o, c : /\ o = (\E i \in S : Confirmed(i) /\ bookings[i].end <= report.opened)
                  /\ c = (T # DOMAIN all)
  OBVIOUS
<1>3. PICK block : block = Restricted(all, T)
  OBVIOUS
<1>4. p = [q EXCEPT !.pc = "popular", !.status = block, !.cut = c, !.mark = nextId,
                    !.first = S, !.overdue = o]
  BY <1>1, <1>2, <1>3, Zenon
<1>5. ~c => Sum(block) = Cardinality(S)
  <2>1. IsFiniteSet(S)
    BY <1>0, FiniteRows, FS_Subset DEF InPeriod
  <2>2. ~c => block = Restricted(all, DOMAIN all)
    BY <1>2, <1>3
  <2>3. PICK key : all = CountOf(S, key)
    BY KeysOfReport
  <2>. QED  BY <2>1, <2>2, <2>3, AllGroups
<1>. HIDE DEF S, all
<1>6. p = [pc |-> "popular", from |-> q.from, to |-> q.to, opened |-> q.opened,
           mark |-> nextId, first |-> S, cut |-> c, overdue |-> o,
           status |-> block, popular |-> q.popular, daily |-> q.daily, users |-> q.users]
  BY <1>0, <1>4 DEF ReportShape, Building
<1>7. ReportShape(p)
  BY <1>6 DEF ReportShape, Building
<1>8. IsFiniteSet(S) /\ InPeriod(p) = S
  BY <1>0, <1>6, FiniteRows, FS_Subset DEF S, InPeriod
<1>9. ReportRead(p)
  BY <1>0, <1>5, <1>6, <1>8 DEF ReportRead, TypeOK, RepoType
<1>. QED  BY <1>0, <1>7, <1>9, ReportMoves

LEMMA PopularInv ==
    ASSUME ReportInv, Popular
    PROVE  ReportInv'
<1>. PICK q, p : q = report /\ p = report'
  OBVIOUS
<1>. DEFINE S == InPeriod(q)
            all == CountBy(S, ByPlace)
            whole == Limited(Cardinality(DOMAIN all), TopPlaces)
<1>0. UNCHANGED vars /\ q.pc = "popular" /\ ReportShape(q) /\ ReportRead(q) /\ TypeOK
  BY DEF Popular, ReportInv
<1>1. PICK n \in 0 .. whole : \E block \in Leading(all, n) :
        report' = [report EXCEPT !.pc = "daily", !.popular = block, !.cut = @ \/ n < whole]
  BY DEF Popular
<1>2. PICK block \in Leading(all, n) :
        report' = [report EXCEPT !.pc = "daily", !.popular = block, !.cut = @ \/ n < whole]
  BY <1>1
<1>3. PICK c : c = (q.cut \/ n < whole)
  OBVIOUS
<1>4. p = [q EXCEPT !.pc = "daily", !.popular = block, !.cut = c]
  BY <1>2, <1>3, Zenon
<1>5. IsFiniteSet(S)
  BY <1>0, FiniteRows, FS_Subset DEF InPeriod
<1>6. PICK key : all = CountOf(S, key)
  BY KeysOfReport
<1>. HIDE DEF S, all
<1>7. whole \in Nat
  BY <1>5, <1>6, SumOfGroups, FS_CardinalityType, ReportAssumption DEF Limited
<1>8. ~c => ~q.cut /\ TopOf(block, TopPlaces, Cardinality(S))
  <2>0. ~c => ~(n < whole) /\ ~q.cut
    BY <1>3, Zenon
  <2>1. ~c => n = whole /\ ~q.cut
    BY <1>7, <2>0
  <2>2. n = whole => TopOf(block, TopPlaces, Cardinality(S))
    BY <1>5, <1>6, TopBlock, ReportAssumption
  <2>. QED  BY <2>1, <2>2
<1>9. p = [pc |-> "daily", from |-> q.from, to |-> q.to, opened |-> q.opened,
           mark |-> q.mark, first |-> q.first, cut |-> c, overdue |-> q.overdue,
           status |-> q.status, popular |-> block, daily |-> q.daily, users |-> q.users]
  BY <1>0, <1>4 DEF ReportShape, Building
<1>10. ReportShape(p)
  BY <1>9 DEF ReportShape, Building
<1>11. InPeriod(p) = S /\ Steady(p) = Steady(q)
  BY <1>9 DEF S, InPeriod, Steady
<1>12. ReportRead(p)
  BY <1>0, <1>8, <1>9, <1>11 DEF ReportRead, S
<1>. QED  BY <1>0, <1>10, <1>12, ReportMoves

LEMMA DailyInv ==
    ASSUME ReportInv, Daily
    PROVE  ReportInv'
<1>. PICK q, p : q = report /\ p = report'
  OBVIOUS
<1>. DEFINE S == InPeriod(q)
            all == CountBy(S, ByDay)
            whole == Cardinality(DOMAIN all)
<1>0. UNCHANGED vars /\ q.pc = "daily" /\ ReportShape(q) /\ ReportRead(q) /\ TypeOK
  BY DEF Daily, ReportInv
<1>1. PICK n \in 0 .. whole : \E block \in FirstDays(all, n) :
        report' = [report EXCEPT !.pc = "users", !.daily = block, !.cut = @ \/ n < whole]
  BY DEF Daily
<1>2. PICK block \in FirstDays(all, n) :
        report' = [report EXCEPT !.pc = "users", !.daily = block, !.cut = @ \/ n < whole]
  BY <1>1
<1>3. PICK c : c = (q.cut \/ n < whole)
  OBVIOUS
<1>4. p = [q EXCEPT !.pc = "users", !.daily = block, !.cut = c]
  BY <1>2, <1>3, Zenon
<1>5. IsFiniteSet(S)
  BY <1>0, FiniteRows, FS_Subset DEF InPeriod
<1>6. PICK key : all = CountOf(S, key)
  BY KeysOfReport
<1>. HIDE DEF S, all
<1>7. whole \in Nat
  BY <1>5, <1>6, SumOfGroups, FS_CardinalityType
<1>8. ~c => ~q.cut /\ Sum(block) = Cardinality(S)
  <2>0. ~c => ~(n < whole) /\ ~q.cut
    BY <1>3, Zenon
  <2>1. ~c => n = whole /\ ~q.cut
    BY <1>7, <2>0
  <2>2. n = whole => Sum(block) = Cardinality(S)
    BY <1>5, <1>6, DayBlock
  <2>. QED  BY <2>1, <2>2
<1>9. p = [pc |-> "users", from |-> q.from, to |-> q.to, opened |-> q.opened,
           mark |-> q.mark, first |-> q.first, cut |-> c, overdue |-> q.overdue,
           status |-> q.status, popular |-> q.popular, daily |-> block, users |-> q.users]
  BY <1>0, <1>4 DEF ReportShape, Building
<1>10. ReportShape(p)
  BY <1>9 DEF ReportShape, Building
<1>11. InPeriod(p) = S /\ Steady(p) = Steady(q)
  BY <1>9 DEF S, InPeriod, Steady
<1>12. ReportRead(p)
  BY <1>0, <1>8, <1>9, <1>11 DEF ReportRead, S
<1>. QED  BY <1>0, <1>10, <1>12, ReportMoves

LEMMA UsersInv ==
    ASSUME ReportInv, Users
    PROVE  ReportInv'
<1>. PICK q, p : q = report /\ p = report'
  OBVIOUS
<1>. DEFINE S == InPeriod(q)
            all == CountBy(S, ByUser)
            whole == Limited(Cardinality(DOMAIN all), TopUsers)
<1>0. UNCHANGED vars /\ q.pc = "users" /\ ReportRead(q) /\ TypeOK
  BY DEF Users, ReportInv
<1>1. PICK n \in 0 .. whole : \E block \in Leading(all, n) :
        report' = [pc |-> "shown", from |-> report.from, to |-> report.to,
                   cut |-> report.cut \/ n < whole, overdue |-> report.overdue,
                   steady |-> nextId = report.mark /\ report.first \subseteq Rows,
                   status |-> report.status, popular |-> report.popular,
                   daily |-> report.daily, users |-> block]
  BY DEF Users
<1>2. PICK block \in Leading(all, n) :
        report' = [pc |-> "shown", from |-> report.from, to |-> report.to,
                   cut |-> report.cut \/ n < whole, overdue |-> report.overdue,
                   steady |-> nextId = report.mark /\ report.first \subseteq Rows,
                   status |-> report.status, popular |-> report.popular,
                   daily |-> report.daily, users |-> block]
  BY <1>1
<1>3. PICK c, s : c = (q.cut \/ n < whole) /\ s = Steady(q)
  OBVIOUS
<1>4. p = [pc |-> "shown", from |-> q.from, to |-> q.to, cut |-> c, overdue |-> q.overdue,
           steady |-> s, status |-> q.status, popular |-> q.popular,
           daily |-> q.daily, users |-> block]
  BY <1>2, <1>3, Zenon DEF Steady
<1>5. IsFiniteSet(S)
  BY <1>0, FiniteRows, FS_Subset DEF InPeriod
<1>6. PICK key : all = CountOf(S, key)
  BY KeysOfReport
<1>. HIDE DEF S, all
<1>7. whole \in Nat
  BY <1>5, <1>6, SumOfGroups, FS_CardinalityType, ReportAssumption DEF Limited
<1>8. ~c => ~q.cut /\ TopOf(block, TopUsers, Cardinality(S))
  <2>0. ~c => ~(n < whole) /\ ~q.cut
    BY <1>3, Zenon
  <2>1. ~c => n = whole /\ ~q.cut
    BY <1>7, <2>0
  <2>2. n = whole => TopOf(block, TopUsers, Cardinality(S))
    BY <1>5, <1>6, TopBlock, ReportAssumption
  <2>. QED  BY <2>1, <2>2
<1>9. ReportShape(p)
  BY <1>4 DEF ReportShape, Building
<1>10. ReportRead(p)
  <2>1. ASSUME s, ~c
        PROVE  /\ Sum(q.status) = Cardinality(S) /\ Sum(q.daily) = Cardinality(S)
               /\ TopOf(q.popular, TopPlaces, Cardinality(S))
               /\ TopOf(block, TopUsers, Cardinality(S))
    BY <1>0, <1>3, <1>8, <2>1 DEF ReportRead, S
  <2>. QED  BY <1>4, <2>1 DEF ReportRead
<1>. QED  BY <1>0, <1>9, <1>10, ReportMoves

LEMMA SaveInv ==
    ASSUME ReportInv, Save
    PROVE  ReportInv'
<1>. PICK q, p : q = report /\ p = report'
  OBVIOUS
<1>0. UNCHANGED vars /\ q.pc = "shown" /\ ReportShape(q) /\ ReportRead(q)
  BY DEF Save, ReportInv
<1>1. p = [q EXCEPT !.pc = "saved"]
  BY DEF Save
<1>2. p = [pc |-> "saved", from |-> q.from, to |-> q.to, cut |-> q.cut, overdue |-> q.overdue,
           steady |-> q.steady, status |-> q.status, popular |-> q.popular,
           daily |-> q.daily, users |-> q.users]
  BY <1>0, <1>1 DEF ReportShape, Building
<1>3. ReportShape(p)
  BY <1>2 DEF ReportShape, Building
<1>4. ReportRead(p)
  BY <1>0, <1>2 DEF ReportRead
<1>. QED  BY <1>0, <1>3, <1>4, ReportMoves

LEMMA CloseReportInv ==
    ASSUME ReportInv, CloseReport
    PROVE  ReportInv'
<1>. PICK p : p = report'
  OBVIOUS
<1>1. UNCHANGED vars /\ p.pc = "none"
  BY DEF CloseReport, Idle
<1>2. ReportShape(p) /\ ReportRead(p)
  BY <1>1 DEF ReportShape, ReportRead, Building
<1>. QED  BY <1>1, <1>2, ReportMoves

LEMMA ReportNextInv ==
    ASSUME ReportInv, [ReportNext]_reportVars
    PROVE  ReportInv'
<1>1. CASE [Next]_vars /\ UNCHANGED report
  <2>. PICK q : q = report
    OBVIOUS
  <2>1. TypeOK /\ TypeOK' /\ RowStep /\ StatusTargets'
    BY <1>1, NextType, StepShape DEF ReportInv
  <2>2. ReportRead(q)'
    BY <2>1, ReportReadStays DEF ReportInv
  <2>3. ReportShape(q)'
    BY DEF ReportInv, ReportShape
  <2>. QED  BY <1>1, <2>1, <2>2, <2>3 DEF ReportInv
<1>2. ASSUME NEW p \in Period, OpenReport(p) PROVE ReportInv'
  BY <1>2, OpenReportInv
<1>3. CASE ReportStep
  BY <1>3, TotalsInv, PopularInv, DailyInv, UsersInv, SaveInv, CloseReportInv DEF ReportStep
<1>4. CASE UNCHANGED reportVars
  BY <1>1, <1>4 DEF reportVars
<1>. QED  BY <1>1, <1>2, <1>3, <1>4 DEF ReportNext

LEMMA ReportInvHolds == ReportSpec => []ReportInv
<1>1. ReportInit => ReportInv
  <2>. SUFFICES ASSUME ReportInit PROVE ReportInv
    OBVIOUS
  <2>1. TypeOK /\ StatusTargets
    BY InitType, ValidTermsInit DEF ReportInit
  <2>2. report.pc = "none"
    BY DEF ReportInit, Idle
  <2>. QED  BY <2>1, <2>2 DEF ReportInv, ReportShape, ReportRead, Building
<1>2. ReportInv /\ [ReportNext]_reportVars => ReportInv'
  BY ReportNextInv
<1>. QED  BY <1>1, <1>2, PTL DEF ReportSpec

\* The four statements of Build are no snapshot, but whatever is cancelled,
\* completed or rewritten between them, the blocks of a whole report count the
\* same bookings: only a booking made or erased meanwhile sets them apart.
THEOREM BlocksAlwaysAgree == ReportSpec => []BlocksAgree
<1>1. ReportInv => BlocksAgree
  <2>. SUFFICES ASSUME ReportInv, NEW q \in Shown, q.steady, ~q.cut
                PROVE  LET total == Sum(q.status) IN
                       /\ Sum(q.daily) = total
                       /\ Sum(q.popular) <= total
                       /\ Sum(q.users) <= total
                       /\ Cardinality(DOMAIN q.popular) < TopPlaces => Sum(q.popular) = total
                       /\ Cardinality(DOMAIN q.users) < TopUsers => Sum(q.users) = total
    BY Zenon DEF BlocksAgree
  <2>1. q = report /\ q.pc \in {"shown", "saved"}
    BY DEF Shown
  <2>. QED  BY <2>1 DEF ReportInv, ReportRead, TopOf
<1>. QED  BY <1>1, ReportInvHolds, PTL

-----------------------------------------------------------------------------
(* Handlers next to a report *)

\* A report only reads: next to it the handlers behave as Spec says, so every
\* theorem about them holds while one is built.
THEOREM ReportsLeaveHandlers == ReportSpec => Spec
<1>1. ReportInit => Init
  BY DEF ReportInit
<1>2. [ReportNext]_reportVars => [Next]_vars
  BY DEF ReportNext, ReportStep, OpenReport, Totals, Popular, Daily, Users,
         Save, CloseReport, reportVars
<1>. QED  BY <1>1, <1>2, PTL DEF ReportSpec, Spec

\* What the races of the handlers can do to the table is the same while a report
\* is built.
THEOREM ReportsKeepChecks ==
    ReportSpec => [](RequestSaw /\ DoubleBookingIsRace /\ UserOverlapIsRace /\ CountedBelowLimit)
<1>. QED  BY ReportsLeaveHandlers, ChecksStayTrue, DoubleBookingOnlyByRace, UserOverlapOnlyByRace,
             LimitExceededOnlyByRace, PTL
=============================================================================
