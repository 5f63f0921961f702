---------------------------- MODULE SchemeProofs ----------------------------
(***************************************************************************)
(* Theorems about the scheme in the browser, for any number of requests in *)
(* flight, any inputs and links, any bookings of others and any length of  *)
(* the day, without the bounds of the runs.                                *)
(***************************************************************************)
EXTENDS SchemePage, TLAPS

-----------------------------------------------------------------------------
(* Times of the day *)

Minute == 0 .. DayLength - 1

\* One day back at most: what a time of the day means for an end that is less
\* than a day after its start.
LEMMA OneDayBack ==
    ASSUME NEW L \in Nat \ {0}, NEW x \in 0 .. 2 * L - 1
    PROVE  x % L = IF x < L THEN x ELSE x - L
<1>1. CASE x < L
  BY <1>1, Z3
<1>2. CASE x >= L
  BY <1>2, Z3
<1>. QED  BY <1>1, <1>2

LEMMA TimeOfDay ==
    ASSUME NEW x \in Int
    PROVE  x % DayLength \in Minute
BY DurationAssumption DEF Minute

-----------------------------------------------------------------------------
(* The server's reading of a form *)

Field == Minute \cup {Empty, Bad}

Asked == [cw: Coworking, ws: Workspace \cup {None}, start: Field, end: Field,
          dur: Nat \cup {Empty, Bad}, error: BOOLEAN]

\* The questions of the browser never name a day or more.
Short(q) == q.dur \in Nat => q.dur < DayLength

\* A form without a date is about the first day.
FormFor(q) == [date |-> 0, start |-> q.start, end |-> q.end, dur |-> q.dur, error |-> q.error]

StartMinute(q) == IF q.start \in {Empty, Bad} THEN OpenAt ELSE q.start

LEMMA StartIs ==
    ASSUME NEW q \in Asked
    PROVE  /\ DayOf(FormFor(q), OpenAt) = 0
           /\ OpenAt % DayLength = OpenAt
           /\ StartOf(FormFor(q), OpenAt) = StartMinute(q)
           /\ StartMinute(q) \in Minute
<1>1. DayLength \in Nat \ {0} /\ OpenAt \in 0 .. 2 * DayLength - 1 /\ OpenAt < DayLength
  BY DurationAssumption, PageAssumption
<1>2. OpenAt % DayLength = OpenAt
  BY <1>1, OneDayBack
<1>3. DayOf(FormFor(q), OpenAt) = 0
  BY FieldAssumption DEF DayOf, FormFor
<1>4. StartMinute(q) \in Minute
  BY PageAssumption DEF StartMinute, Asked, Field, Minute
<1>5. 0 * DayLength = 0
  BY <1>1
<1>6. StartOf(FormFor(q), OpenAt) = 0 * DayLength + StartMinute(q)
  BY <1>2, <1>3 DEF StartOf, StartMinute, FormFor
<1>. QED  BY <1>2, <1>3, <1>4, <1>5, <1>6 DEF Minute

\* An end given as a time of the day is less than a day after the start.
LEMMA UntilEndIs ==
    ASSUME NEW q \in Asked, q.end \in Minute
    PROVE  /\ UntilEnd(FormFor(q), OpenAt) =
                 IF q.end < StartMinute(q) THEN q.end - StartMinute(q) + DayLength
                 ELSE q.end - StartMinute(q)
           /\ UntilEnd(FormFor(q), OpenAt) \in 0 .. DayLength - 1
<1>. DEFINE s == StartOf(FormFor(q), OpenAt)
            day == DayOf(FormFor(q), OpenAt)
<1>1. s = StartMinute(q) /\ s \in Minute /\ day = 0
  BY StartIs
<1>2. DayLength \in Nat \ {0}
  BY DurationAssumption
<1>3. FormFor(q).end = q.end
  BY DEF FormFor
<1>4. UntilEnd(FormFor(q), OpenAt) = LET m == day * DayLength + q.end - s
                                     IN IF m < 0 THEN m + DayLength ELSE m
  BY <1>3 DEF UntilEnd
<1>. HIDE DEF s, day
<1>5. day * DayLength + q.end - s = q.end - s
  BY <1>1, <1>2 DEF Minute
<1>6. UntilEnd(FormFor(q), OpenAt) = IF q.end - s < 0 THEN q.end - s + DayLength ELSE q.end - s
  BY <1>4, <1>5
<1>. QED  BY <1>1, <1>2, <1>6 DEF Minute

LEMMA MinutesAre ==
    ASSUME NEW q \in Asked
    PROVE  /\ Minutes(FormFor(q), OpenAt) \in Nat \ {0}
           /\ Short(q) => Minutes(FormFor(q), OpenAt) < DayLength
           /\ q.dur \in Nat \ {0} => Minutes(FormFor(q), OpenAt) = q.dur
           /\ q.dur = Empty /\ q.end \in Minute /\ UntilEnd(FormFor(q), OpenAt) > 0 =>
                 Minutes(FormFor(q), OpenAt) = UntilEnd(FormFor(q), OpenAt)
<1>1. FormFor(q).dur = q.dur /\ FormFor(q).end = q.end
  BY DEF FormFor
<1>2. Default \in Nat \ {0} /\ Default < DayLength /\ DayLength \in Nat \ {0}
  BY DurationAssumption
<1>3. q.end \in Nat => q.end \in Minute
  BY FieldAssumption DEF Asked, Field
<1>4. Minute \subseteq Nat
  BY DEF Minute
<1>. PICK u : u = UntilEnd(FormFor(q), OpenAt)
  OBVIOUS
<1>5. q.end \in Minute => u \in 0 .. DayLength - 1
  BY UntilEndIs
<1>6. CASE q.dur \in Nat \ {0}
  <2>1. Minutes(FormFor(q), OpenAt) = q.dur
    BY <1>1, <1>6, FieldAssumption DEF Minutes
  <2>. QED  BY <1>6, <2>1, FieldAssumption DEF Short
<1>7. CASE q.dur = Empty /\ q.end \in Minute /\ u > 0
  <2>1. Minutes(FormFor(q), OpenAt) = u
    BY <1>1, <1>4, <1>7, FieldAssumption DEF Minutes
  <2>. QED  BY <1>2, <1>5, <1>7, <2>1, FieldAssumption
<1>8. CASE q.dur \notin Nat \ {0} /\ ~(q.dur = Empty /\ q.end \in Minute /\ u > 0)
  <2>1. Minutes(FormFor(q), OpenAt) = Default
    BY <1>1, <1>3, <1>8 DEF Minutes
  <2>. QED  BY <1>2, <1>8, <2>1
<1>. QED  BY <1>6, <1>7, <1>8

LEMMA ParsedIs ==
    ASSUME NEW q \in Asked
    PROVE  /\ Parsed(q).from = StartMinute(q)
           /\ Parsed(q).dur = Minutes(FormFor(q), OpenAt)
           /\ Parsed(q).to = Parsed(q).from + Parsed(q).dur
           /\ Parsed(q).end = Parsed(q).to % DayLength
           /\ Parsed(q).start = IF q.start = Empty THEN OpenAt ELSE q.start
           /\ Parsed(q).error \in BOOLEAN
           /\ q.start = Bad => Parsed(q).error
<1>1. Parsed(q) = ParseSchemeForm(FormFor(q), OpenAt)
  BY DEF Parsed, FormFor
<1>2. FormFor(q).start = q.start
  BY DEF FormFor
<1>3. q.start = Bad => Malformed(FormFor(q))
  BY <1>2 DEF Malformed
<1>. DEFINE m == Minutes(FormFor(q), OpenAt)
<1>4. Parsed(q) = [from |-> StartMinute(q), to |-> StartMinute(q) + m,
                   date |-> IF FormFor(q).date = Empty THEN OpenAt \div DayLength ELSE FormFor(q).date,
                   start |-> IF q.start = Empty THEN OpenAt ELSE q.start,
                   end |-> (StartMinute(q) + m) % DayLength,
                   dur |-> m,
                   error |-> Malformed(FormFor(q)) \/ FormFor(q).error]
  BY <1>1, <1>2, StartIs DEF ParseSchemeForm
<1>5. (Malformed(FormFor(q)) \/ FormFor(q).error) \in BOOLEAN
  OBVIOUS
<1>. HIDE DEF m
<1>6. /\ Parsed(q).from = StartMinute(q)
      /\ Parsed(q).dur = m
      /\ Parsed(q).to = StartMinute(q) + m
      /\ Parsed(q).end = (StartMinute(q) + m) % DayLength
      /\ Parsed(q).start = IF q.start = Empty THEN OpenAt ELSE q.start
  BY <1>4
<1>7. Parsed(q).error = (Malformed(FormFor(q)) \/ FormFor(q).error)
  BY <1>4
<1>. QED  BY <1>3, <1>5, <1>6, <1>7 DEF m

-----------------------------------------------------------------------------
(* What an answer says *)

AnswerOK(d) ==
    /\ d.cw \in Coworking
    /\ d.busy \subseteq Of(d.cw)
    /\ d.selected \in Of(d.cw) \cup {None}
    /\ d.from \in Minute /\ d.dur \in Nat \ {0} /\ d.to = d.from + d.dur
    /\ d.end = d.to % DayLength /\ d.end \in Minute
    /\ d.start \in Minute \cup {Bad}
    /\ d.start = Bad => ~d.can /\ d.from = OpenAt
    /\ d.start # Bad => d.start = d.from

LEMMA AnswerIsOK ==
    ASSUME NEW t, NEW q \in Asked
    PROVE  AnswerOK(Answer(t, q)) /\ (Short(q) => Answer(t, q).dur < DayLength)
<1>1. /\ Parsed(q).from \in Minute
      /\ Parsed(q).dur \in Nat \ {0}
      /\ Short(q) => Parsed(q).dur < DayLength
      /\ Parsed(q).to = Parsed(q).from + Parsed(q).dur
  BY ParsedIs, StartIs, MinutesAre
<1>2. Parsed(q).end = Parsed(q).to % DayLength /\ Parsed(q).end \in Minute
  BY <1>1, ParsedIs, TimeOfDay DEF Minute
<1>3. /\ Parsed(q).start \in Minute \cup {Bad}
      /\ Parsed(q).start = Bad => Parsed(q).error /\ Parsed(q).from = OpenAt
      /\ Parsed(q).start # Bad => Parsed(q).start = Parsed(q).from
  <2>1. OpenAt \in Minute /\ OpenAt # Bad
    BY PageAssumption, FieldAssumption DEF Minute
  <2>. QED  BY <2>1, ParsedIs DEF Asked, Field, StartMinute
<1>4. /\ Answer(t, q).cw = q.cw /\ q.cw \in Coworking
      /\ Answer(t, q).selected = IF q.ws \in Of(q.cw) THEN q.ws ELSE None
      /\ Answer(t, q).busy \subseteq Of(q.cw)
      /\ Parsed(q).error => ~Answer(t, q).can
      /\ Answer(t, q).from = Parsed(q).from /\ Answer(t, q).to = Parsed(q).to
      /\ Answer(t, q).start = Parsed(q).start /\ Answer(t, q).end = Parsed(q).end
      /\ Answer(t, q).dur = Parsed(q).dur
  BY DEF Answer, Asked
<1>. QED  BY <1>1, <1>2, <1>3, <1>4 DEF AnswerOK

\* What a question is about does not depend on the table.
Meaning(q) == <<q.cw, IF q.ws \in Of(q.cw) THEN q.ws ELSE None, Parsed(q).from, Parsed(q).to>>

LEMMA AnswerMeans == \A t, q : About(Answer(t, q)) = Meaning(q)
BY DEF About, Answer, Meaning

-----------------------------------------------------------------------------
(* The inductive invariant *)

FormType ==
    [cw: Coworking, ws: Workspace \cup {None}, start: Minute \cup {Empty}, end: Minute \cup {Empty},
     chip: Durations \cup {Empty}, mode: {"preset", "custom"}]

\* The booking form of a card: as it was filled in, but for the coworking.  A form
\* without a duration is about less than a day.
BookOK(b, d) ==
    /\ b = [cw |-> b.cw, ws |-> b.ws, start |-> b.start, end |-> b.end, dur |-> b.dur]
    /\ b.cw \in Coworking
    /\ d.selected # None =>
          /\ b.ws = d.selected /\ b.start = d.start /\ b.end = d.end
          /\ b.dur \in {d.dur, Empty}
          /\ b.dur = Empty => d.dur < DayLength

PageOK(p) ==
    /\ p = [shown |-> p.shown, book |-> p.book, late |-> p.late, origin |-> p.origin]
    /\ AnswerOK(p.shown)
    /\ BookOK(p.book, p.shown)
    /\ p.late \in BOOLEAN

CallOK(k) ==
    \/ k = Idle
    \/ /\ k.pc = "asked"
       /\ k = [pc |-> "asked", ask |-> k.ask, before |-> k.before, late |-> k.late]
       /\ k.ask \in Asked /\ Short(k.ask)
       /\ k.late \in BOOLEAN
    \/ /\ k.pc = "answered"
       /\ k = [pc |-> "answered", data |-> k.data, before |-> k.before, late |-> k.late]
       /\ AnswerOK(k.data) /\ k.data.dur < DayLength
       /\ k.late \in BOOLEAN

\* Requests are sent one after the other: no two are before each other.
InOrder ==
    \A c \in InFlight :
        /\ call[c].before \subseteq InFlight \ {c}
        /\ \A k \in call[c].before : c \notin call[k].before

CallsOK ==
    /\ call = [c \in Call |-> call[c]]
    /\ \A c \in Call : CallOK(call[c])
    /\ InOrder

SchemeInv ==
    /\ \A b \in table : b.workspace \in Workspace /\ b.from < b.to
    /\ url \in Asked
    /\ form \in FormType
    /\ due \in BOOLEAN
    /\ CallsOK
    /\ PageOK(page)

Matter(k) == IF k.pc = "asked" THEN Meaning(k.ask) ELSE About(k.data)

\* The last request sent is in flight and is about what the inputs say.
Newest(n) ==
    /\ ~call[n].late
    /\ InFlight \ {n} \subseteq call[n].before
    /\ Matter(call[n]) = Meaning(Question)

Settled ==
    /\ \A c \in InFlight : call[c].late
    /\ page.late \/ About(page.shown) = Meaning(Question)

\* Once no timer runs for the inputs, either the last request is under way or
\* all that are come too late.
FreshInv ==
    ~due /\ Valid(form) /\ ~(form.mode = "preset" /\ form.chip = Empty)
        => Settled \/ \E n \in InFlight : Newest(n)

-----------------------------------------------------------------------------
(* Loading the page *)

\* The parameters refresh sends for the inputs f.
QuestionOf(f) ==
    [cw |-> f.cw, ws |-> f.ws, start |-> f.start,
     dur |-> IF f.mode = "preset" THEN f.chip ELSE Empty,
     end |-> IF f.mode = "custom" THEN f.end ELSE Empty,
     error |-> FALSE]

LEMMA QuestionIs == Question = QuestionOf(form)
BY DEF Question, QuestionOf

LEMMA QuestionAsked ==
    ASSUME NEW f \in FormType
    PROVE  QuestionOf(f) \in Asked /\ Short(QuestionOf(f))
<1>. PICK q : q = QuestionOf(f)
  OBVIOUS
<1>1. \A d \in Durations : d \in Nat /\ d < DayLength
  BY DurationAssumption
<1>2. q.dur \in Durations \cup {Empty}
  BY DEF FormType, QuestionOf
<1>3. Short(q) /\ q.dur \in Nat \cup {Empty, Bad}
  BY <1>1, <1>2, FieldAssumption DEF Short
<1>4. /\ q = [cw |-> q.cw, ws |-> q.ws, start |-> q.start, end |-> q.end, dur |-> q.dur, error |-> q.error]
      /\ q.cw \in Coworking /\ q.ws \in Workspace \cup {None}
      /\ q.start \in Field /\ q.end \in Field /\ q.error \in BOOLEAN
  BY DEF FormType, QuestionOf, Field
<1>5. q \in Asked
  BY <1>3, <1>4 DEF Asked
<1>. QED  BY <1>3, <1>5

\* A page filled from an answer: its inputs, if a duration is checked, ask for
\* what it shows.
LEMMA LoadedIs ==
    ASSUME NEW t, NEW q \in Asked
    PROVE  LET d == Answer(t, q) IN
           /\ FormOf(d) \in FormType
           /\ PageOK(PageOf(d))
           /\ FormOf(d).mode = "preset"
           /\ FormOf(d).chip # Empty => About(d) = Meaning(QuestionOf(FormOf(d)))
           /\ PageOf(d).shown = d
<1>. PICK d : d = Answer(t, q)
  OBVIOUS
<1>1. AnswerOK(d)
  BY AnswerIsOK
<1>2. d.selected \in Workspace \cup {None}
  BY <1>1 DEF AnswerOK, Of
<1>3. FormOf(d) \in FormType
  BY <1>1, <1>2 DEF AnswerOK, FormOf, FormType
<1>4. PageOK(PageOf(d)) /\ PageOf(d).shown = d
  <2>1. BookOK(BookFields(d, "preset"), d)
    <3>1. d.dur # Empty
      BY <1>1, FieldAssumption DEF AnswerOK
    <3>. QED  BY <1>1, <3>1 DEF AnswerOK, BookFields, BookOK
  <2>. QED  BY <1>1, <2>1 DEF PageOf, PageOK
<1>5. ASSUME FormOf(d).chip # Empty PROVE About(d) = Meaning(QuestionOf(FormOf(d)))
  <2>. PICK p : p = QuestionOf(FormOf(d))
    OBVIOUS
  <2>1. p \in Asked
    BY <1>3, QuestionAsked
  <2>2. /\ p.cw = d.cw /\ p.ws = d.selected /\ p.dur = d.dur
        /\ p.start = IF d.start = Bad THEN Empty ELSE d.start
    BY <1>5 DEF QuestionOf, FormOf
  <2>3. StartMinute(p) = d.from
    BY <1>1, <2>2, FieldAssumption DEF StartMinute, AnswerOK, Minute
  <2>4. Minutes(FormFor(p), OpenAt) = d.dur
    BY <1>1, <2>1, <2>2, MinutesAre DEF AnswerOK
  <2>5. Parsed(p).from = d.from /\ Parsed(p).to = d.to
    BY <1>1, <2>1, <2>3, <2>4, ParsedIs DEF AnswerOK
  <2>6. d.selected = IF p.ws \in Of(p.cw) THEN p.ws ELSE None
    BY <1>1, <2>2 DEF AnswerOK
  <2>. QED  BY <2>2, <2>5, <2>6 DEF About, Meaning
<1>6. FormOf(d).mode = "preset"
  BY DEF FormOf
<1>. QED  BY <1>3, <1>4, <1>5, <1>6

LEMMA LoadInv ==
    ASSUME NEW t, NEW q \in Asked, Load(t, q)
    PROVE  /\ url' \in Asked /\ form' \in FormType /\ due' \in BOOLEAN /\ CallsOK' /\ PageOK(page)'
           /\ FreshInv'
<1>. PICK d : d = Answer(t, q)
  OBVIOUS
<1>. PICK f : f = FormOf(d)
  OBVIOUS
<1>. PICK p : p = PageOf(d)
  OBVIOUS
<1>1. url' = q /\ form' = f /\ page' = p /\ due' = FALSE /\ call' = [c \in Call |-> Idle]
  BY DEF Load
<1>2. /\ f \in FormType /\ PageOK(p) /\ f.mode = "preset" /\ p.shown = d
      /\ f.chip # Empty => About(d) = Meaning(QuestionOf(f))
  BY LoadedIs
<1>3. CallsOK' /\ InFlight' = {}
  BY <1>1 DEF CallsOK, InOrder, InFlight, CallOK
<1>4. PageOK(page)'
  BY <1>1, <1>2 DEF PageOK
<1>5. Question' = QuestionOf(f)
  BY <1>1 DEF Question, QuestionOf
<1>6. FreshInv'
  <2>1. ASSUME f.chip # Empty PROVE About(page'.shown) = Meaning(Question')
    BY <1>1, <1>2, <1>5, <2>1 DEF About
  <2>. QED  BY <1>1, <1>2, <1>3, <2>1 DEF FreshInv, Settled
<1>. QED  BY <1>1, <1>2, <1>3, <1>4, <1>6

-----------------------------------------------------------------------------
(* The user and the others *)

LEMMA CallsStay == ASSUME CallsOK, UNCHANGED call PROVE CallsOK' /\ InFlight' = InFlight
BY DEF CallsOK, InOrder, InFlight, CallOK

\* An input that changes starts the timer, or is an end not to ask for.
LEMMA TouchInv ==
    ASSUME SchemeInv, NEW f \in FormType, NEW refreshes \in BOOLEAN, refreshes \/ ~Valid(f),
           Touch(f, refreshes), url' \in Asked
    PROVE  SchemeInv' /\ FreshInv'
<1>1. /\ form' = f /\ due' = (due \/ refreshes) /\ page' = [page EXCEPT !.origin = None]
      /\ UNCHANGED <<table, call>>
  BY DEF Touch
<1>2. CallsOK'
  BY <1>1, CallsStay DEF SchemeInv
<1>3. PageOK(page)'
  <2>1. PageOK(page')
    BY <1>1 DEF SchemeInv, PageOK
  <2>. QED  BY <2>1 DEF PageOK
<1>4. due' \/ ~Valid(form')
  BY <1>1
<1>5. FreshInv'
  BY <1>4 DEF FreshInv, Valid
<1>. QED  BY <1>1, <1>2, <1>3, <1>5 DEF SchemeInv

\* An input that does not go to the address.
LEMMA EnterInv ==
    ASSUME SchemeInv, NEW f \in FormType, NEW refreshes \in BOOLEAN, refreshes \/ ~Valid(f),
           Enter(f, refreshes)
    PROVE  SchemeInv' /\ FreshInv'
BY TouchInv DEF Enter, SchemeInv

LEMMA FreshAsked == \A cw \in Coworking, ws \in Workspace \cup {None} : Fresh(cw, ws) \in Asked
BY DEF Fresh, Asked, Field

LEMMA InputInv ==
    ASSUME SchemeInv,
           \/ \E w \in Workspace : ClickSeat(w)
           \/ \E s \in Start : EnterStart(s)
           \/ \E e \in End : EnterEnd(e)
           \/ \E d \in Durations : CheckChip(d)
           \/ \E m \in {"preset", "custom"} : SetMode(m)
    PROVE  SchemeInv' /\ FreshInv'
<1>0. form \in FormType
  BY DEF SchemeInv
<1>1. ASSUME NEW w \in Workspace, ClickSeat(w) PROVE SchemeInv' /\ FreshInv'
  <2>1. [form EXCEPT !.ws = w] \in FormType
    BY <1>0 DEF FormType
  <2>2. url' \in Asked
    BY <1>0, <1>1, FreshAsked DEF ClickSeat, SyncURL, FormType
  <2>. QED  BY <1>1, <2>1, <2>2, TouchInv DEF ClickSeat
<1>2. ASSUME NEW s \in Start, EnterStart(s) PROVE SchemeInv' /\ FreshInv'
  <2>1. [form EXCEPT !.start = s] \in FormType
    BY <1>0, PageAssumption DEF FormType, Minute
  <2>. QED  BY <1>2, <2>1, EnterInv DEF EnterStart
<1>3. ASSUME NEW e \in End, EnterEnd(e) PROVE SchemeInv' /\ FreshInv'
  <2>. PICK f : f = [form EXCEPT !.end = e]
    OBVIOUS
  <2>1. f \in FormType
    BY <1>0, PageAssumption DEF FormType, Minute
  <2>2. Enter(f, Valid(f)) /\ Valid(f) \in BOOLEAN
    BY <1>3 DEF EnterEnd, Valid
  <2>. QED  BY <2>1, <2>2, EnterInv
<1>4. ASSUME NEW d \in Durations, CheckChip(d) PROVE SchemeInv' /\ FreshInv'
  <2>1. [form EXCEPT !.chip = d] \in FormType
    BY <1>0 DEF FormType
  <2>. QED  BY <1>4, <2>1, EnterInv DEF CheckChip
<1>5. ASSUME NEW m \in {"preset", "custom"}, SetMode(m) PROVE SchemeInv' /\ FreshInv'
  <2>1. [form EXCEPT !.mode = m] \in FormType
    BY <1>0 DEF FormType
  <2>. QED  BY <1>5, <2>1, EnterInv DEF SetMode
<1>. QED  BY <1>1, <1>2, <1>3, <1>4, <1>5

LEMMA ChooseCoworkingInv ==
    ASSUME SchemeInv, NEW cw \in Coworking, ChooseCoworking(cw)
    PROVE  SchemeInv' /\ FreshInv'
<1>1. /\ form' = [form EXCEPT !.cw = cw, !.ws = None]
      /\ page' = [page EXCEPT !.origin = None, !.book.cw = cw]
      /\ due' = TRUE /\ UNCHANGED <<table, call>> /\ url' = Fresh(cw, None)
  BY DEF ChooseCoworking, SyncURL
<1>2. CallsOK'
  BY <1>1, CallsStay DEF SchemeInv
<1>3. form' \in FormType
  BY <1>1 DEF SchemeInv, FormType
<1>4. PageOK(page)'
  <2>. PICK b : b = page.book
    OBVIOUS
  <2>1. b = [cw |-> b.cw, ws |-> b.ws, start |-> b.start, end |-> b.end, dur |-> b.dur]
    BY DEF SchemeInv, PageOK, BookOK
  <2>. PICK c : c = [b EXCEPT !.cw = cw]
    OBVIOUS
  <2>2. /\ c = [cw |-> c.cw, ws |-> c.ws, start |-> c.start, end |-> c.end, dur |-> c.dur]
        /\ c.cw = cw /\ c.ws = b.ws /\ c.start = b.start /\ c.end = b.end /\ c.dur = b.dur
    BY <2>1
  <2>3. BookOK(c, page.shown)
    BY <2>2 DEF SchemeInv, PageOK, BookOK
  <2>4. page' = [page EXCEPT !.origin = None, !.book = c]
    BY <1>1 DEF SchemeInv, PageOK
  <2>5. PageOK(page')
    BY <2>3, <2>4 DEF SchemeInv, PageOK
  <2>. QED  BY <2>5 DEF PageOK
<1>. QED  BY <1>1, <1>2, <1>3, <1>4, FreshAsked DEF SchemeInv, FreshInv

-----------------------------------------------------------------------------
(* The booking form and the card *)

\* What the handler resolves the booking form of a card to: its interval, or
\* one that ends at the same time of the first day.
LEMMA CardInterval ==
    ASSUME NEW d, AnswerOK(d), d.can, d.selected # None, NEW b, BookOK(b, d),
           NEW f, f = [date |-> 0, start |-> b.start, end |-> b.end, dur |-> b.dur, error |-> FALSE]
    PROVE  /\ b.start = d.from /\ d.from \in Minute
           /\ b.dur = d.dur => Resolve(f) = [from |-> d.from, to |-> d.to]
           /\ b.dur = Empty => /\ Resolve(f) = [from |-> d.from, to |-> d.end]
                               /\ d.end = IF d.to < DayLength THEN d.to ELSE d.to - DayLength
                               /\ d.dur < DayLength
           /\ b.dur \in {d.dur, Empty}
<1>1. /\ d.from \in Minute /\ d.dur \in Nat \ {0} /\ d.to = d.from + d.dur
      /\ d.end = d.to % DayLength /\ d.end \in Minute /\ d.start = d.from
      /\ DayLength \in Nat \ {0}
  BY DurationAssumption DEF AnswerOK
<1>2. /\ b.start = d.from /\ b.end = d.end /\ b.dur \in {d.dur, Empty}
      /\ b.dur = Empty => d.dur < DayLength
  BY <1>1 DEF BookOK
<1>3. /\ f.date = 0 /\ f.start = d.from /\ f.end = d.end /\ f.dur = b.dur
      /\ {f.date, f.start} \cap {Empty, Bad} = {} /\ f.dur # Bad
  BY <1>1, <1>2, FieldAssumption DEF Minute
<1>4. \A x \in Minute : 0 * DayLength + x = x /\ x \in Nat
  BY <1>1 DEF Minute
<1>5. ASSUME b.dur = d.dur PROVE Resolve(f) = [from |-> d.from, to |-> d.to]
  <2>1. f.dur \in Nat \ {0}
    BY <1>1, <1>3, <1>5
  <2>2. Resolve(f) = [from |-> f.date * DayLength + f.start, to |-> f.date * DayLength + f.start + f.dur]
    BY <1>3, <2>1 DEF Resolve
  <2>. QED  BY <1>1, <1>3, <1>4, <1>5, <2>2
<1>6. ASSUME b.dur = Empty
      PROVE  /\ Resolve(f) = [from |-> d.from, to |-> d.end]
             /\ d.end = IF d.to < DayLength THEN d.to ELSE d.to - DayLength
  <2>1. f.dur \notin Nat \ {0} /\ f.end \in Nat
    BY <1>1, <1>3, <1>6, FieldAssumption DEF Minute
  <2>2. Resolve(f) = [from |-> f.date * DayLength + f.start, to |-> f.date * DayLength + f.end]
    BY <1>3, <2>1 DEF Resolve
  <2>3. d.to \in 0 .. 2 * DayLength - 1
    BY <1>1, <1>2, <1>6 DEF Minute
  <2>4. d.end = IF d.to < DayLength THEN d.to ELSE d.to - DayLength
    BY <1>1, <2>3, OneDayBack
  <2>. QED  BY <1>1, <1>3, <1>4, <2>2, <2>4
<1>. QED  BY <1>1, <1>2, <1>5, <1>6

LEMMA BooksCard ==
    ASSUME SchemeInv
    PROVE  FormBooksCard
<1>. SUFFICES ASSUME Offered PROVE LET shown == [from |-> page.shown.from, to |-> page.shown.to] IN
        /\ page.book.ws = page.shown.selected
        /\ BookedInterval(CreateFields) \in {Refused, shown}
        /\ page.book.dur \in 1 .. MaxMinutes => BookedInterval(CreateFields) = shown
  BY DEF FormBooksCard
<1>. PICK d : d = page.shown
  OBVIOUS
<1>. PICK b : b = page.book
  OBVIOUS
<1>. PICK f : f = CreateFields
  OBVIOUS
<1>1. /\ AnswerOK(d) /\ d.can /\ d.selected # None /\ BookOK(b, d)
      /\ f = [date |-> 0, start |-> b.start, end |-> b.end, dur |-> b.dur, error |-> FALSE]
  BY DEF SchemeInv, PageOK, Offered, CreateFields
<1>2. /\ d.from \in Nat /\ d.dur \in Nat \ {0} /\ d.to = d.from + d.dur
      /\ d.from < DayLength /\ DayLength \in Nat \ {0} /\ MaxMinutes \in Nat
  BY <1>1, DurationAssumption DEF AnswerOK, Minute
<1>3. b.ws = d.selected
  BY <1>1 DEF BookOK
<1>. DEFINE shown == [from |-> d.from, to |-> d.to]
<1>4. CASE b.dur = d.dur
  <2>1. Resolve(f) = shown
    BY <1>1, <1>4, CardInterval
  <2>2. shown.to > shown.from /\ shown.to - shown.from = d.dur
    BY <1>2
  <2>. HIDE DEF shown
  <2>3. BookedInterval(f) = IF d.dur <= MaxMinutes THEN shown ELSE Refused
    BY <2>1, <2>2 DEF BookedInterval
  <2>. QED  BY <1>2, <1>3, <1>4, <2>3 DEF shown
<1>5. CASE b.dur = Empty
  <2>1. /\ Resolve(f) = [from |-> d.from, to |-> d.end]
        /\ d.end = IF d.to < DayLength THEN d.to ELSE d.to - DayLength
        /\ d.dur < DayLength
    BY <1>1, <1>5, CardInterval
  <2>2. d.end # d.to => d.end <= d.from
    BY <1>2, <2>1
  <2>3. BookedInterval(f) \in {Refused, shown}
    <3>1. CASE d.end = d.to
      BY <2>1, <3>1 DEF BookedInterval
    <3>2. CASE d.end # d.to
      <4>1. d.end \in Int
        BY <1>2, <2>1
      <4>. QED  BY <1>2, <2>1, <2>2, <3>2, <4>1 DEF BookedInterval
    <3>. QED  BY <3>1, <3>2
  <2>4. b.dur \notin 1 .. MaxMinutes
    BY <1>2, <1>5, FieldAssumption
  <2>. QED  BY <1>3, <2>3, <2>4
<1>6. b.dur \in {d.dur, Empty}
  BY <1>1, CardInterval
<1>. QED  BY <1>4, <1>5, <1>6

\* The form that redirectScheme carries back, and what the page makes of it.
RefusedAsk ==
    LET iv == Resolve(CreateFields)
        b == page.book
    IN [cw |-> b.cw, ws |-> b.ws, start |-> b.start, dur |-> Empty,
        end |-> IF b.dur \in Nat \ {0} THEN iv.to % DayLength ELSE b.end,
        error |-> TRUE]

LEMMA RefusedAskIs ==
    ASSUME SchemeInv, Offered
    PROVE  LET q == RefusedAsk
               d == page.shown
           IN /\ q \in Asked
              /\ q.cw = page.book.cw /\ q.ws = d.selected /\ q.ws \in Of(d.cw)
              /\ q.start = d.from /\ q.dur = Empty
              /\ q.end = d.to % DayLength
<1>. PICK d : d = page.shown
  OBVIOUS
<1>. PICK b : b = page.book
  OBVIOUS
<1>. PICK f : f = CreateFields
  OBVIOUS
<1>. PICK q : q = RefusedAsk
  OBVIOUS
<1>1. /\ AnswerOK(d) /\ d.can /\ d.selected # None /\ BookOK(b, d)
      /\ f = [date |-> 0, start |-> b.start, end |-> b.end, dur |-> b.dur, error |-> FALSE]
  BY DEF SchemeInv, PageOK, Offered, CreateFields
<1>2. /\ d.from \in Minute /\ d.dur \in Nat \ {0} /\ d.to = d.from + d.dur
      /\ d.end = d.to % DayLength /\ d.end \in Minute
  BY <1>1 DEF AnswerOK
<1>3. /\ q.cw = b.cw /\ q.ws = b.ws /\ q.start = b.start /\ q.dur = Empty /\ q.error = TRUE
      /\ q.end = IF b.dur \in Nat \ {0} THEN Resolve(f).to % DayLength ELSE b.end
      /\ q = [cw |-> q.cw, ws |-> q.ws, start |-> q.start, dur |-> q.dur, end |-> q.end, error |-> q.error]
  BY DEF RefusedAsk
<1>4. /\ b.cw \in Coworking /\ b.ws = d.selected /\ b.end = d.end
      /\ d.selected \in Of(d.cw) /\ d.selected \in Workspace
  BY <1>1 DEF AnswerOK, BookOK, Of
<1>5. /\ b.start = d.from /\ b.dur \in {d.dur, Empty}
      /\ b.dur = d.dur => Resolve(f) = [from |-> d.from, to |-> d.to]
  BY <1>1, CardInterval
<1>6. q.end = d.end
  BY <1>2, <1>3, <1>4, <1>5, FieldAssumption
<1>7. q \in Asked
  BY <1>2, <1>3, <1>4, <1>5, <1>6 DEF Asked, Field
<1>. QED  BY <1>2, <1>3, <1>4, <1>5, <1>6, <1>7

\* Opening, reloading, and coming back from a booking that is made or refused.
LEMMA ReloadInv ==
    ASSUME SchemeInv, Reload \/ BookRefused \/ BookMade
    PROVE  SchemeInv' /\ FreshInv'
<1>1. CASE Reload
  <2>1. url \in Asked /\ Load(table, url) /\ table' = table
    BY <1>1 DEF Reload, SchemeInv
  <2>2. /\ url' \in Asked /\ form' \in FormType /\ due' \in BOOLEAN /\ CallsOK' /\ PageOK(page)'
        /\ FreshInv'
    BY <2>1, LoadInv
  <2>. QED  BY <2>1, <2>2 DEF SchemeInv
<1>2. CASE BookRefused
  <2>1. RefusedAsk \in Asked /\ Load(table, RefusedAsk) /\ table' = table
    BY <1>2, RefusedAskIs DEF BookRefused, RefusedAsk
  <2>2. /\ url' \in Asked /\ form' \in FormType /\ due' \in BOOLEAN /\ CallsOK' /\ PageOK(page)'
        /\ FreshInv'
    <3>. PICK q \in Asked : q = RefusedAsk
      BY <2>1
    <3>. QED  BY <2>1, LoadInv
  <2>. QED  BY <2>1, <2>2 DEF SchemeInv
<1>3. CASE BookMade
  <2>. DEFINE iv == BookedInterval(CreateFields)
              b == [workspace |-> page.book.ws, from |-> iv.from, to |-> iv.to]
  <2>1. b.workspace \in Workspace
    BY <1>3 DEF BookMade, Offered, SchemeInv, PageOK, AnswerOK, BookOK, Of
  <2>2. b.from < b.to
    BY <1>3 DEF BookMade, BookedInterval
  <2>3. table' = table \cup {b} /\ Load(table \cup {b}, Fresh(First, None))
    BY <1>3 DEF BookMade
  <2>4. Fresh(First, None) \in Asked
    BY FreshAsked, PageAssumption
  <2>. HIDE DEF b
  <2>5. /\ url' \in Asked /\ form' \in FormType /\ due' \in BOOLEAN /\ CallsOK' /\ PageOK(page)'
        /\ FreshInv'
    BY <2>3, <2>4, LoadInv
  <2>6. \A x \in table' : x.workspace \in Workspace /\ x.from < x.to
    BY <2>1, <2>2, <2>3 DEF SchemeInv
  <2>. QED  BY <2>5, <2>6 DEF SchemeInv
<1>. QED  BY <1>1, <1>2, <1>3

LEMMA OthersInv ==
    ASSUME SchemeInv, FreshInv, OtherStep
    PROVE  SchemeInv' /\ FreshInv'
<1>1. UNCHANGED <<url, form, due, call, page>>
  BY DEF OtherStep, OtherBooks, OtherCancels
<1>2. \A x \in table' : x.workspace \in Workspace /\ x.from < x.to
  BY PageAssumption DEF OtherStep, OtherBooks, OtherCancels, SchemeInv
<1>3. CallsOK' /\ InFlight' = InFlight
  BY <1>1, CallsStay DEF SchemeInv
<1>4. Question' = Question
  BY <1>1 DEF Question
<1>5. FreshInv'
  BY <1>1, <1>3, <1>4 DEF FreshInv, Settled, Newest, Valid, Matter, About
<1>6. PageOK(page)'
  BY <1>1 DEF SchemeInv, PageOK
<1>. QED  BY <1>1, <1>2, <1>3, <1>5, <1>6 DEF SchemeInv

-----------------------------------------------------------------------------
(* The requests *)

\* A request sent now is the newest and is about what the inputs say now.
LEMMA SendInv ==
    ASSUME SchemeInv, Send, UNCHANGED form
    PROVE  CallsOK' /\ \E n \in InFlight' : Newest(n)'
<1>. PICK n \in Call \ InFlight :
        call' = [call EXCEPT ![n] = [pc |-> "asked", ask |-> Question, before |-> InFlight, late |-> FALSE]]
  BY DEF Send
<1>. DEFINE new == [pc |-> "asked", ask |-> Question, before |-> InFlight, late |-> FALSE]
<1>1. Question \in Asked /\ Short(Question)
  BY QuestionIs, QuestionAsked DEF SchemeInv
<1>2. CallOK(new) /\ new # Idle /\ new.before = InFlight /\ new.late = FALSE /\ Matter(new) = Meaning(Question)
  BY <1>1 DEF CallOK, Idle, Matter
<1>3. call' = [call EXCEPT ![n] = new]
  OBVIOUS
<1>. HIDE DEF new
<1>4. /\ call' = [c \in Call |-> call'[c]] /\ call'[n] = new
      /\ \A c \in Call \ {n} : call'[c] = call[c]
  BY <1>3 DEF SchemeInv, CallsOK
<1>5. InFlight' = InFlight \cup {n} /\ n \notin InFlight
  BY <1>2, <1>4 DEF InFlight
<1>6. \A c \in Call : CallOK(call'[c])
  BY <1>2, <1>4 DEF SchemeInv, CallsOK
<1>7. InOrder'
  <2>1. \A c \in InFlight : call'[c].before \subseteq InFlight \ {c}
    BY <1>4, <1>5 DEF SchemeInv, CallsOK, InOrder, InFlight
  <2>2. \A c \in InFlight : \A k \in call'[c].before : c \notin call'[k].before
    BY <1>4, <1>5, <2>1 DEF SchemeInv, CallsOK, InOrder, InFlight
  <2>3. \A k \in InFlight : n \notin call'[k].before
    BY <1>5, <2>1
  <2>. QED  BY <1>2, <1>4, <1>5, <2>1, <2>2, <2>3 DEF InOrder
<1>8. CallsOK'
  BY <1>4, <1>6, <1>7 DEF CallsOK, CallOK
<1>9. Question' = Question
  BY DEF Question
<1>10. Newest(n)'
  BY <1>2, <1>4, <1>5, <1>9 DEF Newest, Matter
<1>. QED  BY <1>5, <1>8, <1>10

\* Inputs not to ask for are not valid.
LEMMA RefreshInv ==
    ASSUME SchemeInv, FreshInv, Debounced \/ Every30
    PROVE  SchemeInv' /\ FreshInv'
<1>1. /\ Refresh /\ UNCHANGED <<table, url, form, page>>
      /\ due' \in BOOLEAN /\ (due' = due \/ Debounced)
  BY DEF Debounced, Every30, SchemeInv
<1>2. PageOK(page)'
  BY <1>1 DEF SchemeInv, PageOK
<1>3. CASE Sendable
  <2>1. CallsOK' /\ \E n \in InFlight' : Newest(n)'
    BY <1>1, <1>3, SendInv DEF Refresh
  <2>. QED  BY <1>1, <1>2, <2>1 DEF SchemeInv, FreshInv
<1>4. CASE ~Sendable
  <2>1. UNCHANGED call /\ ~Valid(form)
    BY <1>1, <1>4 DEF Refresh, Sendable
  <2>2. CallsOK'
    BY <2>1, CallsStay DEF SchemeInv
  <2>3. FreshInv'
    BY <1>1, <2>1 DEF FreshInv, Valid
  <2>. QED  BY <1>1, <1>2, <2>2, <2>3 DEF SchemeInv
<1>. QED  BY <1>3, <1>4

\* The answer is about what was asked.
LEMMA ServeInv ==
    ASSUME SchemeInv, FreshInv, NEW c \in Call, Serve(c)
    PROVE  SchemeInv' /\ FreshInv'
<1>. DEFINE k == call[c]
            new == [pc |-> "answered", data |-> Answer(table, k.ask), before |-> k.before, late |-> k.late]
<1>1. /\ k.pc = "asked" /\ UNCHANGED <<table, url, form, due, page>>
      /\ call' = [call EXCEPT ![c] = new]
  BY DEF Serve
<1>2. k.ask \in Asked /\ Short(k.ask) /\ k.late \in BOOLEAN /\ c \in InFlight
  BY <1>1 DEF SchemeInv, CallsOK, CallOK, Idle, InFlight
<1>3. /\ CallOK(new) /\ new # Idle /\ new.before = k.before /\ new.late = k.late
      /\ Matter(new) = Matter(k)
  <2>. PICK d : d = Answer(table, k.ask)
    OBVIOUS
  <2>1. AnswerOK(d) /\ d.dur < DayLength /\ About(d) = Meaning(k.ask)
    BY <1>2, AnswerIsOK, AnswerMeans
  <2>. QED  BY <1>1, <1>2, <2>1 DEF CallOK, Idle, Matter
<1>. HIDE DEF new
<1>4. /\ call' = [x \in Call |-> call'[x]] /\ call'[c] = new
      /\ \A x \in Call \ {c} : call'[x] = call[x]
  BY <1>1 DEF SchemeInv, CallsOK
<1>5. InFlight' = InFlight
  BY <1>2, <1>3, <1>4 DEF InFlight
<1>6. \A x \in InFlight : /\ call'[x].before = call[x].before /\ call'[x].late = call[x].late
                          /\ Matter(call'[x]) = Matter(call[x])
  BY <1>3, <1>4 DEF InFlight
<1>7. CallsOK'
  <2>1. \A x \in Call : CallOK(call'[x])
    BY <1>3, <1>4 DEF SchemeInv, CallsOK
  <2>2. InOrder'
    BY <1>5, <1>6 DEF SchemeInv, CallsOK, InOrder
  <2>. QED  BY <1>4, <2>1, <2>2 DEF CallsOK, CallOK
<1>8. Question' = Question
  BY <1>1 DEF Question
<1>9. \A x \in InFlight : Newest(x) => Newest(x)'
  BY <1>5, <1>6, <1>8 DEF Newest, Matter
<1>10. Settled => Settled'
  BY <1>1, <1>5, <1>6, <1>8 DEF Settled, About
<1>11. FreshInv'
  BY <1>1, <1>5, <1>9, <1>10 DEF FreshInv, Valid
<1>12. PageOK(page)'
  BY <1>1 DEF SchemeInv, PageOK
<1>. QED  BY <1>1, <1>7, <1>11, <1>12 DEF SchemeInv

\* A request that is over: the others keep what they are about, those sent before
\* it are late, and the newest stays the newest.
LEMMA OverIs ==
    ASSUME SchemeInv, NEW c \in InFlight, call' = Over(c)
    PROVE  /\ CallsOK'
           /\ InFlight' = InFlight \ {c}
           /\ \A k \in InFlight \ {c} :
                 /\ call'[k].late = (call[k].late \/ k \in call[c].before)
                 /\ Matter(call'[k]) = Matter(call[k])
                 /\ InFlight \ {k} \subseteq call[k].before =>
                       (InFlight \ {c}) \ {k} \subseteq call'[k].before /\ k \notin call[c].before
<1>0. c \in Call /\ InFlight \subseteq Call
  BY DEF InFlight
<1>1. /\ call' = [k \in Call |-> call'[k]]
      /\ \A k \in Call \ (InFlight \ {c}) : call'[k] = Idle
      /\ \A k \in InFlight \ {c} :
            call'[k] = IF k \in call[c].before THEN [call[k] EXCEPT !.late = TRUE]
                       ELSE [call[k] EXCEPT !.before = @ \ {c}]
  BY <1>0 DEF Over
<1>2. ASSUME NEW k \in InFlight \ {c}
      PROVE  /\ CallOK(call'[k]) /\ call'[k] # Idle
             /\ call'[k].late = (call[k].late \/ k \in call[c].before)
             /\ call'[k].before = call[k].before \ {c}
             /\ Matter(call'[k]) = Matter(call[k])
  <2>. PICK x : x = call[k]
    OBVIOUS
  <2>. PICK y : y = call'[k]
    OBVIOUS
  <2>1. CallOK(x) /\ x # Idle /\ x.late \in BOOLEAN
    BY <1>0 DEF SchemeInv, CallsOK, CallOK, InFlight
  <2>2. /\ y.before = x.before \ {c}
        /\ y.late = (x.late \/ k \in call[c].before)
        /\ \/ x.pc = "asked" /\ y = [pc |-> "asked", ask |-> x.ask, before |-> y.before, late |-> y.late]
           \/ x.pc = "answered" /\ y = [pc |-> "answered", data |-> x.data, before |-> y.before, late |-> y.late]
    <3>1. CASE k \in call[c].before
      <4>1. c \notin x.before
        BY <3>1 DEF SchemeInv, CallsOK, InOrder
      <4>2. y = [x EXCEPT !.late = TRUE]
        BY <1>1, <3>1
      <4>3. CASE x.pc = "asked"
        BY <2>1, <3>1, <4>1, <4>2, <4>3 DEF CallOK
      <4>4. CASE x.pc = "answered"
        BY <2>1, <3>1, <4>1, <4>2, <4>4 DEF CallOK
      <4>. QED  BY <2>1, <4>3, <4>4 DEF CallOK
    <3>2. CASE k \notin call[c].before
      <4>2. y = [x EXCEPT !.before = @ \ {c}]
        BY <1>1, <3>2
      <4>3. CASE x.pc = "asked"
        BY <2>1, <3>2, <4>2, <4>3 DEF CallOK
      <4>4. CASE x.pc = "answered"
        BY <2>1, <3>2, <4>2, <4>4 DEF CallOK
      <4>. QED  BY <2>1, <4>3, <4>4 DEF CallOK
    <3>. QED  BY <3>1, <3>2
  <2>3. y.late \in BOOLEAN
    BY <2>1, <2>2
  <2>4. CallOK(y) /\ y # Idle /\ Matter(y) = Matter(x)
    <3>1. CASE x.pc = "asked"
      BY <2>1, <2>2, <2>3, <3>1 DEF CallOK, Matter, Idle
    <3>2. CASE x.pc = "answered"
      BY <2>1, <2>2, <2>3, <3>2 DEF CallOK, Matter, Idle
    <3>. QED  BY <2>2, <3>1, <3>2
  <2>. QED  BY <2>2, <2>4
<1>3. InFlight' = InFlight \ {c}
  BY <1>0, <1>1, <1>2 DEF InFlight
<1>4. CallsOK'
  <2>1. \A k \in Call : CallOK(call'[k])
    BY <1>1, <1>2 DEF CallOK
  <2>2. ASSUME NEW k \in InFlight \ {c}
        PROVE  /\ call'[k].before \subseteq (InFlight \ {c}) \ {k}
               /\ \A j \in call'[k].before : k \notin call'[j].before
    <3>1. /\ call'[k].before = call[k].before \ {c}
          /\ call[k].before \subseteq InFlight \ {k}
      BY <1>2 DEF SchemeInv, CallsOK, InOrder
    <3>2. ASSUME NEW j \in call'[k].before PROVE k \notin call'[j].before
      <4>1. j \in InFlight \ {c} /\ j \in call[k].before
        BY <3>1
      <4>2. call'[j].before = call[j].before \ {c} /\ k \notin call[j].before
        BY <1>2, <4>1 DEF SchemeInv, CallsOK, InOrder
      <4>. QED  BY <4>2
    <3>. QED  BY <3>1, <3>2
  <2>3. InOrder'
    BY <1>3, <2>2 DEF InOrder
  <2>. QED  BY <1>1, <2>1, <2>3 DEF CallsOK, CallOK
<1>5. ASSUME NEW k \in InFlight \ {c}, InFlight \ {k} \subseteq call[k].before
      PROVE  (InFlight \ {c}) \ {k} \subseteq call'[k].before /\ k \notin call[c].before
  <2>1. c \in call[k].before
    BY <1>5
  <2>2. k \notin call[c].before
    BY <2>1 DEF SchemeInv, CallsOK, InOrder
  <2>. QED  BY <1>2, <1>5, <2>2
<1>. QED  BY <1>2, <1>3, <1>4, <1>5

\* The newest request, when it is over, leaves only late ones behind; any other
\* leaves it the newest.
LEMMA OverFresh ==
    ASSUME SchemeInv, FreshInv, NEW c \in InFlight, call' = Over(c),
           due' = due, Valid(form') => Valid(form), form'.mode = form.mode, form'.chip = form.chip,
           Question' = Question, page'.late \in BOOLEAN,
           call[c].late => page'.late \/ page' = page,
           ~call[c].late => page'.late \/ About(page'.shown) = Matter(call[c])
    PROVE  FreshInv'
<1>. SUFFICES ASSUME ~due, Valid(form), ~(form.mode = "preset" /\ form.chip = Empty)
              PROVE  Settled' \/ \E n \in InFlight' : Newest(n)'
  BY DEF FreshInv, Valid
<1>1. Settled \/ \E n \in InFlight : Newest(n)
  BY DEF FreshInv
<1>2. /\ InFlight' = InFlight \ {c}
      /\ \A k \in InFlight \ {c} :
            /\ call'[k].late = (call[k].late \/ k \in call[c].before)
            /\ Matter(call'[k]) = Matter(call[k])
            /\ InFlight \ {k} \subseteq call[k].before =>
                  (InFlight \ {c}) \ {k} \subseteq call'[k].before /\ k \notin call[c].before
  BY OverIs
<1>3. CASE Settled
  <2>1. \A k \in InFlight' : call'[k].late
    BY <1>2, <1>3 DEF Settled
  <2>2. page'.late \/ About(page'.shown) = Meaning(Question')
    BY <1>3 DEF Settled
  <2>. QED  BY <2>1, <2>2 DEF Settled, About
<1>4. CASE Newest(c)
  <2>1. \A k \in InFlight' : call'[k].late
    BY <1>2, <1>4 DEF Newest
  <2>2. page'.late \/ About(page'.shown) = Meaning(Question')
    BY <1>4 DEF Newest
  <2>. QED  BY <2>1, <2>2 DEF Settled, About
<1>5. ASSUME NEW n \in InFlight \ {c}, Newest(n) PROVE Newest(n)'
  <2>1. ~call'[n].late /\ Matter(call'[n]) = Meaning(Question')
    BY <1>2, <1>5 DEF Newest
  <2>2. InFlight' \ {n} \subseteq call'[n].before
    BY <1>2, <1>5 DEF Newest
  <2>. QED  BY <2>1, <2>2 DEF Newest, Matter
<1>. QED  BY <1>1, <1>2, <1>3, <1>4, <1>5

\* applyData writes the end back only where refresh does not send it.
LEMMA DeliverInv ==
    ASSUME SchemeInv, FreshInv, NEW c \in Call, Deliver(c)
    PROVE  SchemeInv' /\ FreshInv'
<1>. PICK d : d = call[c].data
  OBVIOUS
<1>1. /\ call[c].pc = "answered" /\ UNCHANGED <<table, url, due>> /\ call' = Over(c)
      /\ form' = IF form.mode = "preset" THEN [form EXCEPT !.end = d.end] ELSE form
      /\ page' = [page EXCEPT !.shown = d,
                              !.book = IF d.selected = None THEN @ ELSE BookFields(d, form.mode),
                              !.late = call[c].late]
  BY DEF Deliver
<1>2. /\ AnswerOK(d) /\ d.dur < DayLength /\ call[c].late \in BOOLEAN /\ c \in InFlight
      /\ Matter(call[c]) = About(d)
  BY <1>1 DEF SchemeInv, CallsOK, CallOK, Idle, InFlight, Matter
<1>3. CallsOK'
  BY <1>1, <1>2, OverIs
<1>4. form' \in FormType /\ form'.mode = form.mode /\ form'.chip = form.chip /\ Question' = Question
  <2>0. form \in FormType /\ d.end \in Minute
    BY <1>2 DEF SchemeInv, AnswerOK
  <2>1. CASE form.mode = "preset"
    <3>1. /\ form' = [form EXCEPT !.end = d.end]
          /\ form' \in FormType
          /\ form'.cw = form.cw /\ form'.ws = form.ws /\ form'.start = form.start
          /\ form'.chip = form.chip /\ form'.mode = "preset"
      BY <1>1, <2>0, <2>1 DEF FormType
    <3>. QED  BY <2>1, <3>1 DEF Question
  <2>2. CASE form.mode # "preset"
    BY <1>1, <2>0, <2>2 DEF Question
  <2>. QED  BY <2>1, <2>2
<1>5. Valid(form') => Valid(form)
  BY <1>1 DEF Valid
<1>. PICK b : b = IF d.selected = None THEN page.book ELSE BookFields(d, form.mode)
  OBVIOUS
<1>6. page' = [shown |-> d, book |-> b, late |-> call[c].late, origin |-> page.origin]
  BY <1>1 DEF SchemeInv, PageOK
<1>7. BookOK(b, d)
  <2>1. CASE d.selected = None
    BY <2>1 DEF SchemeInv, PageOK, BookOK
  <2>2. CASE d.selected # None
    BY <1>2, <2>2 DEF BookFields, BookOK, AnswerOK
  <2>. QED  BY <2>1, <2>2
<1>8. PageOK(page)'
  <2>1. PageOK(page')
    BY <1>2, <1>6, <1>7 DEF PageOK
  <2>. QED  BY <2>1 DEF PageOK
<1>9. FreshInv'
  <2>1. page'.late = call[c].late /\ page'.shown = d
    BY <1>6
  <2>. QED  BY <1>1, <1>2, <1>4, <1>5, <2>1, OverFresh
<1>. QED  BY <1>1, <1>3, <1>4, <1>8, <1>9 DEF SchemeInv

LEMMA FailInv ==
    ASSUME SchemeInv, FreshInv, NEW c \in Call, Fail(c)
    PROVE  SchemeInv' /\ FreshInv'
<1>1. /\ c \in InFlight /\ call' = Over(c) /\ UNCHANGED <<table, url, form, due>>
      /\ page' = [page EXCEPT !.late = @ \/ ~call[c].late]
  BY DEF Fail
<1>2. CallsOK'
  BY <1>1, OverIs
<1>3. call[c].late \in BOOLEAN
  BY <1>1 DEF SchemeInv, CallsOK, CallOK, InFlight
<1>. PICK l : l = (page.late \/ ~call[c].late)
  OBVIOUS
<1>4. page' = [shown |-> page.shown, book |-> page.book, late |-> l, origin |-> page.origin] /\ l \in BOOLEAN
  BY <1>1 DEF SchemeInv, PageOK
<1>5. PageOK(page)'
  <2>1. PageOK(page')
    BY <1>4 DEF SchemeInv, PageOK
  <2>. QED  BY <2>1 DEF PageOK
<1>6. FreshInv'
  <2>1. Question' = Question
    BY <1>1 DEF Question
  <2>2. page'.late \in BOOLEAN /\ (~call[c].late => page'.late)
    BY <1>4
  <2>3. call[c].late => page' = page
    BY <1>3, <1>4 DEF SchemeInv, PageOK
  <2>. QED  BY <1>1, <2>1, <2>2, <2>3, OverFresh
<1>. QED  BY <1>1, <1>2, <1>5, <1>6 DEF SchemeInv

-----------------------------------------------------------------------------
(* Every step *)

LEMMA SchemeNext ==
    ASSUME SchemeInv, FreshInv, [Next]_pageVars
    PROVE  SchemeInv' /\ FreshInv'
<1>1. CASE UNCHANGED pageVars
  <2>1. UNCHANGED <<table, url, form, due, call, page>>
    BY <1>1 DEF pageVars
  <2>2. CallsOK' /\ InFlight' = InFlight
    BY <2>1, CallsStay DEF SchemeInv
  <2>3. PageOK(page)'
    BY <2>1 DEF SchemeInv, PageOK
  <2>4. Question' = Question
    BY <2>1 DEF Question
  <2>5. FreshInv'
    BY <2>1, <2>2, <2>4 DEF FreshInv, Settled, Newest, Valid, Matter, About
  <2>. QED  BY <2>1, <2>2, <2>3, <2>5 DEF SchemeInv
<1>2. CASE UserStep
  BY <1>2, ChooseCoworkingInv, InputInv, ReloadInv DEF UserStep
<1>3. CASE PageStep
  BY <1>3, RefreshInv, ServeInv, DeliverInv, FailInv DEF PageStep
<1>4. CASE OtherStep
  BY <1>4, OthersInv
<1>. QED  BY <1>1, <1>2, <1>3, <1>4 DEF Next

LEMMA SchemeInit == Init => SchemeInv /\ FreshInv
<1>. SUFFICES ASSUME Init PROVE SchemeInv /\ FreshInv
  OBVIOUS
<1>. PICK q \in Links : url = q /\ form = FormOf(Answer({}, q)) /\ page = PageOf(Answer({}, q))
  BY DEF Init
<1>1. q \in Asked
  BY PageAssumption DEF Asked, Field, Minute
<1>2. /\ form \in FormType /\ PageOK(page) /\ form.mode = "preset"
      /\ form.chip # Empty => About(page.shown) = Meaning(QuestionOf(form))
  BY <1>1, LoadedIs
<1>3. table = {} /\ due = FALSE /\ call = [c \in Call |-> Idle]
  BY DEF Init
<1>4. CallsOK /\ InFlight = {}
  BY <1>3 DEF CallsOK, InOrder, InFlight, CallOK
<1>5. FreshInv
  BY <1>2, <1>4, QuestionIs DEF FreshInv, Settled
<1>. QED  BY <1>1, <1>2, <1>3, <1>4, <1>5 DEF SchemeInv

LEMMA SchemeHolds == Spec => [](SchemeInv /\ FreshInv)
BY SchemeInit, SchemeNext, PTL DEF Spec

-----------------------------------------------------------------------------
(* What the page shows and books *)

\* What the page holds is well formed, whatever the user, the others, the network
\* and the links do; the requests it waits for were sent one after the other.
THEOREM SchemeTypeCorrect == Spec => []SchemeTypeOK
<1>1. SchemeInv => SchemeTypeOK
  <2>. SUFFICES ASSUME SchemeInv PROVE SchemeTypeOK
    OBVIOUS
  <2>. PICK d : d = page.shown
    OBVIOUS
  <2>. PICK b : b = page.book
    OBVIOUS
  <2>1. AnswerOK(d) /\ BookOK(b, d)
    BY DEF SchemeInv, PageOK
  <2>2. d.from < d.to
    BY <2>1 DEF AnswerOK, Minute
  <2>3. /\ d.busy \subseteq Of(d.cw) /\ d.selected \in Of(d.cw) \cup {None}
        /\ b.ws = None => d.selected = None
    BY <2>1 DEF AnswerOK, BookOK
  <2>4. /\ \A x \in table : x.workspace \in Workspace /\ x.from < x.to
        /\ form \in FormType /\ due \in BOOLEAN
        /\ url.cw \in Coworking /\ url.ws \in Workspace \cup {None}
        /\ \A c \in InFlight : call[c].before \subseteq InFlight \ {c}
    BY DEF SchemeInv, CallsOK, InOrder, Asked
  <2>. QED  BY <2>2, <2>3, <2>4 DEF SchemeTypeOK, FormType, Minute
<1>. QED  BY <1>1, SchemeHolds, PTL

\* At rest the page is about what the inputs say, unless a later request was
\* answered first or failed, the custom interval is not one to ask for, or no
\* duration is checked.
THEOREM StaleOnlyByRace == Spec => []StaleIsRace
<1>1. FreshInv => StaleIsRace
  BY AnswerMeans DEF FreshInv, Settled, StaleIsRace, AtRest
<1>. QED  BY <1>1, SchemeHolds, PTL

\* The button books the workspace and the interval of the card, whatever the
\* inputs and the mode have become since the answer, or nothing.
THEOREM FormAlwaysBooksCard == Spec => []FormBooksCard
BY BooksCard, SchemeHolds, PTL

\* A custom interval the browser lets through has the same length for the server,
\* across midnight too.
THEOREM BrowserAlwaysMeansServer == Spec => []BrowserMeansServer
<1>1. SchemeInv => BrowserMeansServer
  <2>. SUFFICES ASSUME SchemeInv, form.mode = "custom", Valid(form)
                PROVE  Parsed(Question).dur = ClientMinutes(form.start, form.end)
    BY DEF BrowserMeansServer
  <2>. PICK q : q = Question
    OBVIOUS
  <2>1. q \in Asked /\ q.start = form.start /\ q.end = form.end /\ q.dur = Empty
    BY QuestionIs, QuestionAsked DEF SchemeInv, QuestionOf
  <2>2. ClientMinutes(form.start, form.end) \in 1 .. MaxMinutes /\ MaxMinutes \in 1 .. DayLength - 1
    BY DurationAssumption DEF Valid, ValidCustom
  <2>3. form.start \in Minute /\ form.end \in Minute
    BY <2>2 DEF SchemeInv, FormType, ClientMinutes
  <2>4. StartMinute(q) = form.start
    BY <2>1, <2>3, FieldAssumption DEF StartMinute, Minute
  <2>5. UntilEnd(FormFor(q), OpenAt) = ClientMinutes(form.start, form.end)
    <3>1. ClientMinutes(form.start, form.end) =
             IF form.end <= form.start THEN form.end + DayLength - form.start
             ELSE form.end - form.start
      BY <2>3, FieldAssumption DEF ClientMinutes, Minute
    <3>2. UntilEnd(FormFor(q), OpenAt) =
             IF form.end < form.start THEN form.end - form.start + DayLength
             ELSE form.end - form.start
      BY <2>1, <2>3, <2>4, UntilEndIs
    <3>. PICK L \in Nat : L = DayLength
      BY DurationAssumption
    <3>. PICK m \in Nat : m = ClientMinutes(form.start, form.end)
      BY <2>2
    <3>. PICK s \in Nat : s = form.start
      BY <2>3 DEF Minute
    <3>. PICK e \in Nat : e = form.end
      BY <2>3 DEF Minute
    <3>3. m < L
      BY <2>2
    <3>4. m = IF e <= s THEN e + L - s ELSE e - s
      BY <3>1
    <3>5. e # s /\ m = IF e < s THEN e - s + L ELSE e - s
      BY ONLY <3>3, <3>4, m \in Nat, L \in Nat, e \in Nat, s \in Nat
    <3>. QED  BY <3>2, <3>5
  <2>6. Parsed(q).dur = UntilEnd(FormFor(q), OpenAt)
    BY <2>1, <2>2, <2>3, <2>5, MinutesAre, ParsedIs
  <2>. QED  BY <2>5, <2>6
<1>. QED  BY <1>1, SchemeHolds, PTL

\* A booking that is refused comes back to its card, across midnight too: the
\* page recovers the interval from the end alone.
THEOREM RefusalAlwaysKeepsCard == Spec => RefusalKeepsCard
<1>1. ASSUME SchemeInv, BookRefused, page.book.cw = page.shown.cw, page.shown.dur < DayLength
      PROVE  About(page'.shown) = About(page.shown)
  <2>. PICK d : d = page.shown
    OBVIOUS
  <2>. PICK q : q = RefusedAsk
    OBVIOUS
  <2>1. /\ q \in Asked /\ q.cw = d.cw /\ q.ws = d.selected /\ q.ws \in Of(d.cw)
        /\ q.start = d.from /\ q.dur = Empty /\ q.end = d.to % DayLength
    BY <1>1, RefusedAskIs DEF BookRefused
  <2>2. /\ d.from \in Minute /\ d.dur \in Nat \ {0} /\ d.to = d.from + d.dur
        /\ d.dur < DayLength /\ DayLength \in Nat \ {0}
    BY <1>1, DurationAssumption DEF SchemeInv, PageOK, AnswerOK
  <2>3. q.end = IF d.to < DayLength THEN d.to ELSE d.to - DayLength
    <3>1. d.to \in 0 .. 2 * DayLength - 1
      BY <2>2 DEF Minute
    <3>. QED  BY <2>1, <2>2, <3>1, OneDayBack
  <2>4. StartMinute(q) = d.from
    BY <2>1, <2>2, FieldAssumption DEF StartMinute, Minute
  <2>5. q.end \in Minute
    BY <2>2, <2>3 DEF Minute
  <2>6. UntilEnd(FormFor(q), OpenAt) = d.dur
    <3>1. UntilEnd(FormFor(q), OpenAt) =
             IF q.end < d.from THEN q.end - d.from + DayLength ELSE q.end - d.from
      BY <2>1, <2>4, <2>5, UntilEndIs
    <3>. QED  BY <2>2, <2>3, <3>1 DEF Minute
  <2>7. Parsed(q).from = d.from /\ Parsed(q).to = d.to
    BY <2>1, <2>2, <2>4, <2>5, <2>6, MinutesAre, ParsedIs
  <2>8. page'.shown = Answer(table, q)
    BY <1>1 DEF BookRefused, RefusedAsk, Load, PageOf
  <2>. QED  BY <2>1, <2>7, <2>8, AnswerMeans DEF About, Meaning
<1>2. SchemeInv => [BookRefused /\ page.book.cw = page.shown.cw /\ page.shown.dur < DayLength
                       => About(page'.shown) = About(page.shown)]_pageVars
  BY <1>1
<1>. QED  BY <1>2, SchemeHolds, PTL DEF RefusalKeepsCard
=============================================================================
