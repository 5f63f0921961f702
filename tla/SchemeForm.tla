----------------------------- MODULE SchemeForm -----------------------------
(***************************************************************************)
(* The three readings of the interval a user picks on the scheme: by the   *)
(* page (parseSchemeForm), by the booking (bookingCreateHandler) and by    *)
(* the browser (intervalMinutes and validateCustom of scheme.js).          *)
(*                                                                         *)
(* Time is counted in minutes from midnight of the first day; a field of a *)
(* form holds a number, nothing, or text that is no date, time or number.  *)
(* A field of minutes may be 0 for any number that is not positive.  The   *)
(* server's days all have DayLength minutes and no number overflows.       *)
(***************************************************************************)
EXTENDS Integers

CONSTANTS
    Empty, Bad,     \* a field that is missing or blank; one that does not parse
    DayLength,      \* minutes of a day
    Default,        \* defaultDurationMinutes
    MaxMinutes,     \* MaxBookingMinutes
    Durations       \* AllowedDurations

ASSUME FieldAssumption == Empty \notin Nat /\ Bad \notin Nat /\ Empty # Bad
ASSUME DurationAssumption ==
    /\ DayLength \in Nat \ {0}
    /\ Durations \subseteq 1 .. MaxMinutes
    /\ Default \in Durations
    /\ MaxMinutes \in 1 .. DayLength - 1

-----------------------------------------------------------------------------
(* GET /scheme and /api/scheme: parseSchemeForm *)

DayOf(f, now) == IF f.date \in {Empty, Bad} THEN now \div DayLength ELSE f.date

StartOf(f, now) ==
    DayOf(f, now) * DayLength + (IF f.start \in {Empty, Bad} THEN now % DayLength ELSE f.start)

\* Mutant: an end before the start is left on the same day.
UntilEndSameDay(f, now) == DayOf(f, now) * DayLength + f.end - StartOf(f, now)

\* Minutes to an end given as a time of the day: one before the start is on the
\* next day.
UntilEnd(f, now) ==
    LET m == DayOf(f, now) * DayLength + f.end - StartOf(f, now)
    IN IF m < 0 THEN m + DayLength ELSE m

\* The duration goes before the end; what is no duration, and an end equal to
\* the start, is Default.
Minutes(f, now) ==
    CASE f.dur \in Nat \ {0} -> f.dur
      [] f.dur = Empty /\ f.end \in Nat /\ UntilEnd(f, now) > 0 -> UntilEnd(f, now)
      [] OTHER -> Default

Malformed(f) ==
    \/ f.date = Bad
    \/ f.start = Bad
    \/ f.dur \in {Bad, 0}
    \/ f.dur = Empty /\ f.end = Bad

\* from, to: the interval whose occupancy is shown.  The rest is what the page
\* and its forms display; error comes with a redirect.
ParseSchemeForm(f, now) ==
    LET from == StartOf(f, now)
        to == from + Minutes(f, now)
    IN [from |-> from, to |-> to,
        date |-> IF f.date = Empty THEN now \div DayLength ELSE f.date,
        start |-> IF f.start = Empty THEN now % DayLength ELSE f.start,
        end |-> to % DayLength,
        dur |-> Minutes(f, now),
        error |-> Malformed(f) \/ f.error]

-----------------------------------------------------------------------------
(* POST /bookings/create: the end of the interval, and the checks on its length *)

Refused == [from |-> 0, to |-> 0]

\* The duration goes before the end here too; the end is on the day of the start.
Resolve(f) ==
    LET from == f.date * DayLength + f.start
        readable == {f.date, f.start} \cap {Empty, Bad} = {} /\ f.dur # Bad
    IN CASE readable /\ f.dur \in Nat \ {0} -> [from |-> from, to |-> from + f.dur]
         [] readable /\ f.dur \notin Nat \ {0} /\ f.end \in Nat ->
              [from |-> from, to |-> f.date * DayLength + f.end]
         [] OTHER -> Refused

BookedInterval(f) ==
    LET iv == Resolve(f) IN
    IF iv.to > iv.from /\ iv.to - iv.from <= MaxMinutes THEN iv ELSE Refused

-----------------------------------------------------------------------------
(* scheme.js: intervalMinutes and validateCustom *)

ClientMinutes(start, end) ==
    IF Empty \in {start, end} THEN -1
    ELSE IF end <= start THEN end + DayLength - start ELSE end - start

ValidCustom(start, end) == ClientMinutes(start, end) \in 1 .. MaxMinutes
=============================================================================
