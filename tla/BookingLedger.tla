--------------------------- MODULE BookingLedger ---------------------------
(***************************************************************************)
(* What the system promises of a booking over its life, whatever handlers  *)
(* run at the same time: it is booked once, at a place that exists and on  *)
(* terms nobody alters, is closed and never reopened, and it leaves the    *)
(* books with its place and the whole history of it.                       *)
(***************************************************************************)
EXTENDS Integers

CONSTANTS Holder, Place

VARIABLES
    ledger,         \* booking -> its terms and its state
    fresh,          \* the number of the next booking
    places          \* the places there are

Entry == [holder: Holder, place: Place, start: Nat, end: Nat, state: {"open", "closed"}]

Init ==
    /\ ledger = [n \in {} |-> {}]
    /\ fresh = 1
    /\ places \subseteq Place

\* One new entry, open and on terms that make sense; the others as they were.
Book ==
    /\ DOMAIN ledger' = DOMAIN ledger \cup {fresh}
    /\ \A n \in DOMAIN ledger : ledger'[n] = ledger[n]
    /\ ledger'[fresh] \in Entry
    /\ ledger'[fresh].state = "open"
    /\ ledger'[fresh].place \in places
    /\ ledger'[fresh].end > ledger'[fresh].start
    /\ fresh' = fresh + 1
    /\ UNCHANGED places

\* One booking by hand, or all those that are over at once.
Close(S) ==
    /\ S \subseteq DOMAIN ledger
    /\ ledger' = [n \in DOMAIN ledger |->
                    IF n \in S THEN [ledger[n] EXCEPT !.state = "closed"] ELSE ledger[n]]
    /\ UNCHANGED <<fresh, places>>

Erase(place) ==
    /\ ledger' = [n \in {m \in DOMAIN ledger : ledger[m].place # place} |-> ledger[n]]
    /\ places' = places \ {place}
    /\ UNCHANGED fresh

Next ==
    \/ Book
    \/ \E S \in SUBSET DOMAIN ledger : Close(S)
    \/ \E place \in Place : Erase(place)

Spec == Init /\ [][Next]_<<ledger, fresh, places>>
=============================================================================
