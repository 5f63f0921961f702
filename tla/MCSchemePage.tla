---------------------------- MODULE MCSchemePage ----------------------------
EXTENDS SchemePage, TLC

CONSTANTS w1, w2, c1, c2

\* A coworking of one workspace each.
TwoCoworkings == (w1 :> c1) @@ (w2 :> c2)

\* A booking of the workspace the page opens with, over the middle of the day.
OthersBook == {[workspace |-> w1, from |-> 2, to |-> 3]}

\* The plain scheme.
PlainLinks ==
    {[cw |-> c1, ws |-> None, start |-> Empty, end |-> Empty, dur |-> Empty, error |-> FALSE]}

\* And with a workspace and: nothing else, a start or an end that is no time, a
\* duration that is too long, one longer than a day, the end before the start.
AllLinks ==
    LET q == [cw |-> c1, ws |-> w1, start |-> Empty, end |-> Empty, dur |-> Empty, error |-> FALSE]
    IN PlainLinks \cup
       {q, [q EXCEPT !.start = Bad], [q EXCEPT !.end = Bad], [q EXCEPT !.dur = 5], [q EXCEPT !.dur = 8],
        [q EXCEPT !.start = 5, !.end = 1]}

\* No request fails.
SteadyNext ==
    \/ UserStep
    \/ Debounced \/ Every30 \/ \E c \in Call : Serve(c) \/ Deliver(c)
    \/ OtherStep

SteadySpec == Init /\ [][SteadyNext]_pageVars

CallSymmetry == Permutations(Call)
=============================================================================
