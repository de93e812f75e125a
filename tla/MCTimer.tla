------------------------------- MODULE MCTimer -------------------------------
\* The timer list on small instances.
EXTENDS TimerList, TLC

CONSTANTS p1, p2, p3

\* Three processes that sleep, and one beside an alternative.
Programs == {[sleepers |-> {p1, p2, p3}, choosers |-> {}],
             [sleepers |-> {p2}, choosers |-> {p1}]}

\* At the clock, which may pass a time before taltwt, and as far as can be.
Distances == {0, Half - MaxLag - 1}
==============================================================================
