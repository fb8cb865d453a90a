--------------------------- MODULE SlidingWindow ---------------------------
(***************************************************************************)
(* What an anti-replay window promises, with no bitmap: the receiver takes *)
(* a counter it has not taken before, unless the counter is WINDOW or more *)
(* behind the highest one it has taken.                                    *)
(***************************************************************************)
EXTENDS Integers, FiniteSets

CONSTANTS Counters, WINDOW

VARIABLES taken,    \* the counters accepted so far
          received  \* how many packets were accepted

vars == <<taken, received>>

Fresh(c) == /\ c \notin taken
            /\ \A d \in taken : d - c < WINDOW

Init == taken = {} /\ received = 0

Take(c) == /\ Fresh(c)
           /\ taken' = taken \cup {c}
           /\ received' = received + 1

Next == \E c \in Counters : Take(c)

Spec == Init /\ [][Next]_vars
=============================================================================
