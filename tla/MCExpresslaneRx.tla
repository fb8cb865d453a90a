--------------------------- MODULE MCExpresslaneRx ---------------------------
(* Two threads receive genuine packets of two key generations, out of order *)
(* and repeated, and packets whose header or body was damaged on the way.   *)
EXTENDS ExpresslaneRx

Genuine(counters) == {seal(k, c, 1) : k \in Keys, c \in counters}

Damaged == LET p == seal(1, 1, 1)
           IN  {[p EXCEPT !.counter = 6], [p EXCEPT !.flags = 3],
                [p EXCEPT !.intact = FALSE], [p EXCEPT !.length = "truncated"],
                [p EXCEPT !.length = "short"]}

CONSTANT ArrivingCounters

Arriving == Genuine(ArrivingCounters) \cup Damaged
=============================================================================
