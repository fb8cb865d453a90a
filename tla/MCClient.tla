------------------------------ MODULE MCClient ------------------------------
(* Two connections of one client, two kinds of payload tick, deadlines that *)
(* are no whole number of milliseconds and one beyond the largest timeout.  *)
EXTENDS Client
=============================================================================
