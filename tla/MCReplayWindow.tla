--------------------------- MODULE MCReplayWindow ---------------------------
(* The replay window and its test oracle for TLC.  MaxU64 plays u64::MAX:  *)
(* one less than a multiple of the window size, as 2^64 is of 8192.        *)
EXTENDS DifferentialWindow

CONSTANT MaxU64

ASSUME (MaxU64 + 1) % WINDOW_SIZE = 0 /\ Counters \subseteq 0 .. MaxU64
=============================================================================
