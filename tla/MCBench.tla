------------------------------- MODULE MCBench -------------------------------
(* All ten arms; pools at and above the floor; up to three rounds; one pass  *)
(* in which the AEAD refuses the first, the last or every packet.            *)
EXTENDS Bench
=============================================================================
