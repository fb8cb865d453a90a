------------------------- MODULE MCExpresslaneTunnel -------------------------
(* A sender with two threads and a receiver, two packets and three keys:   *)
(* packets overtake one and two rotations.                                  *)
EXTENDS ExpresslaneTunnel
=============================================================================
