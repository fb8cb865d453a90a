------------------------------ MODULE MCOffload ------------------------------
(* Two datagrams in flight, two threads that receive, and two rotations of  *)
(* the session id: threads adopt the ids of three epochs out of order.      *)
EXTENDS Offload
=============================================================================
