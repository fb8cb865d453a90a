---------------------------- MODULE MCClientLock ----------------------------
(* Four threads over one client: they contend while one is in a body.        *)
EXTENDS ClientLock
=============================================================================
