--------------------------- MODULE MCClientWiring ---------------------------
(* A callback of each kind, registered as one of two functions, and room to *)
(* configure a client, connect it, configure it anew and connect it again.  *)
EXTENDS ClientWiring
=============================================================================
