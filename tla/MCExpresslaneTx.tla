--------------------------- MODULE MCExpresslaneTx ---------------------------
(* Three threads encrypt, stage and promote on one session, through two    *)
(* key generations and up to the wrap of the counter.                      *)
EXTENDS ExpresslaneTx
=============================================================================
