--------------------------- MODULE MCExpresslaneFfi ---------------------------
(* One sending and one receiving thread, from before the first key to a     *)
(* rotation of each; a packet of each, one with the encoded flag, which     *)
(* fail to open before their key is set, when repeated, and once a later    *)
(* key is installed twice.                                                  *)
EXTENDS ExpresslaneFfi

Arriving == {seal(1, 1, 1), seal(2, 1, 0)}
=============================================================================
