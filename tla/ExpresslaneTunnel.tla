-------------------------- MODULE ExpresslaneTunnel --------------------------
(***************************************************************************)
(* One direction of an ExpressLane tunnel: the TX domain of the sender's   *)
(* session, the RX domain of the receiver's, a network that loses,         *)
(* repeats, reorders and damages packets, and the key rotation between     *)
(* them.  The rotation itself runs in lightway-core and the host; from     *)
(* session.rs and the README of lightway-expresslane-cffi, the sender      *)
(* stages a key, the receiver installs it once, and the sender promotes it *)
(* when the receiver has acknowledged it.                                  *)
(***************************************************************************)
EXTENDS ExpresslaneTx, ExpresslaneRx

VARIABLE rotation \* "settled", "offered", "acknowledged" or "promoting"

tunnel_vars == <<tx_vars, rx_vars, rotation>>

TunnelInit == TxInit /\ RxInit /\ rotation = "settled"

OfferKey(t) == /\ rotation = "settled"
               /\ rotation' = "offered"
               /\ Stage(t)
               /\ UNCHANGED rx_vars

InstallKey == /\ rotation = "offered"
              /\ rotation' = "acknowledged"
              /\ update_peer_key(generation)
              /\ UNCHANGED tx_vars

PromoteKey(t) == /\ rotation = "acknowledged"
                 /\ rotation' = "promoting"
                 /\ promote_self_key(t)
                 /\ UNCHANGED rx_vars

Send(t) == /\ reserve_counter(t) \/ Encrypt(t) \/ TxContinue(t)
           /\ rotation' = IF promote_return(t) THEN "settled" ELSE rotation
           /\ UNCHANGED rx_vars

\* What the network may make of a packet besides losing or repeating it.
damaged(p) == {[p EXCEPT !.counter = after(@)], [p EXCEPT !.flags = 3 - @],
               [p EXCEPT !.intact = FALSE], [p EXCEPT !.length = "truncated"],
               [p EXCEPT !.length = "short"]}

Receive(t) == /\ \/ \E p \in sent : \E q \in {p} \cup damaged(p) : Decrypt(t, q)
                 \/ RxContinue(t)
              /\ UNCHANGED <<tx_vars, rotation>>

TunnelNext == \/ \E t \in TxThreads : OfferKey(t) \/ PromoteKey(t) \/ Send(t)
              \/ InstallKey
              \/ \E t \in RxThreads : Receive(t)

TunnelSpec == TunnelInit /\ [][TunnelNext]_tunnel_vars

-----------------------------------------------------------------------------
\* What is delivered was sent, with the counter and the flags it was sent
\* with: build_aad binds both in version 2.
DeliveredWasSent == delivered \subseteq sent

\* A rotation loses no packet in flight: an undamaged packet fails to open
\* only if its key is older than the previous peer key, that is, only after a
\* second rotation has overtaken it.
NoLossInRotation ==
    \A t \in RxThreads :
        /\ rx[t].code \in {"INVALID_DATA", "KEY_NOT_SET"}
        /\ rx[t].packet \in sent
        => rx[t].packet.sealed.key < current_peer - 1
=============================================================================
