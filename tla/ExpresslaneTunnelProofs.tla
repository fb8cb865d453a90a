---------------------- MODULE ExpresslaneTunnelProofs -----------------------
(***************************************************************************)
(* The sending half of one session and the receiving half of another, over *)
(* a network that damages packets, for any number of threads, keys and     *)
(* packets.                                                                *)
(***************************************************************************)
EXTENDS ExpresslaneTunnel, ExpresslaneTxProofs, ExpresslaneRxProofs

\* The packets any sender can have made.
Sealed == SealedUpTo(MaxKey)

\* What is known of a packet fresh from encrypt.
LEMMA SealedParts ==
    ASSUME NEW last \in Int, NEW p \in SealedUpTo(last)
    PROVE  /\ p.sealed.key \in 1 .. last
           /\ p.counter \in 0 .. MaxU64 /\ p.flags \in {0, 1}
           /\ p = seal(p.sealed.key, p.counter, p.flags)
           /\ p.sealed.aad = build_aad(Version, p.counter, p.flags)
           /\ p.intact = TRUE /\ p.length = "whole"
<1>1. PICK key \in 1 .. last, c \in 0 .. MaxU64, f \in {0, 1} : p = seal(key, c, f)
  BY DEF SealedUpTo
<1>2. /\ seal(key, c, f).sealed.key = key /\ seal(key, c, f).counter = c
      /\ seal(key, c, f).flags = f
      /\ seal(key, c, f).sealed.aad = build_aad(Version, c, f)
      /\ seal(key, c, f).intact = TRUE /\ seal(key, c, f).length = "whole"
  BY DEF seal
<1> QED BY <1>1, <1>2

LEMMA SealedPacket ==
    ASSUME NEW p \in Sealed
    PROVE  /\ p \in Packet
           /\ p.sealed.key \in 1 .. MaxKey
           /\ p.counter \in 0 .. MaxU64 /\ p.flags \in {0, 1}
           /\ p.sealed.aad = build_aad(Version, p.counter, p.flags)
           /\ p.intact = TRUE /\ p.length = "whole"
<1>1. PICK key \in 1 .. MaxKey, c \in 0 .. MaxU64, f \in {0, 1} : p = seal(key, c, f)
  BY DEF Sealed, SealedUpTo
<1>2. build_aad(Version, c, f) \in [counter : 0 .. MaxU64, flags : SUBSET Flags]
  BY DEF build_aad, Flags
<1>3. key \in Keys /\ f \in Flags
  BY DEF Keys, Flags
<1>4. p \in Packet
  BY <1>1, <1>2, <1>3 DEF seal, Packet
<1>5. MaxKey \in Int /\ p \in SealedUpTo(MaxKey)
  BY WireAssumption DEF Sealed
<1> QED BY <1>4, <1>5, SealedParts, Zenon

\* The network makes packets of packets.
LEMMA DamagedPacket ==
    ASSUME NEW p \in Sealed, NEW q \in damaged(p)
    PROVE  q \in Packet
<1>1. /\ p \in Packet
      /\ p.counter \in 0 .. MaxU64 /\ p.flags \in {0, 1}
  BY SealedPacket, Zenon
<1>2. after(p.counter) \in 0 .. MaxU64 /\ 3 - p.flags \in Flags
  BY <1>1, AfterCounter, WireAssumption DEF Flags
<1>3. CASE q = [p EXCEPT !.counter = after(@)]
  BY <1>1, <1>2, <1>3 DEF Packet
<1>4. CASE q = [p EXCEPT !.flags = 3 - @]
  BY <1>1, <1>2, <1>4 DEF Packet
<1>5. CASE q = [p EXCEPT !.intact = FALSE]
  BY <1>1, <1>5, Zenon DEF Packet
<1>6. CASE q = [p EXCEPT !.length = "truncated"]
  BY <1>1, <1>6 DEF Packet
<1>7. CASE q = [p EXCEPT !.length = "short"]
  BY <1>1, <1>7 DEF Packet
<1> QED BY <1>3, <1>4, <1>5, <1>6, <1>7 DEF damaged

\* A damaged packet whose header is as sealed differs in its flags at most,
\* and in version 2 not at all.
FlagsFlipped(p) == [p EXCEPT !.flags = 3 - @]

LEMMA DamagedAsSealed ==
    ASSUME NEW p \in Sealed, NEW q \in damaged(p), AsSealed(q), q.length = "whole"
    PROVE  q = p \/ (Version = 1 /\ q = FlagsFlipped(p))
<1>1. /\ p \in Packet
      /\ p.counter \in 0 .. MaxU64 /\ p.flags \in {0, 1}
      /\ p.sealed.aad = build_aad(Version, p.counter, p.flags)
  BY SealedPacket, Zenon
<1>2. CASE q = [p EXCEPT !.counter = after(@)]
  <2>1. q.counter = after(p.counter) /\ q.sealed = p.sealed
    BY <1>1, <1>2 DEF Packet
  <2>2. after(p.counter) = p.counter
    BY <1>1, <2>1 DEF AsSealed, build_aad
  <2> QED BY <1>1, <1>2, <2>2 DEF Packet
<1>3. CASE q = [p EXCEPT !.flags = 3 - @]
  <2>1. q.flags = 3 - p.flags /\ q.sealed = p.sealed
    BY <1>1, <1>3 DEF Packet
  <2>2. Version \in {1, 2}
    BY WireAssumption DEF Version, version_from, Unknown
  <2>3. CASE Version = 2
    <3>1. p.sealed.aad.flags = {p.flags}
      BY <1>1, <2>3 DEF build_aad
    <3>2. q.sealed.aad.flags = {q.flags}
      BY <2>3 DEF AsSealed
    <3> QED BY <1>1, <2>1, <3>1, <3>2
  <2> QED BY <1>3, <2>2, <2>3 DEF FlagsFlipped
<1>4. CASE q = [p EXCEPT !.intact = FALSE]
  BY <1>1, <1>4 DEF AsSealed, Packet
<1>5. CASE q = [p EXCEPT !.length = "truncated"] \/ q = [p EXCEPT !.length = "short"]
  BY <1>1, <1>5 DEF Packet
<1> QED BY <1>2, <1>3, <1>4, <1>5 DEF damaged

\* No damage makes one sender's packet look like another: what is whole and
\* could have been sent is the packet that was.
LEMMA DamagedForeign ==
    ASSUME NEW p \in Sealed, NEW q \in damaged(p), q \in Sealed
    PROVE  q = p
<1>1. /\ q.intact = TRUE /\ q.length = "whole" /\ q.flags \in {0, 1}
      /\ q.sealed.aad = build_aad(Version, q.counter, q.flags)
      /\ p.flags \in {0, 1} /\ p \in Packet
  BY SealedPacket, Zenon
<1>2. AsSealed(q)
  BY <1>1, WireAssumption, SMTT(30) DEF AsSealed, build_aad, Version, version_from, Unknown
<1>3. q # FlagsFlipped(p)
  BY <1>1 DEF FlagsFlipped, Packet
<1> QED BY <1>1, <1>2, <1>3, DamagedAsSealed

-----------------------------------------------------------------------------
(* The rotation: where both ends are with their keys.                      *)

KeyOf(g) == IF g = 0 THEN NoKey ELSE g

\* The receiver has the key before the sender uses it, and keeps the one
\* before that.
RotationInv ==
    /\ rotation \in {"settled", "offered", "acknowledged", "promoting"}
    /\ current_self <= current_peer
    /\ prev_peer = IF current_peer <= 1 THEN NoKey ELSE current_peer - 1
    /\ IF rotation = "offered"
       THEN generation >= 1 /\ current_peer = KeyOf(generation - 1)
       ELSE current_peer = KeyOf(generation)
    /\ next_self = IF rotation \in {"offered", "acknowledged"} THEN generation
                                                               ELSE NoKey
    /\ \A t \in TxThreads : Promoting(t) => rotation = "promoting"

LEMMA KeyNumbers ==
    ASSUME TxInv, RotationInv
    PROVE  /\ generation \in Nat /\ current_self \in Int /\ current_peer \in Int
           /\ current_peer <= generation
BY DEF TxInv, TxTypeOK, KeyInv, RotationInv, KeyOf, NoKey

LEMMA RotationInit == TunnelInit => RotationInv
BY DEF TunnelInit, TxInit, RxInit, RotationInv, KeyOf, Promoting, tx_idle, NoKey

LEMMA QuietRotation ==
    ASSUME RotationInv,
           UNCHANGED <<current_peer, prev_peer, current_self, next_self, generation,
                       rotation>>,
           \A u \in TxThreads : Promoting(u)' => Promoting(u)
    PROVE  RotationInv'
BY DEF RotationInv, KeyOf, Promoting

LEMMA OfferRotation ==
    ASSUME TxInv, RotationInv, NEW t \in TxThreads, OfferKey(t)
    PROVE  RotationInv'
<1>1. /\ generation' = generation + 1 /\ next_self' = generation + 1
      /\ rotation = "settled" /\ rotation' = "offered"
      /\ UNCHANGED <<current_self, current_peer, prev_peer, tx>>
  BY DEF OfferKey, Stage, update_next_self_key, rx_vars
<1> QED BY <1>1, KeyNumbers DEF RotationInv, KeyOf, Promoting

LEMMA InstallRotation ==
    ASSUME TxInv, RotationInv, InstallKey
    PROVE  RotationInv' /\ current_peer < current_peer' /\ current_peer' \in Int
<1>1. /\ current_peer' = generation /\ prev_peer' = current_peer
      /\ rotation = "offered" /\ rotation' = "acknowledged"
      /\ UNCHANGED <<current_self, next_self, generation, tx>>
  BY DEF InstallKey, update_peer_key, tx_vars
<1>2. current_peer < generation
  BY <1>1, KeyNumbers DEF RotationInv, KeyOf, NoKey
<1> QED BY <1>1, <1>2, KeyNumbers DEF RotationInv, KeyOf, Promoting, NoKey

LEMMA PromoteRotation ==
    ASSUME TxInv, RotationInv, NEW t \in TxThreads, PromoteKey(t)
    PROVE  RotationInv'
<1>1. /\ rotation = "acknowledged" /\ rotation' = "promoting" /\ next_self' = NoKey
      /\ UNCHANGED <<current_self, current_peer, prev_peer, generation>>
  BY DEF PromoteKey, promote_self_key, bounds, rx_vars
<1> QED BY <1>1 DEF RotationInv, KeyOf, Promoting

LEMMA SendRotation ==
    ASSUME TxInv, RotationInv, NEW t \in TxThreads, Send(t)
    PROVE  RotationInv'
<1>0. TxTypeOK /\ KeyInv /\ UNCHANGED <<current_peer, prev_peer>>
  BY DEF TxInv, Send, rx_vars
<1>1. CASE reserve_counter(t)
  <2>1. Moves(t, "reserved", NoKey, after(next_counter)) /\ SameKeys
    <3>1. Moves(t, "reserved", NoKey, after(next_counter))
      BY <1>0, <1>1, ReserveMoves
    <3> QED BY <1>1, <3>1 DEF reserve_counter, SameKeys
  <2>2. rotation' = rotation
    BY <1>1 DEF Send, reserve_counter, promote_return
  <2> QED BY <1>0, <2>1, <2>2, QuietRotation DEF Moves, SameKeys, Promoting
<1>2. CASE Encrypt(t)
  <2>1. /\ \/ Moves(t, "idle", NoKey, 0)
           \/ Moves(t, "sealing", current_self, tx[t].counter)
        /\ SameKeys
    <3>1. CASE encrypt_refused(t)
      BY <1>0, <3>1, ReturnMoves, SMTT(30) DEF encrypt_refused, SameKeys, bounds
    <3>2. ASSUME NEW is_encoded \in BOOLEAN, encrypt_begin(t, is_encoded)
          PROVE  /\ \/ Moves(t, "idle", NoKey, 0)
                    \/ Moves(t, "sealing", current_self, tx[t].counter)
                 /\ SameKeys
      BY <1>0, <3>2, BeginMoves, Zenon DEF encrypt_begin, SameKeys, bounds
    <3> QED BY <1>2, <3>1, <3>2 DEF Encrypt
  <2>2. rotation' = rotation
    BY <1>2 DEF Send, Encrypt, encrypt_refused, encrypt_begin, promote_return
  <2> QED BY <1>0, <2>1, <2>2, QuietRotation DEF Moves, SameKeys, Promoting
<1>3. CASE encrypt_seal(t)
  <2>1. Moves(t, "counting", tx[t].key, tx[t].counter) /\ SameKeys
    BY <1>0, <1>3, PcMoves, Zenon DEF encrypt_seal, SameKeys, bounds
  <2>2. rotation' = rotation
    BY <1>3 DEF Send, encrypt_seal, promote_return
  <2> QED BY <1>0, <2>1, <2>2, QuietRotation DEF Moves, SameKeys, Promoting
<1>4. CASE encrypt_return(t)
  <2>1. Moves(t, "idle", NoKey, 0) /\ SameKeys
    BY <1>0, <1>4, ReturnMoves DEF encrypt_return, SameKeys, bounds
  <2>2. rotation' = rotation
    BY <1>4 DEF Send, encrypt_return, promote_return
  <2> QED BY <1>0, <2>1, <2>2, QuietRotation DEF Moves, SameKeys, Promoting
<1>5. CASE promote_lock(t)
  <2>1. /\ Moves(t, "writing", tx[t].key, tx[t].counter) /\ SameKeys /\ Promoting(t)
    BY <1>0, <1>5, PcMoves, Zenon DEF promote_lock, SameKeys, bounds, Promoting
  <2>2. rotation' = rotation
    BY <1>5 DEF Send, promote_lock, promote_return
  <2> QED BY <1>0, <2>1, <2>2, QuietRotation DEF Moves, SameKeys, Promoting
<1>6. CASE promote_flag_seen_early(t)
  <2>1. rotation' = rotation
    BY <1>6 DEF Send, promote_flag_seen_early, promote_return
  <2> QED BY <1>0, <1>6, <2>1, QuietRotation, SMTT(30)
          DEF promote_flag_seen_early, bounds, Promoting
<1>7. CASE promote_write(t)
  <2>1. /\ Moves(t, "flagging", tx[t].key, tx[t].counter) /\ Promoting(t)
        /\ current_self' = tx[t].key /\ tx[t].key \in 1 .. generation
        /\ UNCHANGED <<next_self, generation>>
    BY <1>0, <1>7, PcMoves, Zenon DEF promote_write, bounds, Promoting, KeyInv
  <2>2. rotation' = rotation
    BY <1>7 DEF Send, promote_write, promote_return
  <2>3. rotation = "promoting" /\ current_peer = KeyOf(generation)
    BY <2>1 DEF RotationInv
  <2>4. current_self' <= current_peer'
    BY <1>0, <2>1, <2>3, KeyNumbers DEF KeyOf
  <2> QED BY <1>0, <2>1, <2>2, <2>3, <2>4 DEF RotationInv, KeyOf, Moves, Promoting
<1>8. CASE promote_return(t)
  <2>1. /\ Moves(t, "idle", NoKey, 0) /\ Promoting(t)
        /\ UNCHANGED <<current_self, next_self, generation>>
    BY <1>0, <1>8, ReturnMoves DEF promote_return, bounds, Promoting
  <2>2. rotation = "promoting" /\ rotation' = "settled"
    BY <1>8, <2>1 DEF Send, RotationInv
  <2>3. \A u \in TxThreads : ~Promoting(u)'
    BY <1>0, <2>1 DEF KeyInv, Moves, Promoting
  <2> QED BY <1>0, <2>1, <2>2, <2>3 DEF RotationInv, KeyOf
<1> QED
  BY <1>1, <1>2, <1>3, <1>4, <1>5, <1>6, <1>7, <1>8, SMTT(30) DEF Send, TxContinue

-----------------------------------------------------------------------------
(* The packets between the ends.                                           *)

\* What the receiver is handed comes from a packet that was sent.
OnTheWay(q) == \E p \in sent : q \in {p} \cup damaged(p)

SentButFlags(q) == \E p \in sent : q = p \/ (Version = 1 /\ q = FlagsFlipped(p))

\* A call of decrypt is on such a packet; what it refused although it could
\* have been sent was sealed under a key older than the previous one.
CallInv(t) ==
    /\ rx[t].pc # "idle" => /\ rx[t].code = "none"
                            /\ rx[t].packet.length = "whole"
                            /\ OnTheWay(rx[t].packet)
    /\ rx[t].code \in {"INVALID_DATA", "KEY_NOT_SET"} /\ rx[t].packet \in Sealed
       => rx[t].packet.sealed.key < current_peer - 1

NetInv == /\ \A t \in RxThreads : CallInv(t)
          /\ \A q \in delivered : SentButFlags(q)

TunnelInv == TxInv /\ SealInv /\ RxInv /\ RotationInv /\ NetInv

\* The receiver has had the key of every packet that was sent.
LEMMA SentSealed ==
    ASSUME TunnelInv, NEW p \in sent
    PROVE  /\ p \in Sealed
           /\ p.sealed.key \in 1 .. current_peer
<1>1. /\ current_self \in Int /\ current_self <= current_peer
      /\ current_peer <= MaxKey /\ MaxKey \in Int /\ current_peer \in Int
  BY KeyNumbers, WireAssumption DEF TunnelInv, SealInv, RotationInv
<1>2. p \in SealedUpTo(current_self)
  BY DEF TunnelInv, SealInv
<1>3. p.sealed.key \in 1 .. current_self
  BY <1>1, <1>2, SealedParts, Zenon
<1>4. p \in SealedUpTo(MaxKey)
  BY <1>1, <1>2 DEF SealedUpTo
<1> QED BY <1>1, <1>3, <1>4 DEF Sealed

LEMMA OnTheWayPacket ==
    ASSUME TunnelInv, NEW q, OnTheWay(q)
    PROVE  q \in Packet /\ (q \in Sealed => q \in sent)
<1>1. PICK p \in sent : q \in {p} \cup damaged(p)
  BY DEF OnTheWay
<1>2. p \in Sealed
  BY SentSealed
<1> QED BY <1>1, <1>2, SealedPacket, DamagedPacket, DamagedForeign, Zenon

\* The sender's steps and a new peer key leave the receiver's calls alone.
LEMMA QuietNet ==
    ASSUME NetInv, sent \subseteq sent', UNCHANGED <<rx, delivered>>,
           current_peer \in Int, current_peer' \in Int, current_peer <= current_peer'
    PROVE  NetInv'
<1>1. \A q : /\ OnTheWay(q) => OnTheWay(q)'
             /\ SentButFlags(q) => SentButFlags(q)'
  BY DEF OnTheWay, SentButFlags
<1>2. ASSUME NEW t \in RxThreads
      PROVE  CallInv(t)'
  <2>1. CallInv(t)
    BY DEF NetInv
  <2>2. ASSUME rx[t].packet \in Sealed
        PROVE  rx[t].packet.sealed.key \in Int
    <3>1. rx[t].packet.sealed.key \in 1 .. MaxKey
      BY <2>2, SealedPacket, Zenon
    <3> QED BY <3>1, WireAssumption, SMTT(30)
  <2> QED BY <1>1, <2>1, <2>2 DEF CallInv
<1> QED BY <1>1, <1>2 DEF NetInv

\* A step of one receiving thread.
LEMMA OneReceiver ==
    ASSUME NetInv, NEW t \in RxThreads, UNCHANGED <<sent, current_peer>>,
           \A u \in RxThreads \ {t} : rx'[u] = rx[u],
           CallInv(t)',
           \A q \in delivered' \ delivered : SentButFlags(q)
    PROVE  NetInv'
<1>1. \A q : /\ OnTheWay(q)' <=> OnTheWay(q)
             /\ SentButFlags(q)' <=> SentButFlags(q)
  BY DEF OnTheWay, SentButFlags
<1>2. ASSUME NEW u \in RxThreads \ {t}
      PROVE  CallInv(u)'
  BY <1>1 DEF NetInv, CallInv
<1> QED BY <1>1, <1>2 DEF NetInv

LEMMA DecryptNet ==
    ASSUME TunnelInv, NEW t \in RxThreads, NEW p \in sent,
           NEW q \in {p} \cup damaged(p), Decrypt(t, q), UNCHANGED tx_vars
    PROVE  NetInv'
<1>1. OnTheWay(q) /\ q \in Packet
  BY OnTheWayPacket DEF OnTheWay
<1>2. current_peer # NoKey
  BY SentSealed DEF NoKey
<1>3. UNCHANGED <<sent, current_peer, delivered>>
  BY DEF tx_vars, Decrypt, decrypt_short, decrypt_begin
<1>4. /\ rx'[t].packet = q /\ rx'[t].code \notin {"INVALID_DATA", "KEY_NOT_SET"}
      /\ rx'[t].pc # "idle" => q.length = "whole"
  <2>0. DOMAIN rx = RxThreads
    BY DEF TunnelInv, RxInv, RxCore, RxTypeOK
  <2>1. CASE decrypt_short(t, q)
    BY <2>0, <2>1 DEF decrypt_short, RxReturn
  <2>2. ASSUME NEW room \in BOOLEAN, decrypt_begin(t, q, room)
        PROVE  /\ rx'[t].packet = q
               /\ rx'[t].code \notin {"INVALID_DATA", "KEY_NOT_SET"}
               /\ rx'[t].pc # "idle" => q.length = "whole"
    <3>1. CASE precheck(q, room) # "none"
      <4>1. RxReturn(t, q, "untouched", precheck(q, room))
        BY <2>2, <3>1, SMTT(30) DEF decrypt_begin
      <4>2. precheck(q, room) \notin {"INVALID_DATA", "KEY_NOT_SET"}
        BY <1>2 DEF precheck
      <4> QED BY <2>0, <4>1, <4>2 DEF RxReturn
    <3>2. CASE precheck(q, room) = "none"
      <4>1. /\ q.length # "short"
            /\ rx' = [rx EXCEPT ![t] = [pc |-> "opening", packet |-> q,
                                       out |-> "untouched", code |-> "none"]]
        BY <2>2, <3>2 DEF decrypt_begin
      <4>2. q.length # "truncated"
        BY <3>2 DEF precheck
      <4>3. q.length = "whole"
        BY <1>1, <4>1, <4>2, SMTT(30) DEF Packet
      <4> QED BY <2>0, <4>1, <4>3, SMTT(30)
    <3> QED BY <3>1, <3>2
  <2> QED BY <2>1, <2>2, SMTT(30) DEF Decrypt
<1>5. /\ rx'[t].pc # "idle" => rx'[t].code = "none"
      /\ \A u \in RxThreads \ {t} : rx'[u] = rx[u]
  BY DecryptTells DEF TunnelInv, RxInv
<1>6. OnTheWay(q)'
  BY <1>1, <1>3 DEF OnTheWay
<1>7. CallInv(t)'
  BY <1>4, <1>5, <1>6 DEF CallInv
<1> QED BY <1>3, <1>5, <1>7, OneReceiver, SMTT(30) DEF TunnelInv

\* A packet as it was sent opens under the current or the previous peer key.
LEMMA KnownKeyOpens ==
    ASSUME NEW p \in Sealed, NEW out, NEW attempt \in attempts(p, out),
           p.sealed.key \in {current_peer, prev_peer}
    PROVE  attempt.ok
<1>1. authentic(p.sealed.key, p) /\ p.sealed.key # NoKey
  <2>1. /\ p.sealed.key \in 1 .. MaxKey /\ p.intact = TRUE
        /\ p.sealed.aad = build_aad(Version, p.counter, p.flags)
    BY SealedPacket, Zenon
  <2> QED BY <2>1, WireAssumption DEF authentic, NoKey
<1>2. PICK first \in cipher_decrypt(current_peer, p, "ciphertext") :
          attempt \in IF first.ok \/ prev_peer = NoKey THEN {first}
                      ELSE cipher_decrypt(prev_peer, p, "ciphertext")
  BY Zenon DEF attempts, fresh_copy
<1>3. CASE p.sealed.key = current_peer
  <2>1. first = [ok |-> TRUE, out |-> "plaintext"]
    BY <1>1, <1>2, <1>3 DEF cipher_decrypt
  <2> QED BY <1>2, <2>1
<1>4. CASE p.sealed.key = prev_peer
  <2>1. cipher_decrypt(prev_peer, p, "ciphertext") = {[ok |-> TRUE, out |-> "plaintext"]}
    BY <1>1, <1>4 DEF cipher_decrypt
  <2>2. prev_peer # NoKey
    BY <1>1, <1>4
  <2>3. CASE first.ok
    BY <1>2, <2>3
  <2>4. CASE ~first.ok
    BY <1>2, <2>1, <2>2, <2>4, SMTT(30)
  <2> QED BY <2>3, <2>4, SMTT(30)
<1> QED BY <1>3, <1>4

LEMMA OpenNet ==
    ASSUME TunnelInv, NEW t \in RxThreads, decrypt_open(t), UNCHANGED tx_vars
    PROVE  NetInv'
<1> DEFINE p == rx[t].packet
<1>1. PICK attempt \in attempts(p, rx[t].out) :
          IF attempt.ok
          THEN rx' = [rx EXCEPT ![t].pc = "committing", ![t].out = attempt.out]
          ELSE RxReturn(t, p, scrub(attempt.out), "INVALID_DATA")
  BY DEF decrypt_open
<1>2. /\ CallInv(t) /\ rx[t].pc = "opening" /\ RxCore
      /\ UNCHANGED <<sent, current_peer, delivered>>
  BY DEF TunnelInv, NetInv, RxInv, decrypt_open, tx_vars
<1>3. /\ rx[t].code = "none" /\ p.length = "whole" /\ OnTheWay(p)
  BY <1>2 DEF CallInv
<1>4. \A q : OnTheWay(q) => OnTheWay(q)'
  BY <1>2 DEF OnTheWay
<1>5. \A u \in RxThreads \ {t} : rx'[u] = rx[u]
  BY <1>2, <1>3, ContinueTells DEF RxContinue
<1>6. CallInv(t)'
  <2>1. CASE attempt.ok
    <3>1. rx'[t].code = "none" /\ rx'[t].packet = p
      BY <1>1, <1>2, <1>3, <2>1, SMTT(30) DEF RxCore, RxTypeOK
    <3> QED BY <1>3, <1>4, <3>1 DEF CallInv
  <2>2. CASE ~attempt.ok
    <3>1. rx'[t].pc = "idle" /\ rx'[t].packet = p
      BY <1>1, <1>2, <2>2, SMTT(30) DEF RxReturn, RxCore, RxTypeOK
    <3>2. ASSUME p \in Sealed
          PROVE  p.sealed.key < current_peer - 1
      <4>1. p.sealed.key \in 1 .. current_peer
        BY <1>3, <3>2, OnTheWayPacket, SentSealed
      <4>2. p.sealed.key # current_peer /\ p.sealed.key # prev_peer
        BY <2>2, <3>2, KnownKeyOpens, SMTT(30)
      <4>3. current_peer \in Int
        BY KeyNumbers DEF TunnelInv
      <4>4. prev_peer = IF current_peer <= 1 THEN NoKey ELSE current_peer - 1
        BY DEF TunnelInv, RotationInv
      <4> DEFINE key == p.sealed.key
      <4> HIDE DEF key
      <4>5. key < current_peer - 1
        BY <4>1, <4>2, <4>3, <4>4, SMTT(30) DEF key
      <4> QED BY <4>5 DEF key
    <3> QED BY <1>2, <3>1, <3>2 DEF CallInv
  <2> QED BY <2>1, <2>2, SMTT(30)
<1> QED BY <1>2, <1>5, <1>6, OneReceiver DEF TunnelInv

LEMMA CommitNet ==
    ASSUME TunnelInv, NEW t \in RxThreads, decrypt_commit(t), UNCHANGED tx_vars
    PROVE  NetInv'
<1> DEFINE q == rx[t].packet
<1>1. /\ CallInv(t) /\ rx[t].pc = "committing" /\ RxCore
      /\ UNCHANGED <<sent, current_peer>>
  BY DEF TunnelInv, NetInv, RxInv, decrypt_commit, tx_vars
<1>2. rx[t].code = "none" /\ q.length = "whole" /\ OnTheWay(q) /\ AsSealed(q)
  BY <1>1 DEF CallInv, RxCore
<1>3. /\ delivered' = delivered \cup {q}
      /\ \A u \in RxThreads \ {t} : rx'[u] = rx[u]
  BY <1>1, <1>2, CommitAccepts, ContinueTells, SMTT(30) DEF RxContinue
<1>4. rx'[t].pc = "idle" /\ rx'[t].code = "SUCCESS"
  <2>1. RxReturn(t, q, rx[t].out, "SUCCESS")
    BY <1>1, CommitAccepts, Zenon DEF decrypt_commit
  <2>2. DOMAIN rx = RxThreads
    BY <1>1 DEF RxCore, RxTypeOK
  <2>3. rx'[t] = [pc |-> "idle", packet |-> q, out |-> rx[t].out, code |-> "SUCCESS"]
    BY <2>1, <2>2 DEF RxReturn
  <2> QED BY <2>3, SMTT(30)
<1>5. CallInv(t)'
  BY <1>4 DEF CallInv
<1>6. SentButFlags(q)
  <2>1. PICK p \in sent : q \in {p} \cup damaged(p)
    BY <1>2 DEF OnTheWay
  <2>2. p \in Sealed
    BY SentSealed
  <2>3. q = p \/ (Version = 1 /\ q = FlagsFlipped(p))
    BY <1>2, <2>1, <2>2, DamagedAsSealed
  <2> QED BY <2>3 DEF SentButFlags
<1> QED BY <1>1, <1>3, <1>5, <1>6, OneReceiver, SMTT(30) DEF TunnelInv

LEMMA TunnelInitInv == TunnelInit => TunnelInv
<1> SUFFICES ASSUME TunnelInit PROVE TunnelInv
  OBVIOUS
<1>1. TxInv /\ SealInv /\ RxInv /\ RotationInv
  BY TxInitInv, FlagInit, RxInitInv, RotationInit DEF TunnelInit, TxInv, Counted
<1>2. NetInv
  BY DEF TunnelInit, RxInit, NetInv, CallInv
<1> QED BY <1>1, <1>2 DEF TunnelInv

\* The steps of the sending end.
LEMMA SenderStep ==
    ASSUME TunnelInv, NEW t \in TxThreads, Sending(t), RotationInv', UNCHANGED rx_vars
    PROVE  TunnelInv' /\ (current_self' = current_self \/ current_self' > current_self)
<1>1. TxInv' /\ (current_self' = current_self \/ current_self' > current_self)
  BY CallsTx, ContinueTx DEF Sending, TunnelInv
<1>2. SealInv'
  BY SealStep DEF Sending, TunnelInv
<1>3. RxInv'
  BY RxStill DEF TunnelInv, RxInv
<1>4. NetInv'
  <2>1. sent \subseteq sent'
    BY DEF Sending, TxCalls, TxContinue, Encrypt, reserve_counter, encrypt_refused,
       encrypt_begin, Stage, update_next_self_key, update_next_self_key_invalid,
       promote_self_key, encrypt_seal, encrypt_return, promote_lock,
       promote_flag_seen_early, promote_write, promote_return, tx_vars
  <2>2. UNCHANGED <<rx, delivered, current_peer>> /\ current_peer \in Int
    BY KeyNumbers DEF rx_vars, TunnelInv
  <2> QED BY <2>1, <2>2, QuietNet, SMTT(30) DEF TunnelInv
<1> QED BY <1>1, <1>2, <1>3, <1>4 DEF TunnelInv

LEMMA TxStill ==
    ASSUME TxInv, SealInv, UNCHANGED tx_vars
    PROVE  TxInv' /\ SealInv'
<1>1. TxInv'
  BY StillTx DEF tx_vars, SameKeys, SameCounters
<1>2. SealInv'
  BY DEF SealInv, SealedUpTo, tx_vars
<1> QED BY <1>1, <1>2

LEMMA InstallStep ==
    ASSUME TunnelInv, InstallKey
    PROVE  TunnelInv'
<1>1. /\ RotationInv' /\ current_peer < current_peer' /\ current_peer' \in Int
      /\ current_peer \in Int
  BY InstallRotation, KeyNumbers DEF TunnelInv
<1>2. UNCHANGED <<tx_vars, rx, delivered, sent>> /\ update_peer_key(generation)
  BY DEF InstallKey, update_peer_key, tx_vars
<1>3. TxInv' /\ SealInv'
  BY <1>2, TxStill DEF TunnelInv
<1>4. RxInv'
  <2>1. generation \in Keys \cup {INVALID}
    BY KeyNumbers, WireAssumption DEF TunnelInv, SealInv, Keys, INVALID
  <2> QED BY <1>2, <2>1, UpdatePeerKeyInv DEF TunnelInv, RxInv
<1>5. NetInv'
  BY <1>1, <1>2, QuietNet DEF TunnelInv
<1> QED BY <1>1, <1>3, <1>4, <1>5 DEF TunnelInv

\* The steps of the receiving end.
LEMMA ReceiverStep ==
    ASSUME TunnelInv, NEW t \in RxThreads, Receive(t)
    PROVE  TunnelInv'
<1>1. UNCHANGED <<tx_vars, rotation, current_peer, prev_peer>>
  BY DEF Receive, Decrypt, decrypt_short, decrypt_begin, RxContinue, decrypt_open,
         decrypt_commit
<1>2. TxInv' /\ SealInv'
  BY <1>1, TxStill DEF TunnelInv
<1>3. RotationInv'
  BY <1>1, QuietRotation DEF TunnelInv, tx_vars, Promoting
<1>4. ASSUME NEW p \in sent, NEW q \in {p} \cup damaged(p), Decrypt(t, q)
      PROVE  RxInv' /\ NetInv'
  <2>1. q \in Packet
    BY OnTheWayPacket DEF OnTheWay
  <2> QED BY <1>1, <1>4, <2>1, DecryptInv, DecryptNet DEF TunnelInv, RxInv
<1>5. ASSUME RxContinue(t)
      PROVE  RxInv' /\ NetInv'
  BY <1>1, <1>5, OpenInv, CommitInv, OpenNet, CommitNet, SMTT(30)
  DEF RxContinue, TunnelInv, RxInv
<1> QED BY <1>2, <1>3, <1>4, <1>5 DEF Receive, TunnelInv

LEMMA TunnelStepInv ==
    ASSUME TunnelInv, [TunnelNext]_tunnel_vars
    PROVE  TunnelInv' /\ (current_self' = current_self \/ current_self' > current_self)
<1>1. ASSUME NEW t \in TxThreads, OfferKey(t)
      PROVE  Sending(t) /\ RotationInv' /\ UNCHANGED rx_vars
  BY <1>1, OfferRotation DEF OfferKey, Sending, TxCalls, TunnelInv
<1>2. ASSUME NEW t \in TxThreads, PromoteKey(t)
      PROVE  Sending(t) /\ RotationInv' /\ UNCHANGED rx_vars
  BY <1>2, PromoteRotation DEF PromoteKey, Sending, TxCalls, TunnelInv
<1>3. ASSUME NEW t \in TxThreads, Send(t)
      PROVE  Sending(t) /\ RotationInv' /\ UNCHANGED rx_vars
  BY <1>3, SendRotation DEF Send, Sending, TxCalls, TunnelInv
<1>4. CASE InstallKey
  BY <1>4, InstallStep DEF InstallKey, tx_vars
<1>5. ASSUME NEW t \in RxThreads, Receive(t)
      PROVE  TunnelInv' /\ current_self' = current_self
  BY <1>5, ReceiverStep DEF Receive, tx_vars
<1>6. CASE UNCHANGED tunnel_vars
  <2>1. TxInv' /\ SealInv' /\ RxInv'
    BY <1>6, TxStill, RxStill, SMTT(30) DEF tunnel_vars, TunnelInv, RxInv
  <2>2. RotationInv'
    BY <1>6, QuietRotation DEF tunnel_vars, tx_vars, rx_vars, TunnelInv, Promoting
  <2>3. NetInv'
    BY <1>6, QuietNet, KeyNumbers DEF tunnel_vars, tx_vars, rx_vars, TunnelInv
  <2> QED BY <1>6, <2>1, <2>2, <2>3 DEF TunnelInv, tunnel_vars, tx_vars
<1> QED BY <1>1, <1>2, <1>3, <1>4, <1>5, <1>6, SenderStep, SMTT(30) DEF TunnelNext

-----------------------------------------------------------------------------
\* Both ends of a tunnel keep their invariants, the receiver has every key
\* before the sender uses it, and what the receiver works on was sent.
THEOREM TunnelInvHolds == TunnelSpec => []TunnelInv
<1>1. TunnelInv /\ [TunnelNext]_tunnel_vars => TunnelInv'
  BY TunnelStepInv
<1> QED BY <1>1, TunnelInitInv, PTL DEF TunnelSpec

\* What decrypt delivers was sent; in version 1 the flags, which build_aad
\* leaves out there, may have changed on the way, and nothing else.
THEOREM DeliveredWasSentButFlags ==
    TunnelSpec => [](\A q \in delivered : SentButFlags(q))
<1>1. TunnelInv => \A q \in delivered : SentButFlags(q)
  BY DEF TunnelInv, NetInv
<1> QED BY <1>1, TunnelInvHolds, PTL

\* In version 2 what decrypt delivers was sent, flags included: build_aad
\* binds them.
THEOREM DeliveredWasSentHolds ==
    ASSUME Version = 2
    PROVE  TunnelSpec => []DeliveredWasSent
<1>1. TunnelInv => DeliveredWasSent
  BY DEF TunnelInv, NetInv, SentButFlags, DeliveredWasSent
<1> QED BY <1>1, TunnelInvHolds, PTL

\* decrypt opens every packet as encrypt made it, under the current or the
\* previous peer key, unless two rotations have overtaken it.
THEOREM NoLossInRotationHolds == TunnelSpec => []NoLossInRotation
<1>1. ASSUME TunnelInv PROVE NoLossInRotation
  BY <1>1, SentSealed DEF TunnelInv, NetInv, CallInv, NoLossInRotation
<1> QED BY <1>1, TunnelInvHolds, PTL

\* Across a network that repeats, reorders and damages packets, and across
\* rotations, counters stay unique, no counter is delivered twice, and the
\* receiver's window stands for exactly what decrypt returned.
THEOREM TunnelSafe ==
    TunnelSpec => [](UniqueCounters /\ DeliveredOnce /\ WindowExact /\ BufferClean)
<1>1. TunnelInv => UniqueCounters /\ DeliveredOnce /\ WindowExact /\ BufferClean
  BY DEF TunnelInv, TxInv, Counted, RxInv, RxCore
<1> QED BY <1>1, TunnelInvHolds, PTL

\* The rotation only ever moves the send key forward.
THEOREM TunnelKeyOrder == TunnelSpec => KeyOrder
<1>1. TunnelInv /\ [TunnelNext]_tunnel_vars =>
          [current_self' = current_self \/ current_self' > current_self]_tx_vars
  BY TunnelStepInv
<1> QED BY <1>1, TunnelInvHolds, PTL DEF TunnelSpec, KeyOrder

\* The receiving end of a tunnel implements the abstract sliding window.
THEOREM TunnelFilterRefinement == TunnelSpec => ImplementsFilter
<1>1. ASSUME TunnelInv, [TunnelNext]_tunnel_vars
      PROVE  [Filter!Next]_Filter!vars
  <2>1. CASE \E t \in RxThreads : decrypt_commit(t)
    BY <1>1, <2>1, CommitTakes DEF TunnelInv, RxInv
  <2>2. CASE ~\E t \in RxThreads : decrypt_commit(t)
    <3>1. UNCHANGED <<replay_window, delivered>>
      BY <1>1, <2>2, Zenon
      DEF TunnelNext, tunnel_vars, rx_vars, OfferKey, PromoteKey, Send, InstallKey,
          update_peer_key, Receive, RxContinue, Decrypt, decrypt_short, decrypt_begin,
          decrypt_open
    <3> QED BY <3>1, FilterStill
  <2> QED BY <2>1, <2>2
<1> QED
  BY <1>1, FilterInit, TunnelInvHolds, PTL
  DEF TunnelSpec, TunnelInit, ImplementsFilter, Filter!Spec
=============================================================================
