---------------------------- MODULE ExpresslaneRx ----------------------------
(***************************************************************************)
(* The RX domain of ExpresslaneSession (session.rs): the peer keys, the    *)
(* replay window and decrypt.  Any thread may call; the rx mutex           *)
(* serialises update_peer_key and the locked part of decrypt, which is     *)
(* three steps here: the checks, the AEAD, the commit.                     *)
(***************************************************************************)
EXTENDS ReplayWindow, ExpresslaneWire

CONSTANTS RxThreads, Packets

VARIABLES current_peer, prev_peer, replay_window, peer_key_installed,
          rx_lock,   \* the thread holding the rx mutex
          rx,        \* per thread: where its decrypt is, its packet, its
                     \* output buffer, and the code last returned
          delivered, \* history: the packets decrypt returned to a caller
          repeated   \* history: those whose counter it returned again

rx_vars == <<current_peer, prev_peer, replay_window, peer_key_installed,
             rx_lock, rx, delivered, repeated>>

Packet == [counter : 0 .. MaxU64, flags : Flags,
           sealed : [key : Keys,
                     aad : [counter : 0 .. MaxU64, flags : SUBSET Flags]],
           intact : BOOLEAN, length : {"whole", "truncated", "short"}]

\* The packets that arrive, whoever made them, and the threads.
ASSUME RxAssumption == Packets \subseteq Packet /\ NoThread \notin RxThreads

NoPacket == [counter |-> 0]

\* The wire counters an authenticated packet may carry.
WireCounters == 0 .. MaxU64

RxCodes == {"none", "SUCCESS", "REPLAYED", "INSUFFICIENT_DATA",
            "BUFFER_TOO_SMALL", "KEY_NOT_SET", "INVALID_DATA"}

RxInit == /\ current_peer = NoKey /\ prev_peer = NoKey
          /\ replay_window = default_window
          /\ peer_key_installed = FALSE
          /\ rx_lock = NoThread
          /\ rx = [t \in RxThreads |-> [pc |-> "idle", packet |-> NoPacket,
                                        out |-> "untouched", code |-> "none"]]
          /\ delivered = {} /\ repeated = {}

\* decrypt returns; rx[t] remembers what the caller now holds.
RxReturn(t, packet, out, code) ==
    rx' = [rx EXCEPT ![t] = [pc |-> "idle", packet |-> packet,
                             out |-> out, code |-> code]]

-----------------------------------------------------------------------------
\* Fault: a rotation starts with an empty window.
update_peer_key_resets(key) ==
    /\ ~is_invalid(key)
    /\ rx_lock = NoThread
    /\ prev_peer' = current_peer
    /\ current_peer' = key
    /\ peer_key_installed' = TRUE
    /\ replay_window' = default_window
    /\ UNCHANGED <<rx_lock, rx, delivered, repeated>>

\* update_peer_key.  The all-zero key is refused before anything changes.
update_peer_key(key) ==
    /\ ~is_invalid(key)
    /\ rx_lock = NoThread
    /\ prev_peer' = current_peer
    /\ current_peer' = key
    /\ peer_key_installed' = TRUE
    /\ UNCHANGED <<replay_window, rx_lock, rx, delivered, repeated>>

-----------------------------------------------------------------------------
\* The checks of decrypt before the AEAD, in the order of the code; `room'
\* says that the output buffer holds data_len bytes.
precheck(packet, room) ==
    IF would_reject(replay_window, packet.counter) THEN "REPLAYED"
    ELSE IF packet.length = "truncated" THEN "INSUFFICIENT_DATA"
    ELSE IF ~room THEN "BUFFER_TOO_SMALL"
    ELSE IF current_peer = NoKey THEN "KEY_NOT_SET"
    ELSE "none"

\* A packet shorter than the header is refused without taking the lock.
decrypt_short(t, packet) ==
    /\ rx[t].pc = "idle"
    /\ packet.length = "short"
    /\ RxReturn(t, packet, "untouched", "INSUFFICIENT_DATA")
    /\ UNCHANGED <<current_peer, prev_peer, replay_window, peer_key_installed,
                   rx_lock, delivered, repeated>>

decrypt_begin(t, packet, room) ==
    /\ rx[t].pc = "idle"
    /\ packet.length # "short"
    /\ rx_lock = NoThread
    /\ LET refusal == precheck(packet, room)
       IN  IF refusal # "none"
           THEN RxReturn(t, packet, "untouched", refusal) /\ UNCHANGED rx_lock
           ELSE /\ rx_lock' = t
                /\ rx' = [rx EXCEPT ![t] = [pc |-> "opening", packet |-> packet,
                                            out |-> "untouched", code |-> "none"]]
    /\ UNCHANGED <<current_peer, prev_peer, replay_window, peer_key_installed,
                   delivered, repeated>>

\* Fault: the second copy is hoisted out of the fallback.
fresh_copy_once(buffer) == IF buffer = "untouched" THEN "ciphertext" ELSE buffer

\* out[..data_len].copy_from_slice(ciphertext).
fresh_copy(buffer) == "ciphertext"

\* The current key on a fresh copy, then the previous key on another one.
attempts(packet, out) ==
    UNION {IF first.ok \/ prev_peer = NoKey THEN {first}
           ELSE cipher_decrypt(prev_peer, packet, fresh_copy(first.out)) :
              first \in cipher_decrypt(current_peer, packet, fresh_copy(out))}

\* Fault: the buffer is left as the failed AEAD left it.
scrub_skipped(buffer) == buffer

\* out[..data_len].fill(0).
scrub(buffer) == "zero"

\* Fault: the guard is dropped between the AEAD and the commit.
decrypt_open_unlocks(t) ==
    /\ rx[t].pc = "opening"
    /\ rx_lock' = NoThread
    /\ \E attempt \in attempts(rx[t].packet, rx[t].out) :
          IF attempt.ok
          THEN rx' = [rx EXCEPT ![t].pc = "committing", ![t].out = attempt.out]
          ELSE RxReturn(t, rx[t].packet, scrub(attempt.out), "INVALID_DATA")
    /\ UNCHANGED <<current_peer, prev_peer, replay_window, peer_key_installed,
                   delivered, repeated>>

\* Fault: the counter is committed although the packet is not authentic.
decrypt_open_poisons(t) ==
    /\ rx[t].pc = "opening"
    /\ rx_lock' = NoThread
    /\ replay_window' = commit(replay_window, rx[t].packet.counter).window
    /\ \E attempt \in attempts(rx[t].packet, rx[t].out) :
          RxReturn(t, rx[t].packet, scrub(attempt.out), "INVALID_DATA")
    /\ UNCHANGED <<current_peer, prev_peer, peer_key_installed, delivered,
                   repeated>>

decrypt_open(t) ==
    /\ rx[t].pc = "opening"
    /\ \E attempt \in attempts(rx[t].packet, rx[t].out) :
          IF attempt.ok
          THEN /\ rx' = [rx EXCEPT ![t].pc = "committing", ![t].out = attempt.out]
               /\ UNCHANGED rx_lock
          ELSE /\ RxReturn(t, rx[t].packet, scrub(attempt.out), "INVALID_DATA")
               /\ rx_lock' = NoThread
    /\ UNCHANGED <<current_peer, prev_peer, replay_window, peer_key_installed,
                   delivered, repeated>>

decrypt_commit(t) ==
    LET packet == rx[t].packet
        result == commit(replay_window, packet.counter)
    IN  /\ rx[t].pc = "committing"
        /\ replay_window' = result.window
        /\ rx_lock' = NoThread
        /\ IF result.ok
           THEN /\ RxReturn(t, packet, rx[t].out, "SUCCESS")
                /\ delivered' = delivered \cup {packet}
                /\ repeated' = repeated \cup
                                {p \in delivered : p.counter = packet.counter}
           ELSE /\ RxReturn(t, packet, scrub(rx[t].out), "REPLAYED")
                /\ UNCHANGED <<delivered, repeated>>
        /\ UNCHANGED <<current_peer, prev_peer, peer_key_installed>>

Decrypt(t, packet) == \/ decrypt_short(t, packet)
                      \/ \E room \in BOOLEAN : decrypt_begin(t, packet, room)

RxContinue(t) == decrypt_open(t) \/ decrypt_commit(t)

\* The receiving half on its own: any packets, any keys, any threads.
RxNext == \/ \E key \in Keys \cup {INVALID} : update_peer_key(key)
          \/ \E t \in RxThreads :
                (\E packet \in Packets : Decrypt(t, packet)) \/ RxContinue(t)

RxSpec == RxInit /\ [][RxNext]_rx_vars

-----------------------------------------------------------------------------
delivered_counters == {p.counter : p \in delivered}

Buffers == {"untouched", "ciphertext", "zero", "scrambled", "plaintext"}

\* The receiving state has the types of the struct, and the mutex is held by
\* the thread that is inside decrypt's critical section.
RxTypeOK ==
    /\ current_peer \in Keys \cup {NoKey} /\ prev_peer \in Keys \cup {NoKey}
    /\ replay_window \in Window
    /\ peer_key_installed = (current_peer # NoKey)
    /\ rx_lock \in RxThreads \cup {NoThread}
    /\ rx \in [RxThreads -> [pc : {"idle", "opening", "committing"},
                             packet : Packet \cup {NoPacket},
                             out : Buffers,
                             code : RxCodes]]
    /\ delivered \subseteq Packet /\ repeated \subseteq delivered
    /\ \A t \in RxThreads : (rx_lock = t) <=> (rx[t].pc # "idle")
    /\ \A t \in RxThreads : rx[t].pc # "idle" => rx[t].packet \in Packet

\* Whatever the interleaving of receiving threads, key rotations, damaged and
\* repeated packets, the window of a session stands for exactly the counters
\* whose packets decrypt has returned: a packet that fails authentication
\* never moves it (the "commit only after successful authentication" of
\* decrypt).
WindowExact == Represents(replay_window, delivered_counters)

\* No counter is returned to a caller twice, not even across a key rotation.
DeliveredOnce == repeated = {}

\* The branch session.rs marks UNREACHABLE BY CONSTRUCTION is: a packet that
\* passed the pre-check is never refused by the commit, because the mutex is
\* held from one to the other.
RefusedCommitUnreachable ==
    \A t \in RxThreads :
        rx[t].pc = "committing" =>
            ~would_reject(replay_window, rx[t].packet.counter)

\* On an error the caller's buffer holds what it held before or zeros, never
\* ciphertext or unauthenticated plaintext; on success, the plaintext.
BufferClean ==
    \A t \in RxThreads :
        rx[t].pc = "idle" =>
            rx[t].out \in IF rx[t].code = "SUCCESS" THEN {"plaintext"}
                          ELSE {"untouched", "zero"}

\* The header of the packet is the one its sender sealed into it: the counter
\* and, in version 2, the flags.
AsSealed(p) ==
    /\ p.intact
    /\ p.sealed.aad = [counter |-> p.counter,
                       flags |-> IF Version = 2 THEN {p.flags} ELSE {}]

\* A delivered packet carries the counter, and in version 2 the flags, that
\* its sender sealed into it.
OnlyAuthentic == \A p \in delivered : AsSealed(p)

\* The inductive strengthening: from the pre-check to the commit the packet
\* stays fresh, and between the AEAD and the commit it is authentic and its
\* plaintext is in the buffer.
RxCore ==
    /\ RxTypeOK /\ WindowExact /\ DeliveredOnce /\ OnlyAuthentic
    /\ \A t \in RxThreads :
          rx[t].pc # "idle" =>
              /\ ~would_reject(replay_window, rx[t].packet.counter)
              /\ rx[t].pc = "committing" => /\ rx[t].out = "plaintext"
                                            /\ AsSealed(rx[t].packet)

\* A panic in the AEAD, which ExpresslaneFfi adds, spoils only the buffer.
RxInv == RxCore /\ BufferClean

\* The receiving half implements the abstract replay filter.
Filter == INSTANCE SlidingWindow WITH
              Counters <- WireCounters,
              WINDOW <- WINDOW_SIZE,
              taken <- delivered_counters,
              received <- replay_window.packets_received

ImplementsFilter == Filter!Spec
=============================================================================
