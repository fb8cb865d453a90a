---------------------------- MODULE ExpresslaneFfi ----------------------------
(***************************************************************************)
(* The C ABI of a session (lightway-expresslane-cffi/src/lib.rs): the null *)
(* checks, the out-params of encrypt and decrypt, which a caller reuses    *)
(* from packet to packet, and ffi_guard, which turns a panic into an error *)
(* code.  A panic can strike where foreign code runs, in the AEAD; the     *)
(* lock it unwinds through is poisoned, which every later lock ignores.    *)
(***************************************************************************)
EXTENDS ExpresslaneSession

\* A thread that sends and receives is two of them, with out-params for each.
ASSUME FfiAssumption == TxThreads \cap RxThreads = {}

VARIABLES session, \* the caller's handle: not "live", it is NULL
          ffi      \* per thread: its out-params and the code of its last
                   \* encrypt or decrypt

ffi_vars == <<tx_vars, rx_vars, hint_vars, session, ffi>>

\* An out-param is 0, the value of a success (1 for a length), or Prior, what
\* the caller's variable held before its first call.
Prior == -1

FfiInit == /\ SessionInit
           /\ session = "none"
           /\ ffi = [t \in TxThreads \cup RxThreads |->
                       [out_len |-> Prior, is_encoded |-> Prior, code |-> "none"]]

-----------------------------------------------------------------------------
\* An unrecognised version byte yields NULL.
session_create(version) ==
    /\ session = "none"
    /\ session' = IF version_from(version) = Unknown THEN "none" ELSE "live"
    /\ UNCHANGED <<tx_vars, rx_vars, hint_vars, ffi>>

\* The caller quiesces its threads first, as the contract demands, and drops
\* the handle.  The next session shares nothing with this one.
session_destroy ==
    /\ session = "live"
    /\ \A t \in TxThreads \cup RxThreads : Idle(t)
    /\ session' = "gone"
    /\ UNCHANGED <<tx_vars, rx_vars, hint_vars, ffi>>

\* A NULL session or other pointer is refused before anything is written, the
\* out-params included.
null_pointer(t) ==
    /\ Idle(t)
    /\ ffi' = [ffi EXCEPT ![t].code = "NULL_POINTER"]
    /\ UNCHANGED <<tx_vars, rx_vars, hint_vars, session>>

\* Fault: the out-params are written on success only.
out_params_kept(f) == f

\* *out_len = 0 and *is_encoded = false, before the fallible body.
default_out_params(f) == [f EXCEPT !.out_len = 0, !.is_encoded = 0]

\* Ok writes the out-params; Err is converted to its code.
returned(f, code, encoded) ==
    IF code = "SUCCESS"
    THEN [out_len |-> 1, is_encoded |-> encoded, code |-> code]
    ELSE [f EXCEPT !.code = code]

-----------------------------------------------------------------------------
he_expresslane_encrypt(t) ==
    LET Returns(code) ==
            ffi' = [ffi EXCEPT ![t] = returned(default_out_params(@), code, 0)]
    IN  /\ session = "live" /\ Idle(t)
        /\ \/ /\ encrypt_refused(t)
              /\ \E code \in {"BUFFER_TOO_SMALL", "INVALID_DATA"} : Returns(code)
           \/ /\ \E is_encoded \in BOOLEAN : encrypt_begin(t, is_encoded)
              /\ Returns(IF current_self = NoKey THEN "KEY_NOT_SET" ELSE "none")
        /\ UNCHANGED <<rx_vars, hint_vars, session>>

\* The rest of encrypt, or of a promotion, which has no out-params.
tx_continues(t) ==
    /\ TxContinue(t)
    /\ ffi' = IF tx[t].pc = "counting"
              THEN [ffi EXCEPT ![t] = returned(@, "SUCCESS", 0)]
              ELSE ffi
    /\ UNCHANGED <<rx_vars, hint_vars, session>>

\* The other sending calls.
tx_calls(t) ==
    /\ session = "live" /\ Idle(t)
    /\ reserve_counter(t) \/ Stage(t) \/ promote_self_key(t)
    /\ UNCHANGED <<rx_vars, hint_vars, session, ffi>>

\* A panic in the AEAD unwinds through the read guard into ffi_guard.
encrypt_panics(t) ==
    /\ tx[t].pc = "sealing"
    /\ readers' = readers \ {t}
    /\ TxReturn(t)
    /\ ffi' = [ffi EXCEPT ![t].code = "PANIC"]
    /\ UNCHANGED <<current_self, next_self, next_counter, packets_sent,
                   self_key_installed, next_self_lock, writer, sent, bounds,
                   rx_vars, hint_vars, session>>

-----------------------------------------------------------------------------
he_expresslane_decrypt(t, packet) ==
    /\ session = "live" /\ Idle(t)
    /\ Decrypt(t, packet)
    /\ ffi' = [ffi EXCEPT ![t] = returned(default_out_params(@), rx'[t].code, 0)]
    /\ UNCHANGED <<tx_vars, hint_vars, session>>

decrypt_continues(t) ==
    /\ RxContinue(t)
    /\ ffi' = [ffi EXCEPT ![t] =
                  returned(@, rx'[t].code, rx[t].packet.flags % 2)]
    /\ UNCHANGED <<tx_vars, hint_vars, session>>

\* Fault: a poisoned mutex is never locked again.
decrypt_panics_poisoning(t) ==
    /\ rx[t].pc = "opening"
    /\ \E left \in {"untouched", "ciphertext", "zero", "scrambled"} :
          RxReturn(t, rx[t].packet, left, "none")
    /\ ffi' = [ffi EXCEPT ![t].code = "PANIC"]
    /\ UNCHANGED <<current_peer, prev_peer, replay_window, peer_key_installed,
                   rx_lock, delivered, repeated, tx_vars, hint_vars, session>>

\* A panic in the AEAD unwinds through the rx guard and past the scrub.
decrypt_panics(t) ==
    /\ rx[t].pc = "opening"
    /\ rx_lock' = NoThread
    /\ \E left \in {"untouched", "ciphertext", "zero", "scrambled"} :
          RxReturn(t, rx[t].packet, left, "none")
    /\ ffi' = [ffi EXCEPT ![t].code = "PANIC"]
    /\ UNCHANGED <<current_peer, prev_peer, replay_window, peer_key_installed,
                   delivered, repeated, tx_vars, hint_vars, session>>

he_expresslane_set_peer_key(key) ==
    /\ session = "live"
    /\ update_peer_key(key)
    /\ UNCHANGED <<tx_vars, hint_vars, session, ffi>>

\* One answer, in two loads; a NULL session answers false.
he_expresslane_has_valid_keys(t) ==
    /\ session = "live"
    /\ has_valid_keys_peer(t) \/ has_valid_keys_self(t)
    /\ UNCHANGED <<session, ffi>>

-----------------------------------------------------------------------------
FfiNext ==
    \/ \E version \in {VersionByte, Unknown, 3} : session_create(version)
    \/ session_destroy
    \/ \E key \in Keys \cup {INVALID} : he_expresslane_set_peer_key(key)
    \/ \E t \in TxThreads \cup RxThreads : he_expresslane_has_valid_keys(t)
    \/ \E t \in TxThreads : \/ he_expresslane_encrypt(t) \/ tx_calls(t)
                            \/ tx_continues(t) \/ encrypt_panics(t)
                            \/ null_pointer(t)
    \/ \E t \in RxThreads : \/ \E packet \in Packets : he_expresslane_decrypt(t, packet)
                            \/ decrypt_continues(t) \/ decrypt_panics(t)
                            \/ null_pointer(t)

\* A call that has begun runs on, and ends by returning or by panicking.
FfiFairness ==
    /\ \A t \in TxThreads : WF_ffi_vars(tx_continues(t) \/ encrypt_panics(t))
    /\ \A t \in RxThreads : WF_ffi_vars(decrypt_continues(t) \/ decrypt_panics(t))

FfiSpec == FfiInit /\ [][FfiNext]_ffi_vars /\ FfiFairness

-----------------------------------------------------------------------------
\* What a caller finds in its out-params is of its own last call that passed
\* the null checks: there is a length if that call succeeded, and for a
\* receiver the length comes with the plaintext and the encoded flag of the
\* packet of that call.  No other error and no panic leaves a length or a flag
\* of an earlier packet.  NULL_POINTER does: it returns before the out-params
\* are defaulted, and leaves those of the call before.
CallerReadsOwnPacket ==
    /\ \A t \in DOMAIN ffi :
          ffi[t].code \notin {"none", "NULL_POINTER"} =>
              (ffi[t].out_len = 1) = (ffi[t].code = "SUCCESS")
    /\ \A t \in RxThreads :
          rx[t].pc = "idle" =>
              /\ ffi[t].out_len = 1 => /\ rx[t].out = "plaintext"
                                       /\ rx[t].packet \in delivered
              /\ ffi[t].out_len = 0 => ffi[t].is_encoded = 0
              /\ ffi[t].is_encoded = 1 => rx[t].packet.flags % 2 = 1

\* However many calls panicked before, a key rotation on the receiving side
\* can always take its lock again: every holder gives the mutex back.  That a
\* poisoned mutex is taken all the same (PoisonError::into_inner) is how
\* decrypt_begin and update_peer_key are modelled, and is not shown.
LocksComeBack == (rx_lock # NoThread) ~> (rx_lock = NoThread)
=============================================================================
