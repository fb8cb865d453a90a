------------------------- MODULE ExpresslaneSession -------------------------
(***************************************************************************)
(* One ExpressLane session shared by sending and receiving threads: the TX *)
(* and the RX domain of session.rs, and has_valid_keys, the lock-free hint *)
(* that reads a flag of each.  ExpresslaneFfi gives it its steps.          *)
(***************************************************************************)
EXTENDS ExpresslaneTx, ExpresslaneRx

VARIABLES hint,   \* the threads between the two loads of has_valid_keys
          hinted  \* history: has_valid_keys returned true to someone

hint_vars == <<hint, hinted>>

SessionInit == TxInit /\ RxInit /\ hint = {} /\ hinted = FALSE

\* The thread is in no call.
Idle(t) == /\ t \in TxThreads => tx[t].pc \in {"idle", "reserved"}
           /\ t \in RxThreads => rx[t].pc = "idle"
           /\ t \notin hint

\* has_valid_keys loads the peer flag and, only if it is set, the self flag.
has_valid_keys_peer(t) ==
    /\ Idle(t)
    /\ hint' = IF peer_key_installed THEN hint \cup {t} ELSE hint
    /\ UNCHANGED <<tx_vars, rx_vars, hinted>>

has_valid_keys_self(t) ==
    /\ t \in hint
    /\ hint' = hint \ {t}
    /\ hinted' = (hinted \/ self_key_installed)
    /\ UNCHANGED <<tx_vars, rx_vars>>

-----------------------------------------------------------------------------
\* A true answer of has_valid_keys cannot mislead: from then on every encrypt
\* and decrypt that gets its lock finds a key there, although the hint takes
\* no lock and its relaxed flags may be seen before the key is written.
HintSound ==
    hinted => /\ writer = NoThread => current_self # NoKey
              /\ rx_lock = NoThread => current_peer # NoKey
=============================================================================
