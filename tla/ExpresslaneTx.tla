---------------------------- MODULE ExpresslaneTx ----------------------------
(***************************************************************************)
(* The TX domain of ExpresslaneSession (session.rs): counters, self keys   *)
(* and encrypt, called by any number of threads at once.  The locks are    *)
(* explicit: the next_self mutex, and the current_self reader-writer lock. *)
(* A relaxed store may become visible to other threads before an earlier   *)
(* unlock, never before an earlier lock.                                   *)
(***************************************************************************)
EXTENDS ExpresslaneWire

CONSTANTS TxThreads,
          MaxReservations \* bound on the calls of reserve_counter

ASSUME TxAssumption == NoThread \notin TxThreads

VARIABLES current_self, next_self, next_counter, packets_sent,
          self_key_installed,
          next_self_lock,  \* the thread holding the next_self mutex
          readers, writer, \* the threads holding the current_self lock
          tx,              \* per thread: where its call is, and its locals
          sent,            \* history: the packets encrypt returned
          generation,      \* history: the key generation staged last
          reservations     \* history: the calls of reserve_counter

tx_vars == <<current_self, next_self, next_counter, packets_sent,
             self_key_installed, next_self_lock, readers, writer, tx, sent,
             generation, reservations>>

bounds == <<generation, reservations>>

tx_idle == [pc |-> "idle", key |-> NoKey, counter |-> 0, flags |-> 0]

TxInit == /\ current_self = NoKey /\ next_self = NoKey
          /\ next_counter = 0 /\ packets_sent = 0
          /\ self_key_installed = FALSE
          /\ next_self_lock = NoThread /\ readers = {} /\ writer = NoThread
          /\ tx = [t \in TxThreads |-> tx_idle]
          /\ sent = {}
          /\ generation = 0 /\ reservations = 0

\* A call returns to its caller, with an error or not.
TxReturn(t) == tx' = [tx EXCEPT ![t] = tx_idle]

-----------------------------------------------------------------------------
\* Fault: the counter sticks at u64::MAX.
after_saturating(counter) == IF counter = MaxU64 THEN counter ELSE counter + 1

\* fetch_add and wrapping_add on 64 bits.
after(counter) == (counter + 1) % (MaxU64 + 1)

\* One atomic fetch_add; the caller keeps the counter for its next encrypt.
reserve_counter(t) ==
    /\ tx[t].pc = "idle"
    /\ reservations < MaxReservations
    /\ next_counter' = after(next_counter)
    /\ reservations' = reservations + 1
    /\ tx' = [tx EXCEPT ![t] = [tx_idle EXCEPT
                 !.pc = "reserved", !.counter = after(next_counter)]]
    /\ UNCHANGED <<current_self, next_self, packets_sent, self_key_installed,
                   next_self_lock, readers, writer, sent, generation>>

\* encrypt refuses a short output buffer, then a payload longer than u16::MAX,
\* before it touches any state.
encrypt_refused(t) ==
    /\ tx[t].pc = "reserved"
    /\ TxReturn(t)
    /\ UNCHANGED <<current_self, next_self, next_counter, packets_sent,
                   self_key_installed, next_self_lock, readers, writer, sent,
                   bounds>>

\* Fault: the KeyNotSet return keeps its read guard.
encrypt_begin_leaks(t, is_encoded) ==
    /\ tx[t].pc = "reserved"
    /\ writer = NoThread
    /\ readers' = readers \cup {t}
    /\ IF current_self = NoKey
       THEN TxReturn(t)
       ELSE tx' = [tx EXCEPT ![t].pc = "sealing", ![t].key = current_self,
                             ![t].flags = encoded_flags(is_encoded)]
    /\ UNCHANGED <<current_self, next_self, next_counter, packets_sent,
                   self_key_installed, next_self_lock, writer, sent, bounds>>

\* encrypt takes the read lock; without a key it returns and drops the guard.
encrypt_begin(t, is_encoded) ==
    /\ tx[t].pc = "reserved"
    /\ writer = NoThread
    /\ IF current_self = NoKey
       THEN TxReturn(t) /\ UNCHANGED readers
       ELSE /\ readers' = readers \cup {t}
            /\ tx' = [tx EXCEPT ![t].pc = "sealing", ![t].key = current_self,
                                ![t].flags = encoded_flags(is_encoded)]
    /\ UNCHANGED <<current_self, next_self, next_counter, packets_sent,
                   self_key_installed, next_self_lock, writer, sent, bounds>>

\* The AEAD runs under the guard, which is then dropped.
encrypt_seal(t) ==
    /\ tx[t].pc = "sealing"
    /\ readers' = readers \ {t}
    /\ tx' = [tx EXCEPT ![t].pc = "counting"]
    /\ UNCHANGED <<current_self, next_self, next_counter, packets_sent,
                   self_key_installed, next_self_lock, writer, sent, bounds>>

\* The header is written, the packet counted and handed to the caller.
encrypt_return(t) ==
    /\ tx[t].pc = "counting"
    /\ packets_sent' = packets_sent + 1
    /\ sent' = sent \cup {seal(tx[t].key, tx[t].counter, tx[t].flags)}
    /\ TxReturn(t)
    /\ UNCHANGED <<current_self, next_self, next_counter, self_key_installed,
                   next_self_lock, readers, writer, bounds>>

-----------------------------------------------------------------------------
\* update_next_self_key refuses the all-zero key before anything changes.
update_next_self_key_invalid(t) == tx[t].pc = "idle" /\ UNCHANGED tx_vars

update_next_self_key(t, key) ==
    /\ tx[t].pc = "idle"
    /\ ~is_invalid(key)
    /\ next_self_lock = NoThread
    /\ next_self' = key
    /\ UNCHANGED <<current_self, next_counter, packets_sent,
                   self_key_installed, next_self_lock, readers, writer, tx,
                   sent, reservations>>

\* Faults: the mutex is released as soon as the staged key is taken; the flag
\* is set even if nothing was staged.
promote_self_key_unlocked(t) ==
    /\ tx[t].pc = "idle"
    /\ next_self_lock = NoThread
    /\ next_self' = NoKey
    /\ IF next_self = NoKey
       THEN TxReturn(t)
       ELSE tx' = [tx EXCEPT ![t] = [tx_idle EXCEPT
                      !.pc = "taken", !.key = next_self]]
    /\ UNCHANGED <<current_self, next_counter, packets_sent, next_self_lock,
                   self_key_installed, readers, writer, sent, bounds>>

promote_self_key_flags_always(t) ==
    /\ tx[t].pc = "idle"
    /\ next_self_lock = NoThread
    /\ next_self' = NoKey
    /\ self_key_installed' = TRUE
    /\ IF next_self = NoKey
       THEN TxReturn(t) /\ UNCHANGED next_self_lock
       ELSE /\ next_self_lock' = t
            /\ tx' = [tx EXCEPT ![t] = [tx_idle EXCEPT
                         !.pc = "taken", !.key = next_self]]
    /\ UNCHANGED <<current_self, next_counter, packets_sent, readers, writer,
                   sent, bounds>>

\* promote_self_key takes the staged key and keeps the next_self mutex while
\* it installs it; with nothing staged it returns at once.
promote_self_key(t) ==
    /\ tx[t].pc = "idle"
    /\ next_self_lock = NoThread
    /\ next_self' = NoKey
    /\ IF next_self = NoKey
       THEN TxReturn(t) /\ UNCHANGED next_self_lock
       ELSE /\ next_self_lock' = t
            /\ tx' = [tx EXCEPT ![t] = [tx_idle EXCEPT
                         !.pc = "taken", !.key = next_self]]
    /\ UNCHANGED <<current_self, next_counter, packets_sent,
                   self_key_installed, readers, writer, sent, bounds>>

promote_lock(t) ==
    /\ tx[t].pc = "taken"
    /\ readers = {} /\ writer = NoThread
    /\ writer' = t
    /\ tx' = [tx EXCEPT ![t].pc = "writing"]
    /\ UNCHANGED <<current_self, next_self, next_counter, packets_sent,
                   self_key_installed, next_self_lock, readers, sent, bounds>>

\* The relaxed store of the flag is seen before the key is written.
promote_flag_seen_early(t) ==
    /\ tx[t].pc = "writing"
    /\ self_key_installed' = TRUE
    /\ UNCHANGED <<current_self, next_self, next_counter, packets_sent,
                   next_self_lock, readers, writer, tx, sent, bounds>>

promote_write(t) ==
    /\ tx[t].pc = "writing"
    /\ current_self' = tx[t].key
    /\ writer' = NoThread
    /\ tx' = [tx EXCEPT ![t].pc = "flagging"]
    /\ UNCHANGED <<next_self, next_counter, packets_sent, self_key_installed,
                   next_self_lock, readers, sent, bounds>>

promote_return(t) ==
    /\ tx[t].pc = "flagging"
    /\ self_key_installed' = TRUE
    /\ next_self_lock' = NoThread
    /\ TxReturn(t)
    /\ UNCHANGED <<current_self, next_self, next_counter, packets_sent,
                   readers, writer, sent, bounds>>

-----------------------------------------------------------------------------
\* The host stages a fresh key each time.
Stage(t) == /\ generation < MaxKey
            /\ generation' = generation + 1
            /\ update_next_self_key(t, generation + 1)

\* A caller with a counter calls encrypt.
Encrypt(t) ==
    \/ encrypt_refused(t)
    \/ \E is_encoded \in BOOLEAN : encrypt_begin(t, is_encoded)

TxCalls(t) == \/ reserve_counter(t) \/ Encrypt(t)
              \/ Stage(t) \/ update_next_self_key_invalid(t)
              \/ promote_self_key(t)

\* The steps that continue a call already begun.
TxContinue(t) ==
    \/ encrypt_seal(t) \/ encrypt_return(t)
    \/ promote_lock(t) \/ promote_flag_seen_early(t)
    \/ promote_write(t) \/ promote_return(t)

TxNext == \E t \in TxThreads : TxCalls(t) \/ TxContinue(t)

\* A thread that has begun a call keeps running; nobody has to begin one.
TxFairness == \A t \in TxThreads : WF_tx_vars(TxContinue(t))

TxSpec == TxInit /\ [][TxNext]_tx_vars /\ TxFairness

-----------------------------------------------------------------------------
\* The send key only moves to a key staged later, even if several threads
\* stage and promote at once: promote_self_key holds the next_self mutex from
\* taking the staged key to installing it.
KeyOrder == [][current_self' = current_self \/ current_self' > current_self]_tx_vars

\* Until the 64-bit counter wraps, no two packets, sent or being encrypted,
\* have the same counter.
UniqueCounters ==
    reservations <= MaxU64 + 1 =>
        LET busy == {t \in TxThreads : tx[t].pc \in {"reserved", "sealing", "counting"}}
        IN  /\ \A t, u \in busy : tx[t].counter = tx[u].counter => t = u
            /\ \A t \in busy : \A p \in sent : tx[t].counter # p.counter
            /\ \A p, q \in sent : p.counter = q.counter => p = q

\* Every lock is released: an encrypt that has the read lock and a promotion
\* that has the write lock return, whatever other threads do, and a promotion
\* that waits for the write lock, with the next_self mutex in hand, gets in and
\* returns once no further encrypt begins.  The locks are taken in an order
\* that cannot deadlock, and every return path releases them.  Encrypts that
\* overlap without end may keep a promotion waiting: RwLock promises no order.
TxCallsReturn ==
    \A t \in TxThreads :
        /\ tx[t].pc \notin {"idle", "reserved", "taken"} ~> tx[t].pc = "idle"
        /\ <>[][\A u \in TxThreads : ~Encrypt(u)]_tx_vars =>
               (tx[t].pc = "taken" ~> tx[t].pc = "idle")
=============================================================================
