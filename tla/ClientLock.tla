----------------------------- MODULE ClientLock -----------------------------
(***************************************************************************)
(* lock_client (src/lib.rs): how every serialised he_* call reaches the    *)
(* one &mut he_client_t.  The owner token is an atomic beside the mutex:   *)
(* it is read before the mutex is taken, stored after, and cleared before  *)
(* the mutex is released.  The body may fire C callbacks, in which the     *)
(* host may call the API again from the same thread; it may also panic.    *)
(***************************************************************************)

CONSTANTS Threads, NoThread

\* Thread tokens are process-unique and never 0, the value of a free owner.
ASSUME TokenAssumption == NoThread \notin Threads

VARIABLES owner,    \* he_conn_t::lock_owner
          mutex,    \* the thread holding arc_lock
          poisoned, \* whether a panic unwound through a held guard
          pc,       \* per thread: where its outermost call is
          nested,   \* per thread: the call its callback has made
          refused   \* threads whose last call got HE_ERR_INVALID_CONN_STATE

lock_vars == <<owner, mutex, poisoned, pc, nested, refused>>

LockInit == /\ owner = NoThread /\ mutex = NoThread /\ poisoned = FALSE
            /\ pc = [t \in Threads |-> "idle"]
            /\ nested = [t \in Threads |-> "none"]
            /\ refused = {}

-----------------------------------------------------------------------------
\* Fault: no owner check, every call spins on try_lock until it has the mutex.
lock_client_spins(t) ==
    /\ \/ pc[t] = "idle" /\ pc' = [pc EXCEPT ![t] = "waiting"]
                         /\ UNCHANGED nested
       \/ pc[t] = "callback" /\ UNCHANGED pc
          /\ nested' = [nested EXCEPT ![t] = "waiting"]
    /\ refused' = refused \ {t}
    /\ UNCHANGED <<owner, mutex, poisoned>>

\* The call loads the owner: its own token means that a callback of this
\* thread re-entered, and the call is refused before it reaches the mutex.
lock_client(t) ==
    /\ \/ pc[t] = "idle"
       \/ pc[t] = "callback" /\ nested[t] = "none"
    /\ IF owner = t
       THEN refused' = refused \cup {t} /\ UNCHANGED <<pc, nested>>
       ELSE /\ refused' = refused \ {t}
            /\ IF pc[t] = "idle"
               THEN pc' = [pc EXCEPT ![t] = "waiting"] /\ UNCHANGED nested
               ELSE nested' = [nested EXCEPT ![t] = "waiting"] /\ UNCHANGED pc
    /\ UNCHANGED <<owner, mutex, poisoned>>

\* Fault: a poisoned mutex fails the call (lock().unwrap()).
acquire_unless_poisoned(t) ==
    /\ pc[t] = "waiting" /\ mutex = NoThread
    /\ IF poisoned
       THEN pc' = [pc EXCEPT ![t] = "idle"] /\ UNCHANGED mutex
       ELSE pc' = [pc EXCEPT ![t] = "locked"] /\ mutex' = t
    /\ UNCHANGED <<owner, poisoned, nested, refused>>

\* The mutex is taken, poisoned or not.  (The thread that waits in a callback
\* holds it already, so no such step exists for a nested call.)
acquire(t) ==
    /\ pc[t] = "waiting" /\ mutex = NoThread
    /\ mutex' = t
    /\ pc' = [pc EXCEPT ![t] = "locked"]
    /\ UNCHANGED <<owner, poisoned, nested, refused>>

set_owner(t) ==
    /\ pc[t] = "locked"
    /\ owner' = t
    /\ pc' = [pc EXCEPT ![t] = "body"]
    /\ UNCHANGED <<mutex, poisoned, nested, refused>>

\* The body calls out to C; the host returns once it has no call of its own
\* pending.
fire_callback(t) ==
    /\ pc[t] = "body"
    /\ pc' = [pc EXCEPT ![t] = "callback"]
    /\ UNCHANGED <<owner, mutex, poisoned, nested, refused>>

callback_return(t) ==
    /\ pc[t] = "callback" /\ nested[t] = "none"
    /\ pc' = [pc EXCEPT ![t] = "body"]
    /\ refused' = refused \ {t}
    /\ UNCHANGED <<owner, mutex, poisoned, nested>>

\* OwnerReset runs when the body returns and when it unwinds, before the guard
\* is dropped.
reset_owner(t, panics) ==
    /\ pc[t] = "body"
    /\ owner' = NoThread
    /\ poisoned' = (poisoned \/ panics)
    /\ pc' = [pc EXCEPT ![t] = "unlocking"]
    /\ UNCHANGED <<mutex, nested, refused>>

\* Fault: the guard is dropped while the body still has its reference.
release_early(t) ==
    /\ pc[t] \in {"body", "unlocking"} /\ mutex = t
    /\ mutex' = NoThread
    /\ pc' = IF pc[t] = "body" THEN pc ELSE [pc EXCEPT ![t] = "idle"]
    /\ UNCHANGED <<owner, poisoned, nested, refused>>

release(t) ==
    /\ pc[t] = "unlocking"
    /\ mutex' = NoThread
    /\ pc' = [pc EXCEPT ![t] = "idle"]
    /\ UNCHANGED <<owner, poisoned, nested, refused>>

\* What the library does by itself once the host has called it.
Library(t) == set_owner(t) \/ (\E panics \in BOOLEAN : reset_owner(t, panics))
                           \/ release(t)

LockNext == \E t \in Threads : \/ lock_client(t)
                               \/ acquire(t)
                               \/ fire_callback(t) \/ callback_return(t)
                               \/ Library(t)

\* A thread inside the library keeps running, the bodies are finite and the
\* callbacks return; a free mutex goes to one of the threads that wait for it,
\* in no particular order.
LockFairness ==
    /\ \A t \in Threads : /\ WF_lock_vars(set_owner(t))
                          /\ SF_lock_vars(\E p \in BOOLEAN : reset_owner(t, p))
                          /\ WF_lock_vars(callback_return(t))
                          /\ WF_lock_vars(release(t))
    /\ WF_lock_vars(\E t \in Threads : acquire(t))

LockSpec == LockInit /\ [][LockNext]_lock_vars /\ LockFairness

-----------------------------------------------------------------------------
Pc == {"idle", "waiting", "locked", "body", "callback", "unlocking"}

\* The variables hold values of their types.
LockTypeOK == /\ owner \in Threads \cup {NoThread}
              /\ mutex \in Threads \cup {NoThread}
              /\ poisoned \in BOOLEAN
              /\ pc \in [Threads -> Pc]
              /\ nested \in [Threads -> {"none", "waiting"}]
              /\ refused \subseteq Threads

\* The thread has a live &mut he_client_t.
HasReference(t) == pc[t] \in {"body", "callback"}

\* lock_client: "this is the only live reference into the allocation".  No two
\* threads have one at a time, and no thread makes a second one from a
\* callback, whether or not earlier calls have panicked.  It is about the calls
\* that go through lock_client: he_client_is_config_valid and the setters take
\* no lock.
ExclusiveReference ==
    \A t, u \in Threads : HasReference(t) /\ HasReference(u) => t = u

\* A re-entrant call never waits for the mutex its own thread holds, and a
\* call made from outside any callback is never refused: a stale owner token
\* would lock its thread out for good.
RefusedIffReentrant ==
    \A t \in Threads : /\ nested[t] = "none"
                       /\ t \in refused => pc[t] = "callback"

\* The inductive strengthening: the mutex is held from acquire to release, and
\* the owner token is set exactly while a thread has its reference.
LockInv ==
    /\ LockTypeOK
    /\ \A t \in Threads :
          /\ pc[t] \in {"locked", "body", "callback", "unlocking"} <=> mutex = t
          /\ HasReference(t) <=> owner = t
    /\ RefusedIffReentrant

\* Whoever waits, the client is served again: after every return, panic or
\* callback the mutex is released and some waiting call gets its reference.
WaitersServed ==
    (\E t \in Threads : pc[t] = "waiting") ~> (\E t \in Threads : HasReference(t))
=============================================================================
