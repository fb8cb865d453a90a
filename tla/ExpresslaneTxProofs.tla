------------------------- MODULE ExpresslaneTxProofs -------------------------
(***************************************************************************)
(* The sending half of a session is right for every counter width, number  *)
(* of keys and number of threads.                                          *)
(***************************************************************************)
EXTENDS ExpresslaneTx, TLAPS

Call == [pc : {"idle", "reserved", "sealing", "counting", "taken", "writing",
               "flagging"},
         key : Int, counter : 0 .. MaxU64, flags : {0, 1}]

TxTypeOK == /\ tx \in [TxThreads -> Call]
            /\ next_counter \in 0 .. MaxU64
            /\ reservations \in Nat /\ generation \in Nat

\* The counters handed out by r reservations: 1, 2, ... and, last, 0.
HandedOut(c, r) == c \in 1 .. r \/ (c = 0 /\ r = MaxU64 + 1)

Busy == {t \in TxThreads : tx[t].pc \in {"reserved", "sealing", "counting"}}

\* Before the counter wraps a second time, it is the number of reservations,
\* and whatever is in use was handed out.
CounterInv ==
    reservations <= MaxU64 + 1 =>
        /\ next_counter = IF reservations = MaxU64 + 1 THEN 0 ELSE reservations
        /\ \A t \in Busy : HandedOut(tx[t].counter, reservations)
        /\ \A p \in sent : HandedOut(p.counter, reservations)

\* A promotion holds the next_self mutex, nothing is staged meanwhile, and the
\* key it has taken is newer than the one in use.
Promoting(t) == tx[t].pc \in {"taken", "writing", "flagging"}

KeyInv ==
    /\ current_self \in {NoKey} \cup 1 .. generation
    /\ next_self \in {NoKey} \cup 1 .. generation
    /\ next_self # NoKey => next_self > current_self
    /\ \A t \in TxThreads :
          /\ Promoting(t) => next_self_lock = t /\ next_self = NoKey
          /\ tx[t].pc \in {"taken", "writing"} =>
                 tx[t].key \in 1 .. generation /\ tx[t].key > current_self

-----------------------------------------------------------------------------
LEMMA AfterCounter ==
    ASSUME NEW c \in 0 .. MaxU64
    PROVE  after(c) = IF c = MaxU64 THEN 0 ELSE c + 1
<1>1. MaxU64 \in Nat
  BY WireAssumption
<1>2. CASE c = MaxU64
  BY <1>1, <1>2 DEF after
<1>3. CASE c # MaxU64
  BY <1>1, <1>3 DEF after
<1> QED BY <1>2, <1>3

\* What a step may do to the calls: thread t's call changes, the others do not.
LEMMA OneCall ==
    ASSUME TxTypeOK, NEW t \in TxThreads, NEW call \in Call,
           tx' = [tx EXCEPT ![t] = call]
    PROVE  /\ tx' \in [TxThreads -> Call] /\ tx'[t] = call
           /\ \A u \in TxThreads \ {t} : tx'[u] = tx[u]
BY DEF TxTypeOK

LEMMA IdleCall == tx_idle \in Call
BY WireAssumption DEF tx_idle, Call, NoKey

LEMMA TxInitInv == TxInit => TxTypeOK /\ CounterInv /\ UniqueCounters /\ KeyInv
<1> SUFFICES ASSUME TxInit PROVE TxTypeOK /\ CounterInv /\ UniqueCounters /\ KeyInv
  OBVIOUS
<1>1. \A t \in TxThreads : tx[t].pc = "idle"
  BY DEF TxInit, tx_idle
<1>2. TxTypeOK
  BY IdleCall, WireAssumption DEF TxInit, TxTypeOK
<1> QED BY <1>1, <1>2, WireAssumption
        DEF TxInit, CounterInv, UniqueCounters, KeyInv, Busy, Promoting, NoKey

-----------------------------------------------------------------------------
(* The kinds of step.                                                      *)

\* Thread t is now at pc, with the key and the counter given.
Moves(t, pc, key, counter) ==
    /\ tx' \in [TxThreads -> Call]
    /\ tx'[t].pc = pc /\ tx'[t].key = key /\ tx'[t].counter = counter
    /\ \A u \in TxThreads \ {t} : tx'[u] = tx[u]

SameKeys == UNCHANGED <<current_self, next_self, next_self_lock, generation>>
SameCounters == UNCHANGED <<next_counter, reservations, sent>>

LEMMA ReturnMoves ==
    ASSUME TxTypeOK, NEW t \in TxThreads, TxReturn(t)
    PROVE  Moves(t, "idle", NoKey, 0)
BY IdleCall, OneCall, Zenon DEF TxReturn, Moves, tx_idle

\* A step of a call that keeps its locals.
LEMMA PcMoves ==
    ASSUME TxTypeOK, NEW t \in TxThreads,
           NEW pc \in {"counting", "writing", "flagging"},
           tx' = [tx EXCEPT ![t].pc = pc]
    PROVE  Moves(t, pc, tx[t].key, tx[t].counter)
BY DEF TxTypeOK, Moves, Call

LEMMA ReserveMoves ==
    ASSUME TxTypeOK, NEW t \in TxThreads, reserve_counter(t)
    PROVE  Moves(t, "reserved", NoKey, after(next_counter))
<1> DEFINE call == [tx_idle EXCEPT !.pc = "reserved", !.counter = after(next_counter)]
<1>1. after(next_counter) \in 0 .. MaxU64
  BY AfterCounter, WireAssumption DEF TxTypeOK
<1>2. /\ call \in Call /\ call.pc = "reserved" /\ call.key = NoKey
      /\ call.counter = after(next_counter)
  <2>1. tx_idle \in Call /\ tx_idle.key = NoKey
    BY IdleCall DEF tx_idle
  <2> QED BY <1>1, <2>1, Zenon DEF Call
<1>3. tx' = [tx EXCEPT ![t] = call]
  BY DEF reserve_counter
<1> HIDE DEF call
<1> QED BY <1>2, <1>3, OneCall, Zenon DEF Moves

LEMMA BeginMoves ==
    ASSUME TxTypeOK, KeyInv, NEW t \in TxThreads, NEW is_encoded \in BOOLEAN,
           encrypt_begin(t, is_encoded)
    PROVE  \/ Moves(t, "idle", NoKey, 0)
           \/ Moves(t, "sealing", current_self, tx[t].counter)
<1>1. CASE current_self = NoKey
  BY <1>1, ReturnMoves DEF encrypt_begin
<1>2. CASE current_self # NoKey
  <2> DEFINE flags == encoded_flags(is_encoded)
  <2>1. current_self \in Int /\ flags \in {0, 1}
    BY DEF encoded_flags, KeyInv, TxTypeOK, NoKey
  <2>2. tx' = [tx EXCEPT ![t].pc = "sealing", ![t].key = current_self, ![t].flags = flags]
    BY <1>2 DEF encrypt_begin
  <2> HIDE DEF flags
  <2> QED BY <2>1, <2>2, Zenon DEF TxTypeOK, Moves, Call
<1> QED BY <1>1, <1>2

LEMMA PromoteMoves ==
    ASSUME TxTypeOK, KeyInv, NEW t \in TxThreads, promote_self_key(t),
           next_self # NoKey
    PROVE  Moves(t, "taken", next_self, 0)
<1> DEFINE call == [tx_idle EXCEPT !.pc = "taken", !.key = next_self]
<1>1. /\ call \in Call /\ call.pc = "taken" /\ call.key = next_self
      /\ call.counter = 0
  <2>1. tx_idle \in Call /\ tx_idle.counter = 0 /\ next_self \in Int
    BY IdleCall DEF tx_idle, KeyInv, TxTypeOK
  <2> QED BY <2>1, Zenon DEF Call
<1>2. tx' = [tx EXCEPT ![t] = call]
  BY DEF promote_self_key
<1> HIDE DEF call
<1> QED BY <1>1, <1>2, OneCall, Zenon DEF Moves

-----------------------------------------------------------------------------
(* Counters.                                                               *)

Counted == CounterInv /\ UniqueCounters

\* A step that hands out nothing and sends nothing.
LEMMA QuietCounted ==
    ASSUME TxTypeOK, Counted, SameCounters, NEW t \in TxThreads, NEW pc, NEW key,
           NEW counter, Moves(t, pc, key, counter),
           pc \in {"reserved", "sealing", "counting"} =>
               t \in Busy /\ counter = tx[t].counter
    PROVE  Counted'
<1>1. /\ Busy' \subseteq Busy
      /\ \A u \in Busy' : tx'[u].counter = tx[u].counter
  BY DEF Busy, Moves
<1>2. CounterInv'
  BY <1>1 DEF Counted, CounterInv, SameCounters
<1>3. UniqueCounters'
  BY <1>1 DEF Counted, UniqueCounters, SameCounters, Busy
<1> QED BY <1>2, <1>3 DEF Counted

LEMMA ReserveCounted ==
    ASSUME TxTypeOK, Counted, NEW t \in TxThreads, reserve_counter(t)
    PROVE  Counted'
<1> SUFFICES ASSUME reservations' <= MaxU64 + 1
             PROVE  Counted'
  BY DEF Counted, CounterInv, UniqueCounters
<1> DEFINE c == after(next_counter)
<1>1. /\ reservations' = reservations + 1 /\ next_counter' = c /\ sent' = sent
      /\ reservations \in 0 .. MaxU64 /\ MaxU64 \in Nat
  BY WireAssumption DEF reserve_counter, TxTypeOK
<1>2. c = IF reservations = MaxU64 THEN 0 ELSE reservations + 1
  BY <1>1, AfterCounter DEF Counted, CounterInv, TxTypeOK
<1>3. HandedOut(c, reservations') /\ ~HandedOut(c, reservations)
  BY <1>1, <1>2 DEF HandedOut
<1>4. \A d \in 0 .. MaxU64 : HandedOut(d, reservations) => HandedOut(d, reservations') /\ d # c
  BY <1>1, <1>2 DEF HandedOut
<1>5. /\ tx'[t].counter = c /\ Busy' = Busy \cup {t} /\ t \notin Busy
      /\ \A u \in Busy : tx'[u].counter = tx[u].counter /\ tx[u].counter \in 0 .. MaxU64
  BY ReserveMoves DEF Moves, Busy, reserve_counter, TxTypeOK, Call
<1>6. /\ \A u \in Busy : HandedOut(tx[u].counter, reservations)
      /\ \A p \in sent : HandedOut(p.counter, reservations)
  BY <1>1 DEF Counted, CounterInv
<1>7. \A p \in sent : HandedOut(p.counter, reservations') /\ p.counter # c
  BY <1>1, <1>3, <1>6 DEF HandedOut
<1>8. \A u \in Busy : HandedOut(tx[u].counter, reservations') /\ tx[u].counter # c
  BY <1>4, <1>5, <1>6
<1> HIDE DEF c
<1>9. CounterInv'
  BY <1>1, <1>2, <1>3, <1>5, <1>7, <1>8 DEF CounterInv
<1>10. UniqueCounters'
  <2>1. /\ \A u, v \in Busy : tx[u].counter = tx[v].counter => u = v
        /\ \A u \in Busy : \A p \in sent : tx[u].counter # p.counter
        /\ \A p, q \in sent : p.counter = q.counter => p = q
    BY <1>1 DEF Counted, UniqueCounters, Busy
  <2>2. /\ \A u, v \in Busy' : tx'[u].counter = tx'[v].counter => u = v
        /\ \A u \in Busy' : \A p \in sent' : tx'[u].counter # p.counter
    BY <2>1, <1>1, <1>5, <1>7, <1>8
  <2> QED BY <2>1, <2>2, <1>1 DEF UniqueCounters, Busy
<1> QED BY <1>9, <1>10 DEF Counted
LEMMA SentCounted ==
    ASSUME TxTypeOK, Counted, NEW t \in TxThreads, encrypt_return(t)
    PROVE  Counted'
<1> SUFFICES ASSUME reservations <= MaxU64 + 1
             PROVE  Counted'
  BY DEF Counted, CounterInv, UniqueCounters, encrypt_return, bounds
<1> DEFINE packet == seal(tx[t].key, tx[t].counter, tx[t].flags)
<1>1. /\ reservations' = reservations /\ next_counter' = next_counter
      /\ sent' = sent \cup {packet} /\ t \in Busy
  BY DEF encrypt_return, bounds, Busy
<1>2. packet.counter = tx[t].counter
  BY DEF seal
<1> HIDE DEF packet
<1>3. /\ Busy' \subseteq Busy \ {t}
      /\ \A u \in Busy' : tx'[u].counter = tx[u].counter
  <2>1. Moves(t, "idle", NoKey, 0)
    BY ReturnMoves DEF encrypt_return
  <2> QED BY <2>1 DEF Moves, Busy
<1>4. CounterInv'
  BY <1>1, <1>2, <1>3 DEF Counted, CounterInv
<1>5. UniqueCounters'
  <2>1. /\ \A u, v \in Busy : tx[u].counter = tx[v].counter => u = v
        /\ \A u \in Busy : \A p \in sent : tx[u].counter # p.counter
        /\ \A p, q \in sent : p.counter = q.counter => p = q
    BY DEF Counted, UniqueCounters, Busy
  <2>2. /\ \A u, v \in Busy' : tx'[u].counter = tx'[v].counter => u = v
        /\ \A u \in Busy' : \A p \in sent' : tx'[u].counter # p.counter
        /\ \A p, q \in sent' : p.counter = q.counter => p = q
    BY <2>1, <1>1, <1>2, <1>3
  <2> QED BY <2>2 DEF UniqueCounters, Busy
<1> QED BY <1>4, <1>5 DEF Counted

-----------------------------------------------------------------------------
(* Keys.                                                                   *)

\* A step outside a promotion, or one that takes it further.
LEMMA QuietKeys ==
    ASSUME TxTypeOK, KeyInv, SameKeys, NEW t \in TxThreads, NEW pc, NEW key,
           NEW counter, Moves(t, pc, key, counter),
           pc \in {"taken", "writing", "flagging"} => Promoting(t),
           pc \in {"taken", "writing"} =>
               tx[t].pc \in {"taken", "writing"} /\ key = tx[t].key
    PROVE  KeyInv'
BY DEF KeyInv, SameKeys, Moves, Promoting

\* While the mutex is free nobody promotes.
LEMMA MutexFree ==
    ASSUME KeyInv, next_self_lock = NoThread, NEW t \in TxThreads
    PROVE  ~Promoting(t) /\ tx[t].pc \notin {"taken", "writing"}
BY TxAssumption DEF KeyInv, Promoting

LEMMA StageKeys ==
    ASSUME TxTypeOK, KeyInv, NEW t \in TxThreads, Stage(t)
    PROVE  KeyInv'
<1>1. \A u \in TxThreads : ~Promoting(u) /\ tx[u].pc \notin {"taken", "writing"}
  BY MutexFree DEF Stage, update_next_self_key
<1> QED BY <1>1 DEF Stage, update_next_self_key, KeyInv, TxTypeOK, Promoting, NoKey

LEMMA PromoteKeys ==
    ASSUME TxTypeOK, KeyInv, NEW t \in TxThreads, promote_self_key(t)
    PROVE  KeyInv'
<1>1. \A u \in TxThreads : ~Promoting(u) /\ tx[u].pc \notin {"taken", "writing"}
  BY MutexFree DEF promote_self_key
<1>2. CASE next_self = NoKey
  <2>1. Moves(t, "idle", NoKey, 0) /\ SameKeys
    BY <1>2, ReturnMoves DEF promote_self_key, SameKeys, bounds
  <2> QED BY <2>1, QuietKeys
<1>3. CASE next_self # NoKey
  <2>1. Moves(t, "taken", next_self, 0)
    BY <1>3, PromoteMoves
  <2>2. /\ current_self' = current_self /\ generation' = generation
        /\ next_self' = NoKey /\ next_self_lock' = t
    BY <1>3 DEF promote_self_key, bounds
  <2> QED BY <1>1, <1>3, <2>1, <2>2 DEF KeyInv, Moves, Promoting, TxTypeOK
<1> QED BY <1>2, <1>3

LEMMA WriteKeys ==
    ASSUME TxTypeOK, KeyInv, NEW t \in TxThreads, promote_write(t)
    PROVE  KeyInv' /\ current_self' > current_self
<1>1. Moves(t, "flagging", tx[t].key, tx[t].counter)
  BY PcMoves, Zenon DEF promote_write
<1>2. /\ Promoting(t) /\ tx[t].key \in 1 .. generation /\ tx[t].key > current_self
      /\ next_self_lock = t /\ next_self = NoKey
      /\ \A u \in TxThreads \ {t} : ~Promoting(u)
  BY DEF promote_write, KeyInv, Promoting
<1>3. /\ current_self' = tx[t].key /\ next_self' = next_self
      /\ next_self_lock' = next_self_lock /\ generation' = generation
  BY DEF promote_write, bounds
<1> QED BY <1>1, <1>2, <1>3 DEF KeyInv, Moves, Promoting

LEMMA ReleaseKeys ==
    ASSUME TxTypeOK, KeyInv, NEW t \in TxThreads, promote_return(t)
    PROVE  KeyInv'
<1>1. Moves(t, "idle", NoKey, 0)
  BY ReturnMoves DEF promote_return
<1>2. \A u \in TxThreads \ {t} : ~Promoting(u)
  BY DEF promote_return, KeyInv, Promoting
<1>3. UNCHANGED <<current_self, next_self, generation>>
  BY DEF promote_return, bounds
<1> QED BY <1>1, <1>2, <1>3 DEF KeyInv, Moves, Promoting

-----------------------------------------------------------------------------
TxInv == TxTypeOK /\ Counted /\ KeyInv

\* A step that moves one call and touches neither keys nor counters.
LEMMA QuietTx ==
    ASSUME TxInv, SameKeys, SameCounters, NEW t \in TxThreads, NEW pc, NEW key,
           NEW counter, Moves(t, pc, key, counter),
           pc \in {"reserved", "sealing", "counting"} =>
               t \in Busy /\ counter = tx[t].counter,
           pc \in {"taken", "writing", "flagging"} => Promoting(t),
           pc \in {"taken", "writing"} =>
               tx[t].pc \in {"taken", "writing"} /\ key = tx[t].key
    PROVE  TxInv'
<1>1. TxTypeOK'
  BY DEF TxInv, TxTypeOK, Moves, SameCounters, SameKeys
<1>2. Counted'
  BY QuietCounted DEF TxInv
<1>3. KeyInv'
  BY QuietKeys DEF TxInv
<1> QED BY <1>1, <1>2, <1>3 DEF TxInv
LEMMA StillTx ==
    ASSUME TxInv, UNCHANGED tx, SameKeys, SameCounters
    PROVE  TxInv'
BY DEF TxInv, TxTypeOK, Counted, CounterInv, UniqueCounters, Busy, KeyInv,
       Promoting, SameKeys, SameCounters

LEMMA CallsTx ==
    ASSUME TxInv, NEW t \in TxThreads, TxCalls(t)
    PROVE  TxInv' /\ current_self' = current_self
<1> USE DEF TxInv
<1>1. CASE reserve_counter(t)
  <2>1. Moves(t, "reserved", NoKey, after(next_counter)) /\ SameKeys
    BY <1>1, ReserveMoves, Zenon DEF reserve_counter, SameKeys
  <2>2. after(next_counter) \in 0 .. MaxU64
    BY AfterCounter, WireAssumption DEF TxTypeOK
  <2>3. TxTypeOK'
    BY <1>1, <2>1, <2>2 DEF TxTypeOK, Moves, reserve_counter
  <2>4. KeyInv'
    BY <2>1, QuietKeys
  <2> QED BY <1>1, <2>1, <2>3, <2>4, ReserveCounted DEF SameKeys
<1>2. CASE encrypt_refused(t)
  <2>1. Moves(t, "idle", NoKey, 0) /\ SameKeys /\ SameCounters
    BY <1>2, ReturnMoves DEF encrypt_refused, SameKeys, SameCounters, bounds
  <2> QED BY <2>1, QuietTx DEF SameKeys
<1>3. ASSUME NEW is_encoded \in BOOLEAN, encrypt_begin(t, is_encoded)
      PROVE  TxInv' /\ current_self' = current_self
  <2>1. /\ \/ Moves(t, "idle", NoKey, 0)
           \/ Moves(t, "sealing", current_self, tx[t].counter)
        /\ SameKeys /\ SameCounters /\ t \in Busy
    BY <1>3, BeginMoves, Zenon DEF encrypt_begin, SameKeys, SameCounters, bounds, Busy
  <2> QED BY <2>1, QuietTx DEF SameKeys
<1>4. CASE Stage(t)
  <2>1. /\ TxTypeOK' /\ SameCounters /\ UNCHANGED <<tx, current_self>>
    BY <1>4 DEF Stage, update_next_self_key, TxTypeOK, SameCounters
  <2>2. Counted'
    BY <2>1 DEF Counted, CounterInv, UniqueCounters, Busy, SameCounters
  <2> QED BY <1>4, <2>1, <2>2, StageKeys
<1>5. CASE update_next_self_key_invalid(t)
  BY <1>5, StillTx
  DEF update_next_self_key_invalid, tx_vars, SameKeys, SameCounters
<1>6. CASE promote_self_key(t)
  <2>1. /\ \/ Moves(t, "idle", NoKey, 0) \/ Moves(t, "taken", next_self, 0)
        /\ SameCounters /\ UNCHANGED <<current_self, generation>>
    <3>1. CASE next_self = NoKey
      BY <1>6, <3>1, ReturnMoves DEF promote_self_key, SameCounters, bounds
    <3>2. CASE next_self # NoKey
      BY <1>6, <3>2, PromoteMoves DEF promote_self_key, SameCounters, bounds
    <3> QED BY <3>1, <3>2
  <2>2. TxTypeOK'
    BY <2>1 DEF TxTypeOK, Moves, SameCounters
  <2> QED BY <1>6, <2>1, <2>2, QuietCounted, PromoteKeys
<1> QED BY <1>1, <1>2, <1>3, <1>4, <1>5, <1>6 DEF TxCalls, Encrypt

LEMMA ContinueTx ==
    ASSUME TxInv, NEW t \in TxThreads, TxContinue(t)
    PROVE  TxInv' /\ (current_self' = current_self \/ current_self' > current_self)
<1> USE DEF TxInv
<1>1. CASE encrypt_seal(t)
  <2>1. /\ Moves(t, "counting", tx[t].key, tx[t].counter)
        /\ SameKeys /\ SameCounters /\ t \in Busy
    BY <1>1, PcMoves, Zenon DEF encrypt_seal, SameKeys, SameCounters, bounds, Busy
  <2> QED BY <2>1, QuietTx DEF SameKeys
<1>2. CASE encrypt_return(t)
  <2>1. Moves(t, "idle", NoKey, 0) /\ SameKeys
    BY <1>2, ReturnMoves DEF encrypt_return, SameKeys, bounds
  <2>2. TxTypeOK'
    BY <1>2, <2>1 DEF TxTypeOK, Moves, encrypt_return, bounds
  <2> QED BY <1>2, <2>1, <2>2, QuietKeys, SentCounted DEF SameKeys
<1>3. CASE promote_lock(t)
  <2>1. /\ Moves(t, "writing", tx[t].key, tx[t].counter) /\ tx[t].pc = "taken"
        /\ SameKeys /\ SameCounters
    BY <1>3, PcMoves, Zenon DEF promote_lock, SameKeys, SameCounters, bounds
  <2> QED BY <2>1, QuietTx DEF SameKeys, Promoting
<1>4. CASE promote_flag_seen_early(t)
  BY <1>4, StillTx DEF promote_flag_seen_early, SameKeys, SameCounters, bounds
<1>5. CASE promote_write(t)
  <2>1. /\ Moves(t, "flagging", tx[t].key, tx[t].counter) /\ SameCounters
        /\ generation' = generation
    BY <1>5, PcMoves, Zenon DEF promote_write, SameCounters, bounds
  <2>2. TxTypeOK'
    BY <2>1 DEF TxTypeOK, Moves, SameCounters
  <2> QED BY <1>5, <2>1, <2>2, QuietCounted, WriteKeys
<1>6. CASE promote_return(t)
  <2>1. /\ Moves(t, "idle", NoKey, 0) /\ SameCounters
        /\ UNCHANGED <<current_self, generation>>
    BY <1>6, ReturnMoves DEF promote_return, SameCounters, bounds
  <2>2. TxTypeOK'
    BY <2>1 DEF TxTypeOK, Moves, SameCounters
  <2> QED BY <1>6, <2>1, <2>2, QuietCounted, ReleaseKeys
<1> QED BY <1>1, <1>2, <1>3, <1>4, <1>5, <1>6 DEF TxContinue

LEMMA NextTx ==
    ASSUME TxInv, [TxNext]_tx_vars
    PROVE  TxInv' /\ (current_self' = current_self \/ current_self' > current_self)
<1>1. CASE UNCHANGED tx_vars
  BY <1>1, StillTx DEF tx_vars, SameKeys, SameCounters
<1> QED BY <1>1, CallsTx, ContinueTx DEF TxNext

-----------------------------------------------------------------------------
(* The flag has_valid_keys reads, and the keys packets are sealed with.    *)

\* Whoever is about to write the key holds the write lock; the flag is never
\* seen set without a key while the lock is free.
FlagInv ==
    /\ \A t \in TxThreads : (writer = t) <=> (tx[t].pc = "writing")
    /\ \A t \in TxThreads : tx[t].pc = "flagging" => current_self # NoKey
    /\ self_key_installed /\ writer = NoThread => current_self # NoKey

\* The packets that can be sealed under the keys up to `last'.
SealedUpTo(last) ==
    {seal(key, c, f) : key \in 1 .. last, c \in 0 .. MaxU64, f \in {0, 1}}

\* Every packet is sealed under a key that is or was the current one.
SealInv ==
    /\ generation <= MaxKey
    /\ \A t \in TxThreads :
          tx[t].pc \in {"sealing", "counting"} => tx[t].key \in 1 .. current_self
    /\ sent \subseteq SealedUpTo(current_self)

LEMMA FlagInit == TxInit => FlagInv /\ SealInv
BY TxAssumption, WireAssumption DEF TxInit, FlagInv, SealInv, tx_idle

\* A step that touches neither the lock, the flag nor the key.
LEMMA QuietFlag ==
    ASSUME FlagInv, NEW t \in TxThreads, NEW pc, NEW key, NEW counter,
           Moves(t, pc, key, counter), pc \notin {"writing", "flagging"},
           tx[t].pc # "writing",
           UNCHANGED <<writer, self_key_installed, current_self>>
    PROVE  FlagInv'
BY DEF FlagInv, Moves

LEMMA FlagStep ==
    ASSUME TxInv, FlagInv, NEW t \in TxThreads, TxCalls(t) \/ TxContinue(t)
    PROVE  FlagInv'
<1> USE DEF TxInv
<1>1. CASE reserve_counter(t)
  <2>1. Moves(t, "reserved", NoKey, after(next_counter))
    BY <1>1, ReserveMoves
  <2> QED BY <1>1, <2>1, QuietFlag DEF reserve_counter
<1>2. CASE encrypt_refused(t)
  BY <1>2, ReturnMoves, QuietFlag DEF encrypt_refused
<1>3. ASSUME NEW is_encoded \in BOOLEAN, encrypt_begin(t, is_encoded) PROVE FlagInv'
  <2>1. UNCHANGED <<writer, self_key_installed, current_self>> /\ tx[t].pc # "writing"
    BY <1>3 DEF encrypt_begin
  <2> QED BY <1>3, <2>1, BeginMoves, QuietFlag
<1>4. CASE Stage(t)
  BY <1>4 DEF Stage, update_next_self_key, FlagInv
<1>5. CASE update_next_self_key_invalid(t)
  BY <1>5 DEF update_next_self_key_invalid, tx_vars, FlagInv
<1>6. CASE promote_self_key(t)
  <2>1. UNCHANGED <<writer, self_key_installed, current_self>> /\ tx[t].pc # "writing"
    BY <1>6 DEF promote_self_key
  <2>2. CASE next_self = NoKey
    BY <1>6, <2>1, <2>2, ReturnMoves, QuietFlag DEF promote_self_key
  <2>3. CASE next_self # NoKey
    BY <1>6, <2>1, <2>3, PromoteMoves, QuietFlag
  <2> QED BY <2>2, <2>3
<1>7. CASE encrypt_seal(t)
  <2>1. Moves(t, "counting", tx[t].key, tx[t].counter)
    BY <1>7, PcMoves, Zenon DEF encrypt_seal
  <2> QED BY <1>7, <2>1, QuietFlag DEF encrypt_seal
<1>8. CASE encrypt_return(t)
  BY <1>8, ReturnMoves, QuietFlag DEF encrypt_return
<1>9. CASE promote_lock(t)
  <2>1. Moves(t, "writing", tx[t].key, tx[t].counter)
    BY <1>9, PcMoves, Zenon DEF promote_lock
  <2> QED BY <1>9, <2>1, TxAssumption DEF promote_lock, FlagInv, Moves
<1>10. CASE promote_flag_seen_early(t)
  BY <1>10, TxAssumption DEF promote_flag_seen_early, FlagInv
<1>11. CASE promote_write(t)
  <2>1. Moves(t, "flagging", tx[t].key, tx[t].counter)
    BY <1>11, PcMoves, Zenon DEF promote_write
  <2>2. writer = t /\ writer' = NoThread /\ current_self' # NoKey
    BY <1>11 DEF promote_write, FlagInv, KeyInv, TxTypeOK, NoKey
  <2> QED BY <2>1, <2>2, TxAssumption DEF FlagInv, Moves
<1>12. CASE promote_return(t)
  <2>1. Moves(t, "idle", NoKey, 0)
    BY <1>12, ReturnMoves DEF promote_return
  <2> QED BY <1>12, <2>1 DEF promote_return, FlagInv, Moves
<1> QED
  BY <1>1, <1>2, <1>3, <1>4, <1>5, <1>6, <1>7, <1>8, <1>9, <1>10, <1>11, <1>12
  DEF TxCalls, TxContinue, Encrypt

-----------------------------------------------------------------------------
\* A later key only adds to what can have been sealed.
LEMMA SealedGrows ==
    ASSUME NEW a \in Int, NEW b \in Int, a <= b
    PROVE  SealedUpTo(a) \subseteq SealedUpTo(b)
<1>1. 1 .. a \subseteq 1 .. b
  OBVIOUS
<1> QED BY <1>1 DEF SealedUpTo

\* A step that sends nothing: a call seals under the key it has or the current
\* one.
LEMMA QuietSeal ==
    ASSUME TxInv, SealInv, NEW t \in TxThreads, NEW pc, NEW key, NEW counter,
           Moves(t, pc, key, counter),
           pc \in {"sealing", "counting"} =>
               \/ key = current_self /\ current_self # NoKey
               \/ key = tx[t].key /\ tx[t].pc \in {"sealing", "counting"},
           current_self' = current_self \/ current_self' > current_self,
           current_self' \in Int,
           UNCHANGED <<sent, generation>>
    PROVE  SealInv'
<1>1. current_self \in {NoKey} \cup 1 .. generation /\ generation \in Nat
  BY DEF TxInv, KeyInv, TxTypeOK
<1>2. current_self \in Int /\ current_self <= current_self'
  BY <1>1 DEF NoKey
<1>3. sent' \subseteq SealedUpTo(current_self')
  BY <1>2, SealedGrows DEF SealInv
<1>4. ASSUME NEW u \in TxThreads, tx'[u].pc \in {"sealing", "counting"}
      PROVE  tx'[u].key \in 1 .. current_self'
  <2>1. tx'[u].key \in 1 .. current_self
    BY <1>1, <1>4 DEF SealInv, Moves, NoKey
  <2> QED BY <1>2, <2>1
<1> QED BY <1>3, <1>4 DEF SealInv

LEMMA SealStep ==
    ASSUME TxInv, SealInv, NEW t \in TxThreads, TxCalls(t) \/ TxContinue(t)
    PROVE  SealInv'
<1>0. /\ current_self' = current_self \/ current_self' > current_self
      /\ current_self' \in Int /\ generation \in Nat
      /\ TxTypeOK /\ KeyInv
  BY CallsTx, ContinueTx DEF TxInv, KeyInv, TxTypeOK, NoKey
<1>1. CASE reserve_counter(t)
  BY <1>0, <1>1, ReserveMoves, QuietSeal, Zenon DEF reserve_counter
<1>2. CASE encrypt_refused(t)
  BY <1>0, <1>2, ReturnMoves, QuietSeal DEF encrypt_refused, bounds
<1>3. ASSUME NEW is_encoded \in BOOLEAN, encrypt_begin(t, is_encoded) PROVE SealInv'
  <2>1. UNCHANGED <<sent, generation>>
    BY <1>3 DEF encrypt_begin, bounds
  <2>2. CASE current_self = NoKey
    BY <1>0, <1>3, <2>1, <2>2, ReturnMoves, QuietSeal DEF encrypt_begin
  <2>3. CASE current_self # NoKey
    BY <1>0, <1>3, <2>1, <2>3, BeginMoves, QuietSeal
  <2> QED BY <2>2, <2>3
<1>4. CASE Stage(t)
  BY <1>0, <1>4, WireAssumption DEF Stage, update_next_self_key, SealInv
<1>5. CASE update_next_self_key_invalid(t)
  BY <1>5 DEF update_next_self_key_invalid, tx_vars, SealInv
<1>6. CASE promote_self_key(t)
  <2>1. UNCHANGED <<sent, generation>>
    BY <1>6 DEF promote_self_key, bounds
  <2>2. CASE next_self = NoKey
    BY <1>0, <1>6, <2>1, <2>2, ReturnMoves, QuietSeal DEF promote_self_key
  <2>3. CASE next_self # NoKey
    BY <1>0, <1>6, <2>1, <2>3, PromoteMoves, QuietSeal
  <2> QED BY <2>2, <2>3
<1>7. CASE encrypt_seal(t)
  BY <1>0, <1>7, PcMoves, QuietSeal, Zenon DEF encrypt_seal, bounds
<1>8. CASE encrypt_return(t)
  <2> DEFINE packet == seal(tx[t].key, tx[t].counter, tx[t].flags)
  <2>1. Moves(t, "idle", NoKey, 0)
    BY <1>0, <1>8, ReturnMoves DEF encrypt_return
  <2>2. packet \in SealedUpTo(current_self)
    BY <1>0, <1>8 DEF encrypt_return, SealInv, TxTypeOK, Call, SealedUpTo
  <2>3. /\ sent' = sent \cup {packet} /\ current_self' = current_self
        /\ generation' = generation
    BY <1>8 DEF encrypt_return, bounds
  <2> HIDE DEF packet
  <2> QED BY <2>1, <2>2, <2>3 DEF SealInv, Moves
<1>9. CASE promote_lock(t)
  BY <1>0, <1>9, PcMoves, QuietSeal, Zenon DEF promote_lock, bounds
<1>10. CASE promote_flag_seen_early(t)
  BY <1>10 DEF promote_flag_seen_early, SealInv, bounds
<1>11. CASE promote_write(t)
  BY <1>0, <1>11, PcMoves, QuietSeal, Zenon DEF promote_write, bounds
<1>12. CASE promote_return(t)
  BY <1>0, <1>12, ReturnMoves, QuietSeal DEF promote_return, bounds
<1> QED
  BY <1>1, <1>2, <1>3, <1>4, <1>5, <1>6, <1>7, <1>8, <1>9, <1>10, <1>11, <1>12
  DEF TxCalls, TxContinue, Encrypt

-----------------------------------------------------------------------------
LEMMA TxInvHolds == TxSpec => []TxInv
<1>1. TxInit => TxInv
  BY TxInitInv DEF TxInv, Counted
<1>2. TxInv /\ [TxNext]_tx_vars => TxInv'
  BY NextTx
<1> QED BY <1>1, <1>2, PTL DEF TxSpec

\* reserve_counter: until the counter has wrapped once around, no two packets
\* of any number of threads have the same counter.
THEOREM UniqueCountersHolds == TxSpec => []UniqueCounters
<1>1. TxInv => UniqueCounters
  BY DEF TxInv, Counted
<1> QED BY <1>1, TxInvHolds, PTL

\* promote_self_key: the send key is only ever replaced by a later one.
THEOREM KeyOrderHolds == TxSpec => KeyOrder
<1>1. TxInv /\ [TxNext]_tx_vars
          => [current_self' = current_self \/ current_self' > current_self]_tx_vars
  BY NextTx
<1> QED BY <1>1, TxInvHolds, PTL DEF TxSpec, KeyOrder

\* A step of one sending thread.
Sending(t) == TxCalls(t) \/ TxContinue(t)
=============================================================================
