# A TLA+ verification of lightway-cffi

This directory specifies `lightway-cffi`, the C ABI over `lightway-core`, and
the ExpressLane data-packet crates kept beside it. The modules are translated
from the Rust sources; TLC checks them on small instances, and TLAPS proves the
central ones for every instance.

## The system and its parts

| Part | Source | Modules | State |
|---|---|---|---|
| Replay window | `lightway-expresslane/src/replay_window.rs` | `ReplayWindow`, `ReplayWindowMachine`, `ReferenceWindow`, `DifferentialWindow`, `SlidingWindow` | modelled, proved |
| Packets, keys, AEAD | `session.rs`, `cipher.rs`, `key.rs`, `version.rs`, `error.rs` | `ExpresslaneWire` | modelled |
| Session, sending half | `session.rs` | `ExpresslaneTx` | modelled, proved |
| Session, receiving half | `session.rs` | `ExpresslaneRx` | modelled, proved |
| Session as a whole | `session.rs` | `ExpresslaneSession` | modelled, proved |
| Key rotation between two ends | `session.rs`; the hand-shake is the core's | `ExpresslaneTunnel` | partly, proved |
| ExpressLane C ABI | `lightway-expresslane-cffi/src/` | `ExpresslaneFfi` | modelled, proved |
| Per-client lock | `src/lib.rs` | `ClientLock` | modelled, proved |
| Client configuration | `src/lib.rs`, `src/conn.rs` | `ClientConfig`, `ClientWiring` | partly, proved |
| Client life cycle and data path | `src/lib.rs`, `src/conn.rs`, `src/cffi_event.rs` | `Client` | partly, proved |
| Ticks and the host's timer | `src/cffi_state.rs`, `src/lib.rs` | `Ticks`, `Client` | modelled, proved |
| Event bridge | `src/cffi_event.rs` | `Client`, `ClientWiring` | modelled, proved |
| I/O adapters | `src/cffi_io.rs` | `ClientWiring` | modelled, proved |
| IP configuration callback | `src/cffi_ip_config.rs` | `ClientWiring` | partly |
| Offload framing | `src/lib.rs` (`he_conn_identify_packet`, `he_conn_build_expresslane_header`) | `Offload` | modelled, proved |
| Key delivery and metrics | `src/cffi_expresslane.rs` | `Offload`, `ClientWiring` | partly, proved |
| Benchmark | `lightway-expresslane-bench/src/` | `Bench` | partly, proved |
| C types, build scripts, the benchmark's CPU and Windows probes | `src/types.rs`, `build.rs`, `cpu.rs`, `win.rs` | | not modelled |

A component's instance for TLC is the module with `MC` before its name. Its
theorems are in the module named after it with `Proofs` added; the lemmas about
the replay window's operators are in `ExpresslaneRxProofs`, the theorems of the
reference window and of the machine in `DifferentialWindowProofs`, those of the
session hint in `ExpresslaneFfiProofs`, and those of the lock, the wiring, the
configuration and the offload in `ClientProofs`. `BenchPassProofs` holds the
lemmas `BenchProofs` rests on.

How they interact. A host drives one `he_client_t` from several threads. Each
data-path call takes the per-client lock (`ClientLock`) and runs the body
(`Client`) with the only reference to the client; the body calls into the
core's `Connection`, which reports state changes and asks for ticks through
callbacks (`Ticks`), and the host keeps one timer for all ticks. When
ExpressLane is negotiated the core hands keys to the host, which installs them
in an `he_expresslane_session_t` (`ExpresslaneFfi` over `ExpresslaneTx` and
`ExpresslaneRx`) and from then on encrypts and decrypts data packets there,
from any thread. Received counters go through the replay window. Such a host
tells the datagrams of the fast path from the core's by their header, and frames
what it sends itself (`Offload`). Which of the host's callbacks each path of the
shim reaches is settled by the setters and by the moment of connecting
(`ClientWiring`).

Outside the repository, and therefore external in the models: `lightway-core`
(its states, errors and tick requests; its key exchange), `ring`'s AES-GCM, the
clock, the network and the host.

## The models

### Replay window

`ReplayWindow` holds the pure operators: `ring_index`, `bit_of`,
`mask_between`, `clear_range`, `would_reject` and `commit`, over a bitmap of
`NUM_BLOCKS` words of `BLOCK_BITS` bits (128 words of 64 bits in the code). A
word is the set of its one bits. `Represents(w, S)` says what a window means:
its fields and its in-window bits are exactly those of the set `S` of accepted
counters. `ReplayWindowMachine` commits arbitrary counters in arbitrary order.
`SlidingWindow` is the abstract promise, with no bitmap: take a counter that was
not taken before and is not `WINDOW` or more behind the highest.
`ReferenceWindow` is the shift-register window of the tests, and
`DifferentialWindow` extends the machine with it and feeds both the same
counters, as the random tests do.

### ExpressLane session

`ExpresslaneWire` models a packet by its counter, its flags, what was sealed
(key generation and associated data), whether it is intact, and its length.
Version 1 binds the counter, version 2 the flags too. AES-GCM is ideal: a packet
opens only under the key and associated data it was sealed with, and a failure
leaves the buffer unchanged, wiped or scrambled: the contract `cipher.rs` quotes
from `ring` says "unspecified", and `session.rs` relies on no more. Nonces are not
modelled: the caller supplies them, and `encrypt` documents that the crate cannot
enforce their uniqueness.

`ExpresslaneTx` makes every lock acquisition of the sending half a step:
`reserve_counter` is one atomic step; `encrypt` takes the read lock, seals,
releases, counts; `promote_self_key` takes the staged key under the `next_self`
mutex, waits for the write lock, writes, sets the flag, releases. The flag is a
relaxed store, so `promote_flag_seen_early` lets other threads see it before the
key is written. The AEAD does not fail on encryption: the payload is capped at
`u16::MAX`, far below the limit of AES-GCM.

`ExpresslaneRx` splits `decrypt` at the pre-check, the AEAD and the commit,
though the mutex makes one critical section of them: what the mutex buys is what
is to be shown. `update_peer_key` is one step under the mutex.

`ExpresslaneSession` joins both halves with `has_valid_keys`, two loads in two
steps. `ExpresslaneTunnel` joins a sender's sending half and a receiver's
receiving half over a network that keeps every packet ever sent and offers it,
or a damaged form of it, at any time: loss, repetition and reordering are
special cases. `ExpresslaneFfi` puts the C ABI on top: NULL handles, out-params
that keep their value from call to call, and panics caught by `ffi_guard`, which
may strike in the AEAD and unwind through the held lock. It covers the whole
session, so its run also answers for `has_valid_keys`.

### Client

`ClientLock` models `lock_client`: the owner token is loaded before the mutex is
taken, stored after, cleared before it is released. Bodies fire callbacks, in
which the host may call again, and may panic, which poisons the mutex.

`Client` models the bodies. A call is one step, except `he_conn_nudge`, which
reads the clock three times: it is a sequence of steps between which time
passes. Ticks are kept as the time left; `UnitsPerMs` units make a millisecond,
so rounding is visible, and `MaxTimeoutMs` plays `i32::MAX`. The core is free to
advance the handshake, end the connection, ask for ticks, and fail benignly or
fatally. The host is the one the comments describe: one timer, which
`nudge_time_cb` resets from whatever thread the core is called on, and a nudge
thread (`host`). The thread waits, nudges, may call
`he_conn_expresslane_rotate_if_due`, which refreshes `nudge_time_ms` when ONLINE
and changes nothing otherwise, and then resets the timer to
`he_conn_get_nudge_time`. These are separate steps: other threads use the data
path between them, and up to `MaxLag` of time passes from the call that computed
`nudge_time_ms` to its re-read. A callback that comes in between is newer than
the value the thread is about to read. The repository does not say what the host
does then, so the model has both: it lets the callback stand, or the re-read
undoes it, which is recorded in `host.lost` until the next callback or nudge.
`WakesOnTime` and `TicksServed` promise nothing of a host that has lost a
wake-up in this way, since nothing wakes it; a host must therefore not let the
re-read replace a notification that came after the nudge. The core may panic on the data path and inside a nudge, in a tick or between two;
`ffi_guard` turns that into an error code, and the model keeps what the unwound
call had done by then. A panic costs what the rest of the call would have done:
the timing properties (`WakesOnTime`, `HandshakeTimed`, `TicksServed`) and the
captured crypto info of `InfoStable` are promised of a connection only until a
call into it has panicked; the others hold regardless.

Assumed of the core: it asks for a ConnectionTick on connecting and, during the
handshake, with every tick that succeeds; ONLINE is not reached in the call that
finished the TLS handshake; payload ticks are asked for when ONLINE and not
again while one of the kind is outstanding; `disconnect()` reports both
transitions when ONLINE and none otherwise; an error of `inside_data_received`
leaves the connection usable. A successful tick reports no state change. These
are read off the comments and the use of the core in `src/lib.rs` and
`src/cffi_state.rs`; the core's own source is not in the repository, so nothing
here confirms them.

`ClientConfig` models the setters that connecting depends on, and the two
places that check them.

`ClientWiring` models what `he_client_connect` copies into the adapters it hands
to the core (callbacks, the context of the moment, transport) against what stays
in the client and is read later by the state changes the shim synthesises itself.
Setters may be called at any time. An error of a core
call ends a stream connection and, unless fatal, leaves a datagram connection
alone; a host callback that fails is such an error.

### Offload

`Offload` has a server that rotates the session id, a network that alters ids,
flips the plane bit, spoils the magic and cuts datagrams short, the core, which
learns an id from control traffic, and a host that does what the documentation
of the two framing calls asks of it: it takes its first id from the key callback
and adopts another only after a successful decrypt under it. Receiving and
adopting are two steps, so that threads adopt ids out of order. The server
completes a rotation when it has heard the new id back.

### Benchmark

`Bench` follows a whole run: the pool and its slot cap, the self test, warm-up
and calibration, rounds in permuted order, the ten arms over one destination
buffer that outlives each of them, the sweep, and the checksum gates of the
report. Any pass may have packets the AEAD refuses.

## The runs

| Run | Instance | States | Shows |
|---|---|---|---|
| `replay_window` | 4 words of 4 bits, 16 counters at the boundaries, up to the largest one | 131,071 | the bitmap represents exactly the accepted counters; no replay; `would_reject` and `commit` agree; the reference window agrees; implements `SlidingWindow` |
| `sending` | 3 threads, 2 keys, 3 packets, the third wraps the counter | 32,708 | unique counters up to the wrap, keys in order, locks given back, promotions return once no encryption begins |
| `receiving` | 2 threads, 2 keys, 11 packets | 141,501 | only authentic packets move the window, each counter once, clean buffers; implements `SlidingWindow` |
| `tunnel` | 2 senders, 1 receiver, 3 keys, 2 packets | 60,190 | delivered packets were sent; one rotation loses nothing in flight |
| `expresslane_abi` | 1 sender, 1 receiver, 2 keys each way, 2 packets, panics | 717,900 | out-params are those of the last call past the null checks; a true `has_valid_keys` is never ahead of the keys; a panic keeps no lock |
| `client_lock` | 4 threads | 352 | exclusive reference, exact refusals, waiters served after panics |
| `client` | 2 connections, 2 payload ticks, delays of 1/2 and 5/2 ms, 2 extra ticks, a lag of 1/2 ms, panics | 246,916 | one DISCONNECTED each, exact cached state, timely wake-ups, no lost tick |
| `client_wiring` | 10 callbacks in 2 versions, 2 contexts, 4 setter calls | 214,276 | every callback reaches the listener registered for it |
| `offload` | 2 datagrams in flight, 2 receiving threads, 2 rotations | 177,381 | headers carry assigned ids only; rotations complete |
| `bench` | 10 arms, pools of the floor and above, up to 3 rounds, 1 pass with refusals | 2,552,980 | no false alarm of the checksum gates, no refusal they miss |
| `config_ready` | every sequence of setters | violated | a configuration reported ready is refused |
| `nudge_time` | as `client` | violated | a tick is pending while the getter says 0 |

Every property has a fault: an operator beside the definition it replaces,
commented `Fault:`, under which TLC finds the property violated.

Why the bounds are enough. The window's behaviour depends on word boundaries,
slot sharing and whole-window jumps; four words and counters over three windows
reach each of them, up to the largest counter (`MaxU64`, one less than a
multiple of the window as in the code), and the theorems below remove the bound.
Three sending threads are two promotions and an encryption in flight; with
`MaxU64 = 2` the third reservation wraps the counter. Two receiving threads are
one inside the critical section and one outside. Three keys let a packet be
overtaken by one rotation, which it must survive, and by two, which it need not.
Two connections reach the reconnect after every kind of ending, and
`MaxSchedules = 2` leaves two payload ticks and the handshake's ConnectionTick
outstanding at once; a delay of 5/2 ms is over the cap and one of 1/2 ms is rounded up.
With `MaxLag = 1` a deadline can pass between a nudge and the re-read, and the
bound of `WakesOnTime` is attained; the theorem removes the bound. Four
setter calls configure a client, and configure it anew between or during its
connections; the theorems remove the bound. Two rotations put ids of three
epochs in flight, so that a late packet takes a thread back by one and by two.
In the benchmark three rounds are one in the given order, one rotated and
reversed and one rotated, all the runner ever does to an order; one pass with
the first, the last or every packet refused is the least a gate has to notice;
here too the theorems remove the bounds.

The `tunnel` run does not check for deadlock: once the packets and keys of the
bounds are used up, its sender has nothing left to do. Every other run does.

### Fairness

* `ExpresslaneTx`, `ExpresslaneFfi`: a thread that has begun a call keeps
  running (weak fairness per thread on continuing). Nobody has to begin a call.
  A promotion waits for the write lock, and `std::sync::RwLock` promises no order
  between it and new readers: `TxCallsReturn` says that whoever has a lock gives
  it back, and that a promotion gets its lock provided that at some point no new
  encryption begins.
* `ClientLock`: a thread inside the library keeps running, callbacks return,
  bodies are finite (strong fairness on leaving a body, since a callback can
  interrupt it again and again), and a free mutex goes to some waiter. Which one
  is left open, as `std::sync::Mutex` promises no order; so the property is that
  some waiter is served, not that each one is.
* `Client`: time passes, the host nudges once its timer has expired, a nudge
  that has begun ends, and the nudge thread goes on to its re-read. Nothing is
  assumed of the core.
* `Offload`: fast-path traffic flows both ways. The server keeps sending, a
  fresh intact datagram is received again and again, and the host keeps sending
  (strong fairness on the last two, since overwritten datagrams and key callbacks
  disable them from time to time). Nothing is assumed of the control channel,
  on which a rotation is not to depend.

## What is proved

`ExpresslaneRxProofs` first proves what the bit operators compute: that distinct
in-window counters have distinct slots (`SlotInjective`), that `clear_range`
clears every counter of its range and no counter that stays in the window
(`ClearRangeClears`, `ClearRangeKeeps`), that `would_reject` decides freshness
(`PrecheckExact`), and that `commit` keeps `Represents` (`CommitRepresents`).
Assumption: the number of blocks and the block width are positive naturals.

`DifferentialWindowProofs` derives from them, for every set of natural
counters: the inductive invariant `Inv`, the type invariant, the ring aliasing
invariant documented in the source, `NoReplay`, `PrecheckDecides`, and the
refinement of `SlidingWindow`. None of these is inductive without `Represents`:
an exact bit now depends on the bits of a window ago having been cleared. The
same module proves `SameWindow`, what the differential tests sample, for every
geometry: `RefShiftLeft` shows that the word-by-word shift of the reference moves
bit `a` to `a + count`, across word boundaries, and `RefRepresents`, the meaning
of an age-indexed bitmap, is kept by its commit; since both windows stand for the
same set of accepted counters, they agree on every verdict and bit.
`DifferentialRuns` carries the theorems of the machine over to the specification
the run checks.

`ExpresslaneRxProofs` then proves the receiving half for every set of threads,
packets and keys and both versions, assuming that packets are of the packet type
and that no thread has the name of a free lock. The inductive invariant `RxInv`
(`RxCore`, which a panic in the AEAD keeps, with `BufferClean`, which it need not)
adds to the properties that a packet between pre-check and commit is still
fresh, and that one between AEAD and commit is authentic with its plaintext in
the buffer; the mutex conjunct of the type invariant carries the first part
across the steps of other threads. From it follow `WindowExact`,
`DeliveredOnce`, `RefusedCommitUnreachable` (the branch marked UNREACHABLE BY
CONSTRUCTION in `session.rs`), `BufferClean`, `OnlyAuthentic`, and the
refinement of `SlidingWindow`.

`ExpresslaneTxProofs` proves `UniqueCounters` and `KeyOrder` for every set of
threads, bound on the keys and size of the counter, assuming that no thread has
the name of a free lock. `UniqueCounters` is inductive once the counters in use
are tied to the number of reservations made. `KeyOrder` needs to know of a
promotion under way that it holds the `next_self` mutex, so that nothing is
staged meanwhile, that at most one is under way, and that its key is newer than
the current one. Two more invariants serve the compositions: `FlagInv` ties the
relaxed flag to the key and the write lock, and `SealInv` says that every packet
was sealed under a key that is or was the current one.

`ExpresslaneFfiProofs` and `ExpresslaneTunnelProofs` compose the two halves, from
their step lemmas, for every set of threads and every bound on keys and counters.

* Behind the C ABI (`FfiSpec`), assuming that a thread that both sends and
  receives is counted as two. `FfiInv` adds to the halves that the out-params of
  a call in progress are defaulted and that the flags `has_valid_keys` has read
  are still set. `CallerReadsOwnPacket` and `HintSound` follow, the first for
  every outcome: `HE_EXPRESSLANE_ERR_NULL_POINTER` leaves the out-params and the
  buffer of the call before, which still belong together; a caught panic
  disturbs neither half (`PanicsHarmless`; only the buffer of the call that
  panicked is not promised), nor `KeyOrder`, nor the refinement of
  `SlidingWindow`.
* In a tunnel (`TunnelSpec`). `TunnelInv` adds `RotationInv`, where the two ends
  are with their keys: the receiver has every key before the sender uses it, and
  the one before as its previous key; and `NetInv`, that every call of `decrypt`
  is on a packet that was sent or a damaged form of one. `NoLossInRotation`
  follows because a packet that could have been sent and is a damaged form of
  another is that other (`DamagedForeign`), so its key is the current one, the
  previous one, or older than both. `DeliveredWasSent` is proved for version 2;
  for version 1 the theorem is what `build_aad` gives there: a delivered packet
  was sent, except perhaps for its flags (`DeliveredWasSentButFlags`). What
  the halves promise, `KeyOrder` and the refinement of `SlidingWindow` hold of the
  tunnel too.

`ClientProofs` proves of the lock, for every set of threads, that the mutex is held
exactly from acquire to release and that the owner token is set exactly while a
reference is live; exclusive references and exact refusals follow. Assumption:
no thread has the token of a free owner.

`ClientProofs` proves every safety property of the `client` run for every set of
payload ticks, delay and bound, assuming that delays are naturals, that a
millisecond has at least one unit and the largest timeout at least one
millisecond, and that `ConnectionTick` is not also the name of a payload tick.
Each of the actions is first shown to be a step of one of four kinds: the
connection goes on, ends, begins, or nothing of it changes (`StepKinds`); the
invariant `ClientInv` relates the cached state, the callbacks delivered and the
presence of the connection, and is preserved by each kind. `DisconnectedOnce`,
`CachedStateExact`, `NoDeadConnection`, `HandshakeTimed`, `TicksKept` and
`InfoStable` follow. `WakesOnTime` says that while ticks are pending and the
nudge thread waits, the timer is armed and expires less than a millisecond and
`MaxLag` after the earliest deadline, for any positive `MaxLag`. It is inductive
with `RereadInTime`, what the thread on its way to the re-read will find: a timer the
callback has just set, or a `nudge_time_ms` that was right when it was computed,
`host.lag` ago. The proof rests on the existence of an earliest deadline
(well-ordering) and on a bound of the rounding up to milliseconds.

The same module proves `EgressRoutable` for any number of datagrams in flight,
receiving threads and rotations. The invariant: whatever
holds a session id (the core, the offload, a thread about to adopt one) holds
one the server has issued, and a datagram is sealed under the id it was sent with,
so that an altered header does not get past the decrypt.

It also proves `OneListener` for every set of callbacks and contexts and any
number of setter calls, from the invariant that the adapters of a live connection
are those of the current settings until a setter is called.

And it proves that `he_client_is_config_valid` and `he_client_connect` agree on
what is missing, whatever the configuration.

`BenchPassProofs` and `BenchProofs` prove the four properties of the `bench` run
for every pool, number of rounds, of samples and of refused packets, assuming
that the floor of the pool is a positive natural, a job takes at least one sample
per round, and the other bounds are naturals. The argument has three parts.

* A pass, a checksum and the list of jobs are recursive functions, so what they
  compute is a matter of induction. The provers cannot use an induction theorem
  with a predicate for a parameter; `NatSet` states induction over Nat of a set,
  from the well-foundedness of `<`. `LoopRuns` shows that a loop whose steps are
  functions has a course, so that the recursive function is one, and the pass
  lemmas follow it slot by slot: with nothing refused, a pass from any buffer
  sums to the checksum of its family (`SoundPass`), a cold pass of the copy or of
  the sender leaves its own output in every slot (`WritingPass`), and `null` reads
  what was there and writes nothing (`NullPass`).
* `MainJobs` finds 19 jobs and which come first and last; `Permuted` and
  `FirstRounds` show that every round runs each of them, the first in the given
  order and the second with the jobs after the first in reverse.
* The invariant `BenchInv` says of a run in progress that no job counts more
  successes than packets and a spoiled sample leaves one short (`Counted`); that,
  while nothing was refused, every job but `null` that has recorded a sample
  holds its family's checksum, and after a round every job has (`Sound`); and
  where in rounds 0 and 1 the buffer holds the sender's and the copy's packets,
  so that the cold `null` job records two different sums (`Drifts`). `Settled`
  keeps of it what the report judges. None of the gates is inductive alone: they
  judge the results of a run that has ended, and the sweep runs in between.

Only model-checked: the liveness properties (`TxCallsReturn`, `LocksComeBack`,
`WaitersServed`, `TicksServed`, `RotationCompletes`), since the proof system does
not handle fairness. Every other property of a passing run is a theorem.

## Disagreements between the code and its documentation

* `src/cffi_state.rs:109`: "`he_conn_get_nudge_time` exposes" the recorded
  deadline. It exposes the value of the last nudge, which is 0, no timer, from
  `he_client_connect` on until the first nudge (`NudgeTimeExposesDeadline`).
* `src/lib.rs:350` and `:373`: validation must not "report a config as ready that
  cannot actually connect". It checks presence only; a username, password,
  token or SNI hostname that is not UTF-8 is stored, reported as ready, and then
  refused with `HE_ERR_BAD_PARAM` (`ReadyMeansAccepted`).

Two more have no run:

* `src/conn.rs:265` says "only one of (username+password) or auth_token is set",
  but no setter clears the other kind, and connecting prefers the pair
  (`credentials` of `ClientConfig`).
* `lightway-expresslane-cffi/src/lib.rs:252` and `:405`: "any error or panic
  return leaves" safe values in the out-params "rather than the caller's prior"
  ones. `HE_EXPRESSLANE_ERR_NULL_POINTER` is returned before they are defaulted,
  so that it leaves the prior ones (`null_pointer` of `ExpresslaneFfi`;
  `CallerReadsOwnPacket` exempts that code where it relates length and code).

Observations on the benchmark, of which its documentation says nothing:
`--rounds 0` passes every checksum gate, over no samples; operations refused in
the sweep reach no gate; and the session arm compares `packets_received`, a total
over the session, with the size of the pool, so that it depends on a session of
its own for every sample: a session used again after the first one would show in
the count of operations only.

## What is not modelled, and why

* `he_client_destroy`, which is not serialised with any call, by contract.
* Panics in `he_client_disconnect` and `he_conn_expresslane_rotate_if_due`.
* The MTU and the PQC and cipher switches, which the core is handed unread; the
  getters, which change nothing, except `he_conn_get_nudge_time`, on which the
  host's timer depends. The data race a plain getter has with a data-path call
  is excluded by the threading rules of the repository's README.
* The metrics query: the shim hands the core's session id to the host's callback
  and its answer to the core, so that a lookup which fails during a rotation is
  the host's.
* Poisoning of the session's locks as state: they are taken with
  `PoisonError::into_inner` throughout, and the models take them so.
* In the benchmark, allocations beyond memory (`pool.rs:118`, `main.rs:477`) and
  the `expect`s of sealing the pool (`pool.rs:159`, `:175`): `RunSurvives` is about
  the other ways a run can die.
* The formatting of addresses, names and reports, and the byte layouts, which
  the wire-vector tests pin.
* Cycle counts, medians, projection and verdict of the benchmark, which are
  floating-point statistics of a clock, and its CPUID and Windows calls.
* C types and build scripts: constants and generated headers.

## Plan

1. A key delivered twice to a session: `update_peer_key` then takes the key for
   its own predecessor. It needs the core's delivery rules, which are not in the
   repository.
2. Two clients whose callbacks call into each other, over two `ClientLock`s.
