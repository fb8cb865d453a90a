------------------------------- MODULE Client -------------------------------
(***************************************************************************)
(* The life of a client (src/lib.rs): connecting, the data path, nudging   *)
(* and every way a connection ends.  The calls run under the client's lock *)
(* (ClientLock), so one is in progress at a time; only he_conn_nudge reads *)
(* the clock more than once, and time passes between its steps.            *)
(*                                                                         *)
(* The core's Connection is external: it reports states, asks for ticks    *)
(* and returns Ok, a benign error, a fatal error or TimedOut, or panics,   *)
(* which ffi_guard turns into HE_ERR_FAILED.  So is the host, whose        *)
(* threads use the data path at any time.  It has one timer, which         *)
(* nudge_time_cb resets, and a nudge thread which waits for it, nudges,    *)
(* may call he_conn_expresslane_rotate_if_due, and resets the timer to     *)
(* he_conn_get_nudge_time; time passes and other threads call in between.  *)
(***************************************************************************)
EXTENDS Ticks

CONSTANTS Delays,        \* the delays the core asks for
          MaxConnections, \* bound on the connections of the client
          MaxSchedules,  \* bound on the ticks asked for outside a handshake
          MaxLag         \* the longest the nudge thread takes from the call
                         \* that computed nudge_time_ms to reading it

ASSUME DelaysAssumption == Delays \subseteq Nat
ASSUME LagAssumption == MaxLag \in Nat \ {0}

VARIABLES state,         \* he_conn_t::state
          connection,    \* the live Connection with its app state, or none;
                         \* history: whether a call into it has panicked
          nudge_time_ms, \* he_conn_t::nudge_time_ms
          info,          \* the captured protocol, curve and cipher: the
                         \* connection they are of, and which copy C sees
          nudge,         \* where he_conn_nudge is, and the due payload ticks
          timer,         \* host: the time left on its timer
          host,          \* host: where its nudge thread is; since the last
                         \* value of nudge_time_ms, whether the timer was
                         \* reset and the time passed; whether the thread has
                         \* undone such a reset
          connections,   \* history: connections made
          schedules,     \* history: ticks asked for outside a handshake
          endings,       \* history: DISCONNECTED callbacks of this connection
          dead           \* history: the last connection with a fatal error

vars == <<state, connection, nudge_time_ms, info, nudge, timer, host,
          connections, schedules, endings, dead>>

NoConnection == [id |-> 0, state |-> "NONE", app |-> app_state,
                 panicked |-> FALSE]
NoInfo == [of |-> 0, copy |-> 0]
Idle == [phase |-> "idle", due |-> {}]
Waiting == [at |-> "waits", told |-> FALSE, lag |-> 0, lost |-> FALSE]
Handshake == {"CONNECTING", "LINK_UP", "AUTHENTICATING"}

live == connection # NoConnection

Init == /\ state = "NONE" /\ connection = NoConnection
        /\ nudge_time_ms = 0 /\ info = NoInfo /\ nudge = Idle
        /\ timer = None /\ host = Waiting /\ connections = 0 /\ schedules = 0
        /\ endings = 0 /\ dead = 0

-----------------------------------------------------------------------------
\* What a call into the core may do.  It asks for at most one tick, <<>> being
\* none; for a payload tick only when Online with no such tick outstanding.
NoTick == <<>>
ConnectionTicks == {"ConnectionTick"} \X Delays
AnyTick == ConnectionTicks \cup (PayloadTicks \X Delays)

\* The core's states after a call that was fed a packet.
Advances(s) == CASE s = "CONNECTING"     -> {s, "LINK_UP", "AUTHENTICATING"}
                 [] s = "LINK_UP"        -> {s, "AUTHENTICATING"}
                 [] s = "AUTHENTICATING" -> {s, "ONLINE"}
                 [] OTHER                -> {s}

\* The tick may be asked for; it counts against the bound.
MayAsk(s, ask) ==
    IF ask = NoTick
    THEN UNCHANGED schedules
    ELSE /\ schedules < MaxSchedules
         /\ schedules' = schedules + 1
         /\ ask[1] \in PayloadTicks =>
                /\ s = "ONLINE"
                /\ connection.app.pending_ticks[ask[1]] = None

\* cffi_schedule_tick_cb: the app state with the tick recorded, and the host's
\* timer after the callback.
Recorded(app, ask) ==
    IF ask = NoTick THEN app ELSE record_tick(app, ask[1], ask[2])

Notified(app, ask) ==
    IF ask = NoTick THEN timer ELSE notified_timeout(app, ask[2])

\* The callback resets the host's timer, whatever its nudge thread is doing.
Notify(app, ask) ==
    /\ timer' = Notified(app, ask)
    /\ host' = IF ask = NoTick THEN host
               ELSE [host EXCEPT !.told = (host.at # "waits"), !.lost = FALSE]

\* CffiEventCallback::event: the DISCONNECTED callbacks there have been once
\* the core has reported state s.
EndingsAfter(s) == IF s = "DISCONNECTED" /\ state # s THEN endings + 1
                                                      ELSE endings

\* The core has reported state s, which is cached and passed on, and goes on.
Continues(s, app) ==
    /\ connection' = [connection EXCEPT !.state = s, !.app = app]
    /\ state' = s
    /\ endings' = EndingsAfter(s)

\* Fault: the crypto info is copied again on every packet.
sync_conn_info_every_time(s) ==
    info' = IF s \in {"LINK_UP", "AUTHENTICATING", "ONLINE"}
            THEN [of |-> connection.id, copy |-> (info.copy + 1) % 3]
            ELSE info

\* The core exposes protocol, curve and cipher once the handshake is through;
\* they are captured exactly once.
sync_conn_info(s) ==
    info' = IF info = NoInfo /\ s \in {"LINK_UP", "AUTHENTICATING", "ONLINE"}
            THEN [of |-> connection.id, copy |-> 1] ELSE info

\* Fault: the callback fires whatever the core has already signalled.
fatal_disconnect_always_fires(s) ==
    /\ state' = "DISCONNECTED"
    /\ endings' = EndingsAfter(s) + 1
    /\ connection' = NoConnection

\* The connection is dropped, and DISCONNECTED delivered unless s, the state
\* the core has reported last, already says so.
fatal_disconnect(s) ==
    /\ state' = "DISCONNECTED"
    /\ endings' = EndingsAfter(s) + (IF s = "DISCONNECTED" THEN 0 ELSE 1)
    /\ connection' = NoConnection

-----------------------------------------------------------------------------
\* Fault: the initial state is left to the core, which does not report it.
state_unreported(s) == s

\* The initial transition is synthesised, from whatever state was cached.
state_on_connect(s) == "CONNECTING"

\* he_client_connect, once its checks (ClientConfig) and the builders of the
\* core have passed; a call those refuse changes nothing.  The core asks for
\* the first ConnectionTick of the handshake, and the crypto info is cleared
\* so that it is captured again.
client_connect(ask) ==
    /\ nudge = Idle
    /\ ~live
    /\ connections < MaxConnections
    /\ connections' = connections + 1
    /\ connection' = [id |-> connections + 1, state |-> "CONNECTING",
                      app |-> Recorded(app_state, ask), panicked |-> FALSE]
    /\ Notify(connection'.app, ask)
    /\ info' = NoInfo
    /\ state' = state_on_connect(state)
    /\ endings' = 0
    /\ UNCHANGED <<nudge_time_ms, nudge, schedules, dead>>

\* The core's connect() fails or panics after it has asked for its tick: the
\* app state goes with it, but the host has been told to wake up.
client_connect_fails(ask) ==
    /\ nudge = Idle
    /\ ~live
    /\ Notify(Recorded(app_state, ask), ask)
    /\ UNCHANGED <<state, connection, nudge_time_ms, info, nudge, connections,
                   schedules, endings, dead>>

\* he_client_disconnect.  The core's disconnect() itself reports DISCONNECTING
\* and DISCONNECTED when Online, and nothing otherwise; both are synthesised
\* if the cached state is neither.
client_disconnect ==
    /\ nudge = Idle
    /\ LET cached == IF live /\ connection.state = "ONLINE"
                     THEN "DISCONNECTED" ELSE state
           already == cached \in {"DISCONNECTING", "DISCONNECTED"}
       IN  /\ state' = IF already THEN cached ELSE "DISCONNECTED"
           /\ endings' = EndingsAfter(cached) + (IF already THEN 0 ELSE 1)
    /\ connection' = NoConnection
    /\ UNCHANGED <<host, nudge_time_ms, info, nudge, timer, connections,
                   schedules, dead>>

\* he_conn_outside_data_received with Ok or a benign error.  The core may have
\* heard the peer's goodbye and report the end by itself.
outside_data_received(s, ask) ==
    /\ nudge = Idle
    /\ live
    /\ s \in Advances(connection.state) \cup {"DISCONNECTED"}
    /\ MayAsk(s, ask)
    /\ LET app == Recorded(connection.app, ask)
       IN  Notify(app, ask) /\ Continues(s, app)
    /\ sync_conn_info(s)
    /\ UNCHANGED <<nudge_time_ms, nudge, connections, dead>>

\* Fault: only the return code tells of a fatal error.
outside_data_fatal_kept(s) ==
    /\ nudge = Idle
    /\ live
    /\ dead' = connection.id
    /\ UNCHANGED <<host, state, connection, endings, nudge_time_ms, info,
                   nudge, timer, connections, schedules>>

\* he_conn_outside_data_received with a fatal error.
outside_data_fatal(s) ==
    /\ nudge = Idle
    /\ live
    /\ dead' = connection.id
    /\ fatal_disconnect(s)
    /\ UNCHANGED <<host, nudge_time_ms, info, nudge, timer, connections,
                   schedules>>

\* he_conn_inside_packet_received; an error only changes the return code.
inside_packet_received(ask) ==
    /\ nudge = Idle
    /\ live
    /\ MayAsk(connection.state, ask)
    /\ LET app == Recorded(connection.app, ask)
       IN  Notify(app, ask) /\ Continues(connection.state, app)
    /\ sync_conn_info(connection.state)
    /\ UNCHANGED <<nudge_time_ms, nudge, connections, dead>>

\* he_conn_outside_data_received or he_conn_inside_packet_received, the core
\* panics after it has reported state s: the panic unwinds past
\* sync_conn_info and fatal_disconnect, and the connection stays.
data_path_panics(s) ==
    /\ nudge = Idle
    /\ live
    /\ s \in Advances(connection.state) \cup {"DISCONNECTED"}
    /\ connection' = [connection EXCEPT !.state = s, !.panicked = TRUE]
    /\ state' = s
    /\ endings' = EndingsAfter(s)
    /\ UNCHANGED <<host, nudge_time_ms, info, nudge, timer, connections,
                   schedules, dead>>

-----------------------------------------------------------------------------
\* Fault: the public timer only looks at the ConnectionTick.
next_wake_connection_only(app) == app.next_tick

\* The deadline the public timer is computed from.
next_wake(app) == earliest_tick_deadline(app)

\* A call of the nudge thread returns to it.
Returns == /\ host' = [Waiting EXCEPT !.at = "awake"]
           /\ nudge' = Idle

\* ... with the public timer computed anew.
ReturnRefreshed(app) ==
    /\ nudge_time_ms' = nudge_ms_until(next_wake(app))
    /\ Returns

\* he_conn_expresslane_rotate_if_due while Online: the core may start a
\* rotation with a key-share tick, of which the callback tells, and the public
\* timer is computed anew.
expresslane_rotate_if_due(ask) ==
    /\ nudge = Idle
    /\ host.at = "awake"
    /\ live
    /\ connection.state = "ONLINE"
    /\ MayAsk(connection.state, ask)
    /\ connection' = [connection EXCEPT !.app = Recorded(@, ask)]
    /\ timer' = Notified(connection'.app, ask)
    /\ ReturnRefreshed(connection'.app)
    /\ UNCHANGED <<state, info, connections, endings, dead>>

\* ... and in any other state, with success, or without a connection, with
\* HE_ERR_INVALID_CONN_STATE: the public timer stays as it is.
expresslane_rotate_no_op ==
    /\ nudge = Idle
    /\ host.at = "awake"
    /\ live => connection.state # "ONLINE"
    /\ UNCHANGED vars

\* The nudge thread reads he_conn_get_nudge_time, which takes no lock, resets
\* the timer to it (0: no timer) and waits.  If the callback has come since
\* the value was computed, a host may undo what it said or let it stand.
get_nudge_time ==
    /\ nudge = Idle
    /\ host.at # "waits"
    /\ \/ /\ timer' = IF nudge_time_ms = 0 THEN None
                                           ELSE UnitsPerMs * nudge_time_ms
          /\ host' = [Waiting EXCEPT !.lost = host.told]
       \/ /\ host.told
          /\ host' = Waiting
          /\ UNCHANGED timer
    /\ UNCHANGED <<state, connection, nudge_time_ms, info, nudge, connections,
                   schedules, endings, dead>>

\* The nudge thread calls he_conn_nudge, woken by its timer or otherwise.
NudgeBegins == nudge = Idle /\ host.at = "waits"

\* he_conn_nudge without a connection: HE_ERR_INVALID_CONN_STATE.
nudge_refused ==
    /\ NudgeBegins
    /\ ~live
    /\ Returns
    /\ UNCHANGED <<state, connection, nudge_time_ms, info, timer, connections,
                   schedules, endings, dead>>

\* handle_connection_tick_error with TimedOut or another fatal error: the
\* public timer is cleared before the teardown.
TickFatal(s) ==
    /\ dead' = connection.id
    /\ nudge_time_ms' = 0
    /\ fatal_disconnect(s)
    /\ Returns
    /\ UNCHANGED <<info, timer, connections>>

consumed == [connection.app EXCEPT !.next_tick = None]

\* he_conn_nudge, no ConnectionTick scheduled and due.
nudge_no_tick ==
    /\ NudgeBegins
    /\ live
    /\ connection.app.next_tick # 0
    /\ sync_conn_info(connection.state)
    /\ nudge' = [Idle EXCEPT !.phase = "payload"]
    /\ UNCHANGED <<host, state, connection, nudge_time_ms, timer,
                   connections, schedules, endings, dead>>

\* he_conn_nudge, the ConnectionTick is consumed and the core returns Ok.  In
\* a handshake it has scheduled the successor.
nudge_tick(ask) ==
    /\ NudgeBegins
    /\ live
    /\ connection.app.next_tick = 0
    /\ IF connection.state \in Handshake
       THEN ask \in ConnectionTicks /\ UNCHANGED schedules
       ELSE MayAsk(connection.state, ask)
    /\ connection' = [connection EXCEPT !.app = Recorded(consumed, ask)]
    /\ Notify(connection'.app, ask)
    /\ sync_conn_info(connection.state)
    /\ nudge' = [Idle EXCEPT !.phase = "payload"]
    /\ UNCHANGED <<state, nudge_time_ms, connections, endings, dead>>

\* A call into the core panics and the public timer stays as the last call has
\* left it.
ReturnPanicked(app) ==
    /\ connection' = [connection EXCEPT !.app = app, !.panicked = TRUE]
    /\ Returns
    /\ UNCHANGED <<state, nudge_time_ms, info, timer, connections, schedules,
                   endings, dead>>

\* he_conn_nudge, the core panics in the ConnectionTick, which is consumed.
nudge_tick_panics ==
    /\ NudgeBegins
    /\ live
    /\ connection.app.next_tick = 0
    /\ ReturnPanicked(consumed)

\* ... or in a payload tick: the due ones that are left go with the call, the
\* others have been stored back.
nudge_dispatch_panics ==
    /\ nudge.phase = "dispatch"
    /\ nudge.due # {}
    /\ ReturnPanicked(connection.app)

\* Fault: a failed tick is not armed again.
retry_never(s) == FALSE

\* retry_connection_tick_after_error: a benign failure is retried during the
\* handshake only.
retry_connection_tick_after_error(s) == s \in Handshake

\* he_conn_nudge, the ConnectionTick fails with a benign error.
nudge_tick_fails(ask) ==
    /\ NudgeBegins
    /\ live
    /\ connection.app.next_tick = 0
    /\ LET retry == IF retry_connection_tick_after_error(connection.state)
                    THEN ask ELSE NoTick
           app == Recorded(consumed, retry)
       IN  /\ connection' = [connection EXCEPT !.app = app]
           /\ Notify(app, retry)
    /\ nudge' = [Idle EXCEPT !.phase = "failed"]
    /\ UNCHANGED <<state, nudge_time_ms, info, connections, schedules, endings,
                   dead>>

\* ... then the public timer is refreshed and HE_ERR_FAILED returned, without
\* a look at the payload ticks.
nudge_failed ==
    /\ nudge.phase = "failed"
    /\ ReturnRefreshed(connection.app)
    /\ UNCHANGED <<state, connection, info, timer, connections, schedules,
                   endings, dead>>

nudge_tick_fatal(s) ==
    /\ NudgeBegins
    /\ live
    /\ connection.app.next_tick = 0
    /\ TickFatal(s)
    /\ UNCHANGED schedules

\* Fault: the whole list is stored back only after the dispatch, that is, a
\* tick that is not yet due is lost.
remaining_dropped(app) ==
    [app EXCEPT !.pending_ticks = [k \in PayloadTicks |-> None]]

\* The not-yet-due remainder is stored back before dispatching.
remaining(app) ==
    [app EXCEPT !.pending_ticks =
        [k \in PayloadTicks |-> IF @[k] = 0 THEN None ELSE @[k]]]

\* he_conn_nudge, the due payload ticks are taken out.
nudge_take ==
    /\ nudge.phase = "payload"
    /\ nudge' = [phase |-> "dispatch",
                 due |-> {k \in PayloadTicks :
                            connection.app.pending_ticks[k] = 0}]
    /\ connection' = [connection EXCEPT !.app = remaining(@)]
    /\ UNCHANGED <<host, state, nudge_time_ms, info, timer, connections,
                   schedules, endings, dead>>

\* One of them goes to the core, which returns Ok or a benign error and may
\* have scheduled a successor.
nudge_dispatch(k, ask) ==
    /\ nudge.phase = "dispatch"
    /\ k \in nudge.due
    /\ ask # NoTick => ask[1] \notin nudge.due \ {k}
    /\ MayAsk(connection.state, ask)
    /\ connection' = [connection EXCEPT !.app = Recorded(@, ask)]
    /\ Notify(connection'.app, ask)
    /\ nudge' = [nudge EXCEPT !.due = @ \ {k}]
    /\ UNCHANGED <<state, nudge_time_ms, info, connections, endings, dead>>

\* ... or a fatal error, which ends the loop and the connection.
nudge_dispatch_fatal(s) ==
    /\ nudge.phase = "dispatch"
    /\ nudge.due # {}
    /\ TickFatal(s)
    /\ UNCHANGED schedules

\* The public timer is refreshed from whatever deadlines remain.
nudge_return ==
    /\ nudge.phase = "dispatch"
    /\ nudge.due = {}
    /\ ReturnRefreshed(connection.app)
    /\ UNCHANGED <<state, connection, info, timer, connections, schedules,
                   endings, dead>>

-----------------------------------------------------------------------------
\* Time passes, also inside he_conn_nudge and while the nudge thread is on its
\* way to the re-read, which it reaches within MaxLag.
Elapse ==
    /\ timer > 0 \/ \E d \in deadlines(connection.app) : d > 0
    /\ IF host.at = "waits"
       THEN UNCHANGED host
       ELSE host.lag < MaxLag /\ host' = [host EXCEPT !.lag = @ + 1]
    /\ timer' = sooner(timer)
    /\ connection' = [connection EXCEPT !.app = elapsed(@)]
    /\ UNCHANGED <<state, nudge_time_ms, info, nudge, connections, schedules,
                   endings, dead>>

\* What the core has reported by the time it fails.
Ended == {state, "DISCONNECTED"}

Nudge == \/ nudge_refused
         \/ nudge_no_tick
         \/ \E ask \in AnyTick \cup {NoTick} : nudge_tick(ask)
         \/ \E ask \in ConnectionTicks : nudge_tick_fails(ask)
         \/ \E s \in Ended : nudge_tick_fatal(s)
         \/ nudge_tick_panics

NudgeContinue == \/ nudge_failed
                 \/ nudge_take
                 \/ \E k \in PayloadTicks, ask \in AnyTick \cup {NoTick} :
                        nudge_dispatch(k, ask)
                 \/ \E s \in Ended : nudge_dispatch_fatal(s)
                 \/ nudge_dispatch_panics
                 \/ nudge_return

Next == \/ \E ask \in ConnectionTicks :
              client_connect(ask) \/ client_connect_fails(ask)
        \/ client_disconnect
        \/ \E s \in Handshake \cup {"ONLINE", "DISCONNECTED"},
              ask \in AnyTick \cup {NoTick} : outside_data_received(s, ask)
        \/ \E s \in Handshake \cup {"ONLINE", "DISCONNECTED"} : data_path_panics(s)
        \/ \E s \in Ended : outside_data_fatal(s)
        \/ \E ask \in AnyTick \cup {NoTick} :
              inside_packet_received(ask) \/ expresslane_rotate_if_due(ask)
        \/ expresslane_rotate_no_op \/ get_nudge_time
        \/ Nudge \/ NudgeContinue
        \/ Elapse

\* Time goes on; the nudge thread nudges once its timer has expired; a nudge
\* that has begun goes on to its end, and the thread on to the re-read.
Fairness == /\ WF_vars(Elapse)
            /\ WF_vars(timer = 0 /\ Nudge)
            /\ WF_vars(NudgeContinue)
            /\ WF_vars(get_nudge_time)

Spec == Init /\ [][Next]_vars /\ Fairness

-----------------------------------------------------------------------------
\* fatal_disconnect delivers "a single HE_STATE_DISCONNECTED transition": the
\* host hears of the end of every connection, and only once, whichever of the
\* core, the wire path, a tick and he_client_disconnect comes first.
DisconnectedOnce ==
    /\ endings = (IF state = "DISCONNECTED" THEN 1 ELSE 0)
    /\ ~live => state \in {"NONE", "DISCONNECTED"}

\* The state C sees is the state of the core's connection while there is one.
CachedStateExact == live => state = connection.state

\* he_conn_get_cipher_name: the value "is captured once ... and is then stable
\* for the connection's lifetime, so the returned pointer remains valid"; it is
\* never the value of an earlier connection; and it is there by the time the
\* callback reports ONLINE, although it is captured after the core's callbacks
\* have run, unless a panic unwound past the capture.
InfoStable ==
    /\ [][info # NoInfo /\ connections' = connections => info' = info]_vars
    /\ [](live /\ info # NoInfo => info.of = connection.id)
    /\ [][state' = "ONLINE" => info # NoInfo \/ connection'.panicked]_vars

\* A connection on which the wire or a tick met a fatal error is not left
\* installed: once the call has returned the client can connect again.
NoDeadConnection == nudge = Idle /\ live => connection.id # dead

\* While ticks are pending and the nudge thread waits, the host's one timer is
\* armed, and expires less than a millisecond after the earliest deadline plus
\* the time the thread may take to re-read a nudge_time_ms that a rotate_if_due
\* outside Online does not refresh; whatever is scheduled, dispatched or
\* retried, by whichever thread.  There are two exceptions: a panic unwinds
\* past the refresh, and a host that lets the re-read undo a later callback
\* may have lost the wake-up the callback asked for.
WakesOnTime ==
    LET due == earliest_tick_deadline(connection.app)
    IN  /\ nudge = Idle /\ host.at = "waits" /\ ~host.lost
        /\ live /\ ~connection.panicked /\ due # None
        => timer \in 0 .. due + UnitsPerMs + MaxLag - 1

\* retry_connection_tick_after_error: a handshake never loses its only tick,
\* without which it could neither retry nor reach its timeout, unless the tick
\* panics: it is consumed before the core runs it.
HandshakeTimed ==
    live /\ connection.state \in Handshake /\ ~connection.panicked
        => connection.app.next_tick # None

\* A payload tick leaves the list only when it is due, or with its connection:
\* the ticks a nudge stores back and the ones scheduled while it dispatches
\* are all kept.
TicksKept ==
    [][\A k \in PayloadTicks :
          connection.app.pending_ticks[k] > 0 =>
              \/ connection'.app.pending_ticks[k] # None
              \/ connection'.id # connection.id]_vars

Outstanding(k) == \/ connection.app.pending_ticks[k] # None
                  \/ k \in nudge.due

\* A payload tick is dispatched or its connection ends: the retransmits of the
\* key share are never forgotten between two nudges, also if they are asked
\* for while the nudge thread is on its way from a nudge to the re-read.  The
\* exceptions are those of WakesOnTime: the ticks that were due with one that
\* panicked are lost, and a host that undid a callback may sleep on.
TicksServed ==
    \A k \in PayloadTicks :
        Outstanding(k) ~> \/ ~Outstanding(k)
                          \/ connection.panicked
                          \/ host.lost

\* The comment on cffi_schedule_tick_cb: "We record the deadline;
\* he_conn_get_nudge_time exposes it to C".
NudgeTimeExposesDeadline ==
    nudge = Idle /\ live /\ deadlines(connection.app) # {}
        => nudge_time_ms # 0
=============================================================================
