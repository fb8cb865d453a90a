----------------------------- MODULE ClientProofs -----------------------------
(***************************************************************************)
(* A client, for any threads, payload ticks, delays and number of          *)
(* connections: the lock that serialises its calls, and its life, in which *)
(* every step is one of four kinds: the connection goes on, ends, begins,  *)
(* or nothing the properties speak of changes.                             *)
(*                                                                         *)
(* Then what the shim puts around the core besides: the wiring of a client *)
(* is right for any callbacks and contexts, and for any number of setter   *)
(* calls and connections; the two checks of its configuration agree; and   *)
(* the framing of an offload is right for any number of datagrams in       *)
(* flight, of receiving threads and of rotations of the session id.        *)
(***************************************************************************)
EXTENDS Client, ClientLock, ClientWiring, ClientConfig, Offload,
        WellFoundedInduction, TLAPS

-----------------------------------------------------------------------------
(* The lock every call takes: LockInv of ClientLock is inductive, and      *)
(* gives the exclusive reference and the exact refusal of re-entrant calls.*)

\* A new client is unlocked and nobody waits.
LEMMA LockInitInv == LockInit => LockInv
BY TokenAssumption, Zenon DEF LockInit, LockInv, LockTypeOK, Pc, RefusedIffReentrant, HasReference

\* The owner token is set exactly while its thread has the reference, so the
\* owner check of a call refuses it if and only if it comes from a callback;
\* every other step moves one thread along while it holds the mutex.
LEMMA LockStepInv == LockInv /\ [LockNext]_lock_vars => LockInv'
<1> SUFFICES ASSUME LockInv, [LockNext]_lock_vars PROVE LockInv'
  OBVIOUS
<1> USE TokenAssumption DEF LockInv, LockTypeOK, Pc, RefusedIffReentrant, HasReference
<1>1. ASSUME NEW t \in Threads, lock_client(t) PROVE LockInv'
  <2>1. CASE pc[t] = "idle"
    BY <1>1, <2>1 DEF lock_client
  <2>2. CASE pc[t] = "callback"
    BY <1>1, <2>2 DEF lock_client
  <2> QED BY <1>1, <2>1, <2>2 DEF lock_client
<1>2. ASSUME NEW t \in Threads, acquire(t) PROVE LockInv'
  BY <1>2 DEF acquire
<1>3. ASSUME NEW t \in Threads, set_owner(t) PROVE LockInv'
  BY <1>3 DEF set_owner
<1>4. ASSUME NEW t \in Threads, fire_callback(t) PROVE LockInv'
  BY <1>4 DEF fire_callback
<1>5. ASSUME NEW t \in Threads, callback_return(t) PROVE LockInv'
  BY <1>5 DEF callback_return
<1>6. ASSUME NEW t \in Threads, NEW p \in BOOLEAN, reset_owner(t, p) PROVE LockInv'
  BY <1>6 DEF reset_owner
<1>7. ASSUME NEW t \in Threads, release(t) PROVE LockInv'
  BY <1>7 DEF release
<1>8. CASE UNCHANGED lock_vars
  BY <1>8 DEF lock_vars
<1> QED
  BY <1>1, <1>2, <1>3, <1>4, <1>5, <1>6, <1>7, <1>8 DEF LockNext, Library

\* The inductive invariant of lock_client holds for any set of threads.
THEOREM LockInvHolds == LockSpec => []LockInv
BY LockInitInv, LockStepInv, PTL DEF LockSpec

\* lock_client hands out one live &mut he_client_t at a time, whatever the
\* threads, their callbacks and the panics of the bodies.
THEOREM ExclusiveReferenceHolds == LockSpec => []ExclusiveReference
<1>1. LockInv => ExclusiveReference
  BY DEF LockInv, ExclusiveReference, HasReference
<1> QED BY <1>1, LockInvHolds, PTL

\* lock_client refuses re-entrant calls, which would wait for their own
\* thread, and no others.
THEOREM RefusedIffReentrantHolds == LockSpec => []RefusedIffReentrant
<1>1. LockInv => RefusedIffReentrant
  BY DEF LockInv
<1> QED BY <1>1, LockInvHolds, PTL

-----------------------------------------------------------------------------
(* The life of a client.                                                   *)

App == [next_tick : Nat \cup {None}, pending_ticks : [PayloadTicks -> Nat \cup {None}]]
States == Handshake \cup {"NONE", "ONLINE", "DISCONNECTED"}
Linked == {"LINK_UP", "AUTHENTICATING", "ONLINE"}
Connection == [id : Nat, state : States, app : App, panicked : BOOLEAN]

ClientTypeOK ==
    /\ state \in States
    /\ connection \in Connection
    /\ connections \in Nat /\ dead \in 0 .. connections /\ endings \in Nat
    /\ live => connections > 0 /\ connection.id = connections
    /\ nudge.phase # "idle" => live

\* The crypto info is that of the connection, and there once the handshake is
\* through, unless a panic unwound past its capture.
InfoCaptured ==
    live => /\ info # NoInfo => info.of = connection.id
            /\ connection.state \in Linked => info # NoInfo \/ connection.panicked

ClientInv == /\ ClientTypeOK /\ DisconnectedOnce /\ CachedStateExact
             /\ HandshakeTimed /\ InfoCaptured
             /\ live => connection.id # dead

-----------------------------------------------------------------------------
\* The connection goes on in state s, with ticks app.
Goes(s, app, panicked) ==
    /\ live
    /\ s \in Advances(connection.state) \cup {"DISCONNECTED"}
    /\ app \in App /\ panicked \in BOOLEAN
    /\ connection.panicked => panicked
    /\ connection' = [id |-> connection.id, state |-> s, app |-> app,
                      panicked |-> panicked]
    /\ state' = s /\ endings' = EndingsAfter(s)
    /\ s \in Handshake /\ ~panicked => app.next_tick # None
    /\ \A k \in PayloadTicks : connection.app.pending_ticks[k] > 0
                                   => app.pending_ticks[k] # None
    /\ \/ info' = info
       \/ info = NoInfo /\ info' = [of |-> connection.id, copy |-> 1]
    /\ s \in Linked => info' # NoInfo \/ panicked
    /\ UNCHANGED <<connections, dead>>

GoesOn == \E s \in States, app \in App, panicked \in BOOLEAN :
              Goes(s, app, panicked)

Ends == /\ connection' = NoConnection
        /\ state' = "DISCONNECTED" /\ endings' = 1
        /\ dead' \in {dead, connection.id}
        /\ nudge'.phase = "idle"
        /\ UNCHANGED <<info, connections>>

Begins == /\ ~live
          /\ \E app \in App :
                /\ app.next_tick # None
                /\ connection' = [id |-> connections + 1, state |-> "CONNECTING",
                                  app |-> app, panicked |-> FALSE]
          /\ connections' = connections + 1
          /\ state' = "CONNECTING" /\ endings' = 0 /\ info' = NoInfo
          /\ UNCHANGED <<nudge, dead>>

Still == UNCHANGED <<state, connection, info, nudge, connections, endings, dead>>

-----------------------------------------------------------------------------
LEMMA AppStateType == app_state \in App
BY DEF app_state, App

\* Recording a tick keeps the ticks there are.
LEMMA RecordedApp ==
    ASSUME NEW app \in App, NEW ask \in AnyTick \cup {NoTick}
    PROVE  /\ Recorded(app, ask) \in App
           /\ app.next_tick # None => Recorded(app, ask).next_tick # None
           /\ ask \in ConnectionTicks => Recorded(app, ask).next_tick # None
           /\ \A k \in PayloadTicks :
                 app.pending_ticks[k] # None => Recorded(app, ask).pending_ticks[k] # None
<1>1. CASE ask = NoTick
  <2>1. ask \notin ConnectionTicks
    BY <1>1 DEF NoTick, ConnectionTicks
  <2> QED BY <1>1, <2>1 DEF Recorded
<1>2. CASE ask \in ConnectionTicks
  <2>0. ask = <<ask[1], ask[2]>> /\ ask[1] = "ConnectionTick" /\ ask[2] \in Delays
    BY <1>2 DEF ConnectionTicks
  <2>1. PICK d \in Nat : ask = <<"ConnectionTick", d>>
    BY <2>0, DelaysAssumption
  <2>2. Recorded(app, ask) = [app EXCEPT !.next_tick =
                                 IF @ = None THEN d ELSE Min({@, d})]
    BY <2>1 DEF Recorded, record_tick, NoTick
  <2>3. \A a, b \in Nat : Min({a, b}) \in Nat
    BY DEF Min
  <2> QED BY <1>2, <2>2, <2>3 DEF App, None
<1>3. CASE ask \in PayloadTicks \X Delays
  <2>0. ask = <<ask[1], ask[2]>> /\ ask[1] \in PayloadTicks /\ ask[2] \in Delays
    BY <1>3
  <2>1. PICK k \in PayloadTicks, d \in Nat : ask = <<k, d>>
    BY <2>0, DelaysAssumption
  <2>2. k # "ConnectionTick"
    BY TicksAssumption
  <2>3. Recorded(app, ask) = [app EXCEPT !.pending_ticks[k] = d]
    BY <2>1, <2>2 DEF Recorded, record_tick, NoTick
  <2>4. ask \notin ConnectionTicks
    BY <2>1, <2>2 DEF ConnectionTicks
  <2> QED BY <2>3, <2>4 DEF App, None
<1> QED BY <1>1, <1>2, <1>3 DEF AnyTick

\* So does taking out the due ones, and the passing of time.
LEMMA RemainingApp ==
    ASSUME NEW app \in App
    PROVE  /\ remaining(app) \in App
           /\ remaining(app).next_tick = app.next_tick
           /\ \A k \in PayloadTicks :
                 app.pending_ticks[k] > 0 => remaining(app).pending_ticks[k] # None
BY DEF remaining, App, None

LEMMA ElapsedApp ==
    ASSUME NEW app \in App
    PROVE  /\ elapsed(app) \in App
           /\ app.next_tick # None => elapsed(app).next_tick # None
           /\ \A k \in PayloadTicks :
                 app.pending_ticks[k] > 0 => elapsed(app).pending_ticks[k] # None
BY DEF elapsed, sooner, App, None

\* Without a connection no tick is pending, and time changes nothing.
LEMMA ElapsedNone == [NoConnection EXCEPT !.app = elapsed(@)] = NoConnection
<1>1. elapsed(app_state) = app_state
  BY DEF elapsed, sooner, app_state, None
<1>2. NoConnection.app = app_state
  BY DEF NoConnection
<1>3. ASSUME NEW c \in Connection PROVE [c EXCEPT !.app = c.app] = c
  BY DEF Connection
<1>4. NoConnection \in Connection
  BY AppStateType DEF NoConnection, Connection, States
<1> QED BY <1>1, <1>2, <1>3, <1>4

LEMMA AdvancesType == \A s \in States : Advances(s) \subseteq States /\ s \in Advances(s)
BY DEF Advances, States, Handshake

-----------------------------------------------------------------------------
(* Every step is of one of the four kinds.                                 *)

\* A call into the core that lets the connection be.
LEMMA EditGoes ==
    ASSUME ClientInv, live, NEW s \in Advances(connection.state) \cup {"DISCONNECTED"},
           NEW app \in App, NEW panicked \in BOOLEAN,
           connection.panicked => panicked,
           connection' = [id |-> connection.id, state |-> s, app |-> app,
                          panicked |-> panicked],
           state' = s, endings' = EndingsAfter(s),
           s \in Handshake /\ ~panicked =>
               (connection.app.next_tick # None => app.next_tick # None),
           \A k \in PayloadTicks : connection.app.pending_ticks[k] > 0
                                       => app.pending_ticks[k] # None,
           \/ info' = info /\ (panicked \/ s = connection.state)
           \/ sync_conn_info(s),
           UNCHANGED <<connections, dead>>
    PROVE  GoesOn
<1>1. s \in States
  BY AdvancesType DEF ClientInv, ClientTypeOK, Connection, States
<1>2. s \in Handshake /\ ~panicked => app.next_tick # None
  <2>1. s \in Handshake => connection.state \in Handshake
    BY DEF Advances, Handshake
  <2> QED BY <2>1 DEF ClientInv, HandshakeTimed
<1>3. /\ \/ info' = info
         \/ info = NoInfo /\ info' = [of |-> connection.id, copy |-> 1]
      /\ s \in Linked => info' # NoInfo \/ panicked
  <2>1. CASE info' = info /\ panicked
    BY <2>1
  <2>2. CASE info' = info /\ s = connection.state
    BY <2>2 DEF ClientInv, InfoCaptured
  <2>3. CASE sync_conn_info(s)
    BY <2>3 DEF sync_conn_info, Linked, NoInfo
  <2> QED BY <2>1, <2>2, <2>3
<1>4. Goes(s, app, panicked)
  BY <1>2, <1>3, Zenon DEF Goes
<1> QED BY <1>1, <1>4 DEF GoesOn

\* A call that leaves the cached state to be what it was.
LEMMA QuietGoes ==
    ASSUME ClientInv, live, NEW app \in App, NEW panicked \in BOOLEAN,
           connection.panicked => panicked,
           connection' = [connection EXCEPT !.app = app, !.panicked = panicked],
           connection.state \in Handshake /\ ~panicked =>
               (connection.app.next_tick # None => app.next_tick # None),
           \A k \in PayloadTicks : connection.app.pending_ticks[k] > 0
                                       => app.pending_ticks[k] # None,
           info' = info \/ sync_conn_info(connection.state),
           UNCHANGED <<state, endings, connections, dead>>
    PROVE  GoesOn
<1>1. connection.state \in Advances(connection.state)
  BY AdvancesType DEF ClientInv, ClientTypeOK, Connection
<1>2. connection' = [id |-> connection.id, state |-> connection.state,
                     app |-> app, panicked |-> panicked]
  BY Zenon DEF ClientInv, ClientTypeOK, Connection
<1>3. state' = connection.state /\ endings' = EndingsAfter(connection.state)
  BY DEF ClientInv, CachedStateExact, EndingsAfter
<1> QED BY <1>1, <1>2, <1>3, EditGoes, Zenon

\* he_client_connect, client_disconnect and a fatal error.
LEMMA ConnectBegins ==
    ASSUME ClientInv, NEW ask \in ConnectionTicks, client_connect(ask)
    PROVE  Begins
<1>1. /\ Recorded(app_state, ask) \in App
      /\ Recorded(app_state, ask).next_tick # None
  BY AppStateType, RecordedApp DEF AnyTick
<1> QED BY <1>1, Zenon DEF client_connect, Begins, state_on_connect

LEMMA DisconnectEnds ==
    ASSUME ClientInv, client_disconnect
    PROVE  Ends
<1>1. state' = "DISCONNECTED" /\ endings' = 1
  BY DEF client_disconnect, EndingsAfter, ClientInv, ClientTypeOK, States,
         Handshake, DisconnectedOnce, CachedStateExact
<1> QED BY <1>1 DEF client_disconnect, Ends, Idle

LEMMA FatalEnds ==
    ASSUME ClientInv, NEW s \in Ended, fatal_disconnect(s)
    PROVE  connection' = NoConnection /\ state' = "DISCONNECTED" /\ endings' = 1
BY DEF fatal_disconnect, EndingsAfter, Ended, ClientInv, DisconnectedOnce

LEMMA OutsideFatalEnds ==
    ASSUME ClientInv, NEW s \in Ended, outside_data_fatal(s)
    PROVE  Ends
BY FatalEnds DEF outside_data_fatal, Ends, Idle

LEMMA TickFatalEnds ==
    ASSUME ClientInv, NEW s \in Ended, TickFatal(s)
    PROVE  Ends
BY FatalEnds DEF TickFatal, Returns, Ends, Idle

\* The data path.
LEMMA DataGoes ==
    ASSUME ClientInv, live, NEW s \in Advances(connection.state) \cup {"DISCONNECTED"},
           NEW ask \in AnyTick \cup {NoTick},
           Continues(s, Recorded(connection.app, ask)), sync_conn_info(s),
           UNCHANGED <<connections, dead>>
    PROVE  GoesOn
<1> DEFINE app == Recorded(connection.app, ask)
<1>1. connection.app \in App /\ connection.panicked \in BOOLEAN
  BY DEF ClientInv, ClientTypeOK, Connection
<1>2. /\ app \in App
      /\ connection.app.next_tick # None => app.next_tick # None
      /\ \A k \in PayloadTicks :
            connection.app.pending_ticks[k] # None => app.pending_ticks[k] # None
  BY <1>1, RecordedApp
<1>3. \A k \in PayloadTicks : connection.app.pending_ticks[k] > 0
                                  => app.pending_ticks[k] # None
  BY <1>2 DEF None
<1>4. connection' = [id |-> connection.id, state |-> s, app |-> app,
                     panicked |-> connection.panicked]
  BY Zenon DEF Continues, ClientInv, ClientTypeOK, Connection
<1> HIDE DEF app
<1> QED BY <1>1, <1>2, <1>3, <1>4, EditGoes, Zenon DEF Continues

LEMMA OutsideDataGoes ==
    ASSUME ClientInv, NEW s, NEW ask \in AnyTick \cup {NoTick},
           outside_data_received(s, ask)
    PROVE  GoesOn
BY DataGoes DEF outside_data_received

LEMMA InsidePacketGoes ==
    ASSUME ClientInv, NEW ask \in AnyTick \cup {NoTick},
           inside_packet_received(ask)
    PROVE  GoesOn
<1>1. connection.state \in Advances(connection.state)
  BY AdvancesType DEF ClientInv, ClientTypeOK, Connection
<1> QED BY <1>1, DataGoes DEF inside_packet_received

LEMMA DataPanicGoes ==
    ASSUME ClientInv, NEW s, data_path_panics(s)
    PROVE  GoesOn
<1>1. connection' = [id |-> connection.id, state |-> s, app |-> connection.app,
                     panicked |-> TRUE]
  BY Zenon DEF data_path_panics, ClientInv, ClientTypeOK, Connection
<1>2. /\ connection.app \in App
      /\ \A k \in PayloadTicks : connection.app.pending_ticks[k] > 0
                                  => connection.app.pending_ticks[k] # None
  BY DEF ClientInv, ClientTypeOK, Connection, None
<1> QED BY <1>1, <1>2, EditGoes, Zenon DEF data_path_panics
\* he_conn_nudge and rotate_if_due.
LEMMA ConsumedApp ==
    ASSUME ClientInv, live, connection.app.next_tick = 0
    PROVE  /\ connection.app \in App /\ connection.panicked \in BOOLEAN
           /\ consumed \in App
           /\ consumed.pending_ticks = connection.app.pending_ticks
BY DEF ClientInv, ClientTypeOK, Connection, consumed, App

\* The app state the core is left with after it has recorded a tick in a part
\* of what was there.
LEMMA RecordGoes ==
    ASSUME ClientInv, live, NEW before \in App, NEW ask \in AnyTick \cup {NoTick},
           \A k \in PayloadTicks : connection.app.pending_ticks[k] > 0
                                       => before.pending_ticks[k] # None,
           connection.state \in Handshake /\ connection.app.next_tick # None
               => before.next_tick # None \/ ask \in ConnectionTicks,
           connection' = [connection EXCEPT !.app = Recorded(before, ask)],
           info' = info \/ sync_conn_info(connection.state),
           UNCHANGED <<state, endings, connections, dead>>
    PROVE  GoesOn
<1> DEFINE app == Recorded(before, ask)
<1>1. /\ app \in App
      /\ before.next_tick # None \/ ask \in ConnectionTicks => app.next_tick # None
      /\ \A k \in PayloadTicks :
            before.pending_ticks[k] # None => app.pending_ticks[k] # None
  BY RecordedApp
<1>2. connection.panicked \in BOOLEAN
  BY DEF ClientInv, ClientTypeOK, Connection
<1>3. connection' = [connection EXCEPT !.app = app, !.panicked = connection.panicked]
  BY Zenon DEF ClientInv, ClientTypeOK, Connection
<1> HIDE DEF app
<1> QED BY <1>1, <1>2, <1>3, QuietGoes, Zenon

LEMMA SameConnection ==
    ASSUME ClientInv
    PROVE  /\ connection.app \in App /\ connection.panicked \in BOOLEAN
           /\ \A k \in PayloadTicks : connection.app.pending_ticks[k] > 0
                                       => connection.app.pending_ticks[k] # None
           /\ connection = [connection EXCEPT !.app = connection.app,
                                              !.panicked = connection.panicked]
<1>1. ASSUME NEW c \in Connection
      PROVE  c = [c EXCEPT !.app = c.app, !.panicked = c.panicked]
  <2>1. [c EXCEPT !.app = c.app] = c
    BY DEF Connection
  <2>2. [c EXCEPT !.panicked = c.panicked] = c
    BY DEF Connection
  <2> QED BY <2>1, <2>2, Zenon
<1>2. connection \in Connection
  BY DEF ClientInv, ClientTypeOK
<1>3. /\ connection.app \in App /\ connection.panicked \in BOOLEAN
      /\ \A k \in PayloadTicks : connection.app.pending_ticks[k] > 0
                                  => connection.app.pending_ticks[k] # None
  BY <1>2 DEF Connection, None
<1> QED BY <1>1, <1>2, <1>3, Zenon

LEMMA RotateGoes ==
    ASSUME ClientInv, NEW ask \in AnyTick \cup {NoTick}, expresslane_rotate_if_due(ask)
    PROVE  GoesOn
<1>1. connection.app \in App /\ \A k \in PayloadTicks :
          connection.app.pending_ticks[k] > 0 => connection.app.pending_ticks[k] # None
  BY DEF ClientInv, ClientTypeOK, Connection, None
<1>2. /\ live /\ connection.state \notin Handshake
      /\ connection' = [connection EXCEPT !.app = Recorded(connection.app, ask)]
      /\ UNCHANGED <<state, info, endings, connections, dead>>
  BY DEF expresslane_rotate_if_due, Handshake
<1> QED BY <1>1, <1>2, RecordGoes

LEMMA NoTickGoes == ASSUME ClientInv, nudge_no_tick PROVE GoesOn
BY SameConnection, QuietGoes, Zenon DEF nudge_no_tick

LEMMA TickGoes ==
    ASSUME ClientInv, NEW ask \in AnyTick \cup {NoTick}, nudge_tick(ask)
    PROVE  GoesOn
<1>1. /\ consumed \in App
      /\ \A k \in PayloadTicks : connection.app.pending_ticks[k] > 0
                                  => consumed.pending_ticks[k] # None
  BY ConsumedApp DEF nudge_tick, None
<1>2. connection.state \in Handshake => ask \in ConnectionTicks
  BY DEF nudge_tick
<1> QED BY <1>1, <1>2, RecordGoes DEF nudge_tick

LEMMA TickFailsGoes ==
    ASSUME ClientInv, NEW ask \in ConnectionTicks, nudge_tick_fails(ask)
    PROVE  GoesOn
<1>1. /\ consumed \in App
      /\ \A k \in PayloadTicks : connection.app.pending_ticks[k] > 0
                                  => consumed.pending_ticks[k] # None
  BY ConsumedApp DEF nudge_tick_fails, None
<1> DEFINE retry == IF retry_connection_tick_after_error(connection.state)
                    THEN ask ELSE NoTick
<1>2. /\ retry \in AnyTick \cup {NoTick}
      /\ connection.state \in Handshake => retry \in ConnectionTicks
  BY DEF retry_connection_tick_after_error, AnyTick
<1>3. /\ live /\ connection' = [connection EXCEPT !.app = Recorded(consumed, retry)]
      /\ UNCHANGED <<state, info, endings, connections, dead>>
  BY DEF nudge_tick_fails
<1> HIDE DEF retry
<1> QED BY <1>1, <1>2, <1>3, RecordGoes

LEMMA PanicGoes ==
    ASSUME ClientInv, nudge_tick_panics \/ nudge_dispatch_panics
    PROVE  GoesOn
<1>1. CASE nudge_tick_panics
  <2>1. /\ consumed \in App
        /\ \A k \in PayloadTicks : connection.app.pending_ticks[k] > 0
                                    => consumed.pending_ticks[k] # None
    BY <1>1, ConsumedApp DEF nudge_tick_panics, None
  <2> QED BY <1>1, <2>1, QuietGoes, Zenon DEF nudge_tick_panics, ReturnPanicked
<1>2. CASE nudge_dispatch_panics
  <2>1. live
    BY <1>2 DEF nudge_dispatch_panics, ClientInv, ClientTypeOK
  <2>2. /\ connection.app \in App
        /\ \A k \in PayloadTicks : connection.app.pending_ticks[k] > 0
                                    => connection.app.pending_ticks[k] # None
    BY DEF ClientInv, ClientTypeOK, Connection, None
  <2> QED BY <1>2, <2>1, <2>2, QuietGoes, Zenon DEF nudge_dispatch_panics, ReturnPanicked
<1> QED BY <1>1, <1>2

LEMMA ReturnGoes ==
    ASSUME ClientInv, nudge_failed \/ nudge_return
    PROVE  GoesOn
<1>1. live
  BY DEF nudge_failed, nudge_return, ClientInv, ClientTypeOK
<1> QED BY <1>1, SameConnection, QuietGoes, Zenon DEF nudge_failed, nudge_return

LEMMA TakeGoes == ASSUME ClientInv, nudge_take PROVE GoesOn
<1> DEFINE app == remaining(connection.app)
<1>1. live
  BY DEF nudge_take, ClientInv, ClientTypeOK
<1>2. /\ app \in App /\ app.next_tick = connection.app.next_tick
      /\ \A k \in PayloadTicks : connection.app.pending_ticks[k] > 0
                                  => app.pending_ticks[k] # None
  BY RemainingApp DEF ClientInv, ClientTypeOK, Connection
<1>3. connection.panicked \in BOOLEAN
  BY DEF ClientInv, ClientTypeOK, Connection
<1>4. connection' = [connection EXCEPT !.app = app, !.panicked = connection.panicked]
  BY Zenon DEF nudge_take, ClientInv, ClientTypeOK, Connection
<1> HIDE DEF app
<1> QED BY <1>1, <1>2, <1>3, <1>4, QuietGoes, Zenon DEF nudge_take

LEMMA DispatchGoes ==
    ASSUME ClientInv, NEW k, NEW ask \in AnyTick \cup {NoTick}, nudge_dispatch(k, ask)
    PROVE  GoesOn
<1>1. live
  BY DEF nudge_dispatch, ClientInv, ClientTypeOK
<1>2. connection.app \in App /\ \A i \in PayloadTicks :
          connection.app.pending_ticks[i] > 0 => connection.app.pending_ticks[i] # None
  BY DEF ClientInv, ClientTypeOK, Connection, None
<1>3. /\ connection' = [connection EXCEPT !.app = Recorded(connection.app, ask)]
      /\ UNCHANGED <<state, info, endings, connections, dead>>
  BY DEF nudge_dispatch
<1> QED BY <1>1, <1>2, <1>3, RecordGoes

LEMMA ElapseGoes == ASSUME ClientInv, Elapse PROVE GoesOn \/ Still
<1>1. CASE live
  <2> DEFINE app == elapsed(connection.app)
  <2>1. /\ app \in App
        /\ connection.app.next_tick # None => app.next_tick # None
        /\ \A k \in PayloadTicks : connection.app.pending_ticks[k] > 0
                                    => app.pending_ticks[k] # None
    BY ElapsedApp DEF ClientInv, ClientTypeOK, Connection
  <2>2. connection.panicked \in BOOLEAN
    BY DEF ClientInv, ClientTypeOK, Connection
  <2>3. connection' = [connection EXCEPT !.app = app, !.panicked = connection.panicked]
    BY Zenon DEF Elapse, ClientInv, ClientTypeOK, Connection
  <2> HIDE DEF app
  <2> QED BY <1>1, <2>1, <2>2, <2>3, QuietGoes, Zenon DEF Elapse
<1>2. CASE ~live
  BY <1>2, ElapsedNone DEF live, Elapse, Still
<1> QED BY <1>1, <1>2
LEMMA StepKinds ==
    ASSUME ClientInv, [Next]_vars
    PROVE  GoesOn \/ Ends \/ Begins \/ Still
<1>1. CASE \E ask \in ConnectionTicks : client_connect(ask) \/ client_connect_fails(ask)
  BY <1>1, ConnectBegins DEF client_connect_fails, Still
<1>2. CASE client_disconnect
  BY <1>2, DisconnectEnds
<1>3. CASE \E s \in Handshake \cup {"ONLINE", "DISCONNECTED"},
              ask \in AnyTick \cup {NoTick} : outside_data_received(s, ask)
  BY <1>3, OutsideDataGoes
<1>4. CASE \E s \in Handshake \cup {"ONLINE", "DISCONNECTED"} : data_path_panics(s)
  BY <1>4, DataPanicGoes
<1>5. CASE \E s \in Ended : outside_data_fatal(s)
  BY <1>5, OutsideFatalEnds
<1>6. CASE \E ask \in AnyTick \cup {NoTick} :
              inside_packet_received(ask) \/ expresslane_rotate_if_due(ask)
  BY <1>6, InsidePacketGoes, RotateGoes
<1>7. CASE Nudge
  BY <1>7, NoTickGoes, TickGoes, TickFailsGoes, TickFatalEnds, PanicGoes
  DEF Nudge, NudgeBegins, nudge_refused, nudge_tick_fatal, Returns, Still
<1>8. CASE NudgeContinue
  BY <1>8, ReturnGoes, TakeGoes, DispatchGoes, TickFatalEnds, PanicGoes
  DEF NudgeContinue, nudge_dispatch_fatal
<1>9. CASE Elapse
  BY <1>9, ElapseGoes
<1>10. CASE expresslane_rotate_no_op \/ get_nudge_time \/ UNCHANGED vars
  BY <1>10 DEF expresslane_rotate_no_op, get_nudge_time, vars, Still
<1> QED BY <1>1, <1>2, <1>3, <1>4, <1>5, <1>6, <1>7, <1>8, <1>9, <1>10 DEF Next

-----------------------------------------------------------------------------
LEMMA InitClient == Init => ClientInv
BY AppStateType
DEF Init, ClientInv, ClientTypeOK, DisconnectedOnce, CachedStateExact,
    HandshakeTimed, InfoCaptured, live, NoConnection, Connection, States, Idle

LEMMA GoesInv ==
    ASSUME ClientInv, NEW s \in States, NEW app \in App, NEW panicked \in BOOLEAN,
           Goes(s, app, panicked)
    PROVE  ClientInv'
<1>1. connection.id # 0 /\ connection.id = connections /\ connection.id # dead
  BY DEF Goes, ClientInv, ClientTypeOK
<1>2. /\ connection' = [id |-> connection.id, state |-> s, app |-> app,
                        panicked |-> panicked]
      /\ connection'.id = connection.id /\ connection'.state = s
      /\ connection'.app = app /\ connection'.panicked = panicked
      /\ connection' \in Connection
  BY DEF Goes, ClientInv, ClientTypeOK, Connection
<1>3. live'
  BY <1>1, <1>2 DEF live, NoConnection
<1>4. ClientTypeOK'
  BY <1>1, <1>2, <1>3 DEF Goes, ClientInv, ClientTypeOK, EndingsAfter
<1>5. DisconnectedOnce' /\ CachedStateExact'
  BY <1>2, <1>3, SMTT(30) DEF Goes, ClientInv, ClientTypeOK, Connection, DisconnectedOnce,
                    CachedStateExact, EndingsAfter, Advances, States
<1>6. HandshakeTimed'
  BY <1>2 DEF Goes, HandshakeTimed
<1>7. InfoCaptured'
  BY <1>2 DEF Goes, ClientInv, InfoCaptured, NoInfo
<1> QED BY <1>1, <1>2, <1>4, <1>5, <1>6, <1>7 DEF ClientInv, Goes

LEMMA EndsInv == ASSUME ClientInv, Ends PROVE ClientInv'
<1>1. ~live'
  BY DEF Ends, live
<1>2. NoConnection \in Connection
  BY AppStateType DEF NoConnection, Connection, States
<1>3. connection.id \in 0 .. connections
  BY DEF ClientInv, ClientTypeOK, live, NoConnection
<1> QED BY <1>1, <1>2, <1>3 DEF Ends, ClientInv, ClientTypeOK, DisconnectedOnce,
           CachedStateExact, HandshakeTimed, InfoCaptured, States

LEMMA BeginsInv == ASSUME ClientInv, Begins PROVE ClientInv'
<1>1. PICK app \in App :
          /\ app.next_tick # None
          /\ connection' = [id |-> connections + 1, state |-> "CONNECTING",
                            app |-> app, panicked |-> FALSE]
  BY Zenon DEF Begins
<1>2. /\ connection' \in Connection /\ connection'.id = connections + 1
      /\ connection'.state = "CONNECTING" /\ connection'.app = app
  BY <1>1 DEF ClientInv, ClientTypeOK, Connection, States, Handshake
<1>3. live'
  BY <1>2 DEF live, NoConnection, ClientInv, ClientTypeOK
<1>4. ClientTypeOK'
  BY <1>2, <1>3 DEF Begins, ClientInv, ClientTypeOK, States, Handshake
<1> QED BY <1>1, <1>2, <1>3, <1>4 DEF Begins, ClientInv, ClientTypeOK, Linked,
           DisconnectedOnce, CachedStateExact, HandshakeTimed, InfoCaptured

LEMMA StillInv == ASSUME ClientInv, Still PROVE ClientInv'
BY DEF Still, ClientInv, ClientTypeOK, DisconnectedOnce, CachedStateExact,
       HandshakeTimed, InfoCaptured, live

LEMMA NextClient == ClientInv /\ [Next]_vars => ClientInv'
BY StepKinds, GoesInv, EndsInv, BeginsInv, StillInv DEF GoesOn
LEMMA ClientInvHolds == Spec => []ClientInv
BY InitClient, NextClient, PTL DEF Spec

-----------------------------------------------------------------------------
\* fatal_disconnect, the core's own report and he_client_disconnect together
\* deliver exactly one DISCONNECTED for every connection.
THEOREM DisconnectedOnceHolds == Spec => []DisconnectedOnce
<1>1. ClientInv => DisconnectedOnce
  BY DEF ClientInv
<1> QED BY <1>1, ClientInvHolds, PTL

\* CffiEventCallback and the synthesised transitions: he_conn_t::state is the
\* state of the core's connection.
THEOREM CachedStateExactHolds == Spec => []CachedStateExact
<1>1. ClientInv => CachedStateExact
  BY DEF ClientInv
<1> QED BY <1>1, ClientInvHolds, PTL

\* No fatal error of the wire path or of a tick leaves its connection behind.
THEOREM NoDeadConnectionHolds == Spec => []NoDeadConnection
<1>1. ClientInv => NoDeadConnection
  BY DEF ClientInv, NoDeadConnection
<1> QED BY <1>1, ClientInvHolds, PTL

\* retry_connection_tick_after_error: a handshake always has its tick.
THEOREM HandshakeTimedHolds == Spec => []HandshakeTimed
<1>1. ClientInv => HandshakeTimed
  BY DEF ClientInv
<1> QED BY <1>1, ClientInvHolds, PTL

\* he_conn_nudge keeps every payload tick that is not yet due.
THEOREM TicksKeptHolds == Spec => TicksKept
<1> DEFINE Kept == \A k \in PayloadTicks :
                      connection.app.pending_ticks[k] > 0 =>
                          \/ connection'.app.pending_ticks[k] # None
                          \/ connection'.id # connection.id
<1>1. ClientInv /\ [Next]_vars => [Kept]_vars
  <2> SUFFICES ASSUME ClientInv, [Next]_vars, NEW k \in PayloadTicks,
                      connection.app.pending_ticks[k] > 0
               PROVE  \/ connection'.app.pending_ticks[k] # None
                      \/ connection'.id # connection.id
    OBVIOUS
  <2>1. live
    BY DEF live, NoConnection, app_state, None
  <2>2. CASE GoesOn
    BY <2>2 DEF GoesOn, Goes
  <2>3. CASE Ends
    BY <2>1, <2>3 DEF Ends, NoConnection, ClientInv, ClientTypeOK
  <2>4. CASE Begins
    BY <2>1, <2>4 DEF Begins
  <2>5. CASE Still
    BY <2>5, SameConnection DEF Still
  <2> QED BY <2>2, <2>3, <2>4, <2>5, StepKinds
<1> QED BY <1>1, ClientInvHolds, PTL DEF Spec, TicksKept

\* sync_conn_info captures the crypto info once per connection, and before the
\* host hears of ONLINE.
THEOREM InfoStableHolds == Spec => InfoStable
<1>1. ClientInv /\ [Next]_vars
          => [info # NoInfo /\ connections' = connections => info' = info]_vars
  <2> SUFFICES ASSUME ClientInv, [Next]_vars, info # NoInfo, connections' = connections
               PROVE  info' = info
    OBVIOUS
  <2>1. connections \in Nat
    BY DEF ClientInv, ClientTypeOK
  <2> QED BY <2>1, StepKinds DEF GoesOn, Goes, Ends, Begins, Still
<1>2. ClientInv => (live /\ info # NoInfo => info.of = connection.id)
  BY DEF ClientInv, InfoCaptured
<1>3. ClientInv /\ [Next]_vars
          => [state' = "ONLINE" => info # NoInfo \/ connection'.panicked]_vars
  <2> SUFFICES ASSUME ClientInv, [Next]_vars, state' = "ONLINE"
               PROVE  info # NoInfo \/ connection'.panicked
    OBVIOUS
  <2>1. ASSUME NEW s \in States, NEW app \in App, NEW panicked \in BOOLEAN,
               Goes(s, app, panicked)
        PROVE  info # NoInfo \/ connection'.panicked
    <3>1. connection.state \in Linked
      BY <2>1, SMTT(30) DEF Goes, Advances, Linked
    <3>2. connection'.panicked = panicked
      BY <2>1 DEF Goes
    <3> QED BY <2>1, <3>1, <3>2 DEF Goes, ClientInv, InfoCaptured
  <2>2. CASE Still
    BY <2>2 DEF Still, ClientInv, InfoCaptured, CachedStateExact, DisconnectedOnce,
                Linked
  <2> QED BY <2>1, <2>2, StepKinds DEF GoesOn, Ends, Begins
<1> QED BY <1>1, <1>2, <1>3, ClientInvHolds, PTL DEF Spec, InfoStable

-----------------------------------------------------------------------------
(* The host's timer.                                                       *)

\* A set of deadlines has an earliest one.
LEMMA NatMin ==
    ASSUME NEW S \in SUBSET Nat, S # {}
    PROVE  Min(S) \in S /\ \A y \in S : Min(S) =< y
<1>1. PICK x \in S : \A y \in S : ~(<<y, x>> \in OpToRel(<, Nat))
  BY WFMin, NatLessThanWellFounded, Zenon
<1>2. ASSUME NEW y \in S PROVE ~(y < x)
  <2>1. y < x => <<y, x>> \in OpToRel(<, Nat)
    BY Zenon DEF OpToRel
  <2> QED BY <1>1, <2>1, Zenon
<1>3. \A y \in S : x =< y
  BY <1>2
<1> QED BY <1>3, Zenon DEF Min

\* The host's timer, just set, covers deadline d to within a millisecond, which
\* it takes in full only if the deadline has passed.
LEMMA FreshTimer ==
    ASSUME NEW d \in Nat
    PROVE  /\ deadline_to_timeout_ms(d) \in Nat \ {0}
           /\ UnitsPerMs * deadline_to_timeout_ms(d) \in 0 .. d + UnitsPerMs
           /\ \/ UnitsPerMs * deadline_to_timeout_ms(d) <= d + UnitsPerMs - 1
              \/ UnitsPerMs * deadline_to_timeout_ms(d) = UnitsPerMs
<1> DEFINE q == (d + UnitsPerMs - 1) \div UnitsPerMs
           m == duration_to_timeout_ms(d)
           t == deadline_to_timeout_ms(d)
<1>1. q \in Nat /\ UnitsPerMs * q <= d + UnitsPerMs - 1
  BY TicksAssumption
<1>2. m \in Nat /\ m <= q
  <2>1. m = Min({q, MaxTimeoutMs})
    BY DEF duration_to_timeout_ms
  <2> HIDE DEF q, m
  <2>2. {q, MaxTimeoutMs} \in SUBSET Nat /\ {q, MaxTimeoutMs} # {}
    BY <1>1, TicksAssumption
  <2>3. /\ Min({q, MaxTimeoutMs}) \in {q, MaxTimeoutMs}
        /\ Min({q, MaxTimeoutMs}) <= q
    BY <2>2, NatMin
  <2> QED BY <2>1, <2>2, <2>3
<1>3. t \in {m, 1} /\ t \in Nat \ {0}
  <2>1. t = Max({m, 1})
    BY DEF deadline_to_timeout_ms
  <2> HIDE DEF m, t
  <2> QED BY <1>2, <2>1 DEF Max
<1> HIDE DEF q, m, t
<1>4. UnitsPerMs * m <= UnitsPerMs * q
  BY <1>1, <1>2, TicksAssumption
<1>5. UnitsPerMs * m \in Int /\ UnitsPerMs * q \in Int /\ UnitsPerMs * t \in Nat
  BY <1>1, <1>2, <1>3, TicksAssumption
<1>6. /\ UnitsPerMs * t <= d + UnitsPerMs
      /\ UnitsPerMs * t <= d + UnitsPerMs - 1 \/ UnitsPerMs * t = UnitsPerMs
  BY <1>1, <1>3, <1>4, <1>5, TicksAssumption
<1> QED BY <1>3, <1>5, <1>6, TicksAssumption DEF t

LEMMA EarliestType ==
    ASSUME NEW app \in App, earliest_tick_deadline(app) # None
    PROVE  /\ earliest_tick_deadline(app) \in deadlines(app)
           /\ earliest_tick_deadline(app) \in Nat
           /\ \A e \in deadlines(app) : earliest_tick_deadline(app) <= e
<1>1. deadlines(app) \in SUBSET Nat
  BY DEF deadlines, Range, App, None
<1> QED BY <1>1, NatMin DEF earliest_tick_deadline

\* Time brings the earliest deadline nearer by at most one unit.
LEMMA EarliestElapsed ==
    ASSUME NEW app \in App, earliest_tick_deadline(elapsed(app)) # None
    PROVE  /\ earliest_tick_deadline(app) # None
           /\ earliest_tick_deadline(app) <= earliest_tick_deadline(elapsed(app)) + 1
<1> DEFINE due == earliest_tick_deadline(elapsed(app))
<1>1. due \in deadlines(elapsed(app)) /\ due \in Nat
  BY EarliestType, ElapsedApp
<1>2. PICK e \in deadlines(app) : due = sooner(e)
  <2>1. CASE due = elapsed(app).next_tick
    <3>1. app.next_tick \in Nat /\ due = sooner(app.next_tick)
      BY <1>1, <2>1 DEF elapsed, sooner, App, None
    <3> QED BY <3>1 DEF deadlines, None
  <2>2. CASE \E k \in PayloadTicks : due = elapsed(app).pending_ticks[k]
    <3>1. PICK k \in PayloadTicks : due = elapsed(app).pending_ticks[k]
      BY <2>2
    <3>2. app.pending_ticks[k] \in Nat /\ due = sooner(app.pending_ticks[k])
      BY <1>1, <3>1 DEF elapsed, sooner, App, None
    <3>3. app.pending_ticks[k] \in Range(app.pending_ticks)
      BY DEF Range, App
    <3> QED BY <3>2, <3>3 DEF deadlines, None
  <2> QED BY <1>1, <2>1, <2>2, Zenon DEF deadlines, Range, elapsed
<1>3. earliest_tick_deadline(app) # None
  <2>1. deadlines(app) \in SUBSET Nat
    BY DEF deadlines, Range, App, None
  <2> QED BY <1>2, <2>1, NatMin DEF earliest_tick_deadline, None
<1>4. earliest_tick_deadline(app) <= e /\ earliest_tick_deadline(app) \in Nat /\ e \in Nat
  <2>1. deadlines(app) \in SUBSET Nat
    BY DEF deadlines, Range, App, None
  <2> QED BY <1>3, <2>1, EarliestType
<1> HIDE DEF due
<1>5. e <= due + 1
  BY <1>2, <1>4 DEF sooner
<1> QED BY <1>1, <1>3, <1>4, <1>5 DEF due

-----------------------------------------------------------------------------
Phases == {"idle", "failed", "payload", "dispatch"}
Host == [at : {"waits", "awake"}, told : BOOLEAN, lag : 0 .. MaxLag, lost : BOOLEAN]

Due == earliest_tick_deadline(connection.app)
Watched == nudge = Idle /\ live /\ ~connection.panicked /\ Due # None

\* Timeout t was less than a millisecond after the deadline lag units ago, or
\* is the least there is.
InTime(t, due, lag) == t <= due + UnitsPerMs + lag - 1 \/ t = UnitsPerMs

\* What the nudge thread is about to do with its timer is in time: the callback
\* has reset it since the last nudge returned, or nudge_time_ms was right when
\* it was computed, host.lag ago.
RereadInTime ==
    Watched /\ host.at = "awake" =>
        IF host.told
        THEN timer \in 0 .. Due + UnitsPerMs
        ELSE /\ nudge_time_ms \in Nat \ {0}
             /\ InTime(UnitsPerMs * nudge_time_ms, Due, host.lag)

WakeTypeOK == /\ nudge \in [phase : Phases, due : SUBSET PayloadTicks]
              /\ host \in Host

WakeInv == WakeTypeOK /\ RereadInTime /\ WakesOnTime

LEMMA WakeTrivially ==
    ASSUME ~live' \/ connection'.panicked \/ nudge'.phase # "idle"
    PROVE  RereadInTime' /\ WakesOnTime'
<1>1. ~live' \/ connection'.panicked \/ nudge' # Idle
  BY DEF Idle
<1> QED BY <1>1, Zenon DEF RereadInTime, WakesOnTime, Watched, Due

\* The timer has just been set from the ticks of the connection.
LEMMA WakeFresh ==
    ASSUME connection'.app \in App,
           timer' = notified_timeout(connection'.app, 0),
           host'.at = "waits" \/ host'.told
    PROVE  RereadInTime' /\ WakesOnTime'
<1> DEFINE due == earliest_tick_deadline(connection'.app)
<1>1. due # None => due \in Nat
  BY EarliestType
<1>2. due # None => timer' \in 0 .. due + UnitsPerMs
  BY <1>1, FreshTimer DEF notified_timeout
<1>3. due # None => timer' \in 0 .. due + UnitsPerMs + MaxLag - 1
  <2> HIDE DEF due
  <2> QED BY <1>1, <1>2, TicksAssumption, LagAssumption
<1>4. RereadInTime'
  BY <1>2, Zenon DEF RereadInTime, Watched, Due
<1> QED BY <1>3, <1>4, Zenon DEF WakesOnTime

\* Nothing that counts has changed.
LEMMA WakeSame ==
    ASSUME RereadInTime, WakesOnTime, live, nudge = Idle,
           connection'.panicked = connection.panicked,
           connection'.app = connection.app,
           UNCHANGED <<timer, host, nudge_time_ms>>
    PROVE  RereadInTime' /\ WakesOnTime'
BY Zenon DEF RereadInTime, WakesOnTime, Watched, Due

\* nudge_time_cb has been called if a tick was asked for.
LEMMA WakeNotified ==
    ASSUME ClientInv, WakeInv, live, nudge = Idle,
           NEW ask \in AnyTick \cup {NoTick},
           connection'.panicked = connection.panicked,
           connection'.app = Recorded(connection.app, ask),
           Notify(connection'.app, ask), nudge_time_ms' = nudge_time_ms
    PROVE  RereadInTime' /\ WakesOnTime'
<1>1. CASE ask = NoTick
  BY <1>1, WakeSame DEF Recorded, Notify, Notified, WakeInv
<1>2. CASE ask # NoTick
  <2>1. connection.app \in App
    BY DEF ClientInv, ClientTypeOK, Connection
  <2>2. connection'.app \in App
    BY <2>1, RecordedApp
  <2>3. timer' = notified_timeout(connection'.app, 0)
    BY <1>2 DEF Notify, Notified, notified_timeout
  <2>4. host'.at = "waits" \/ host'.told
    BY <1>2 DEF Notify, WakeInv, WakeTypeOK, Host
  <2> QED BY <2>2, <2>3, <2>4, WakeFresh, Zenon
<1> QED BY <1>1, <1>2

\* The public timer has just been computed.
LEMMA WakeRefreshed ==
    ASSUME connection'.app \in App, ReturnRefreshed(connection'.app)
    PROVE  RereadInTime' /\ WakesOnTime'
<1> DEFINE due == earliest_tick_deadline(connection'.app)
<1>1. due # None => due \in Nat
  BY EarliestType
<1>2. due # None => nudge_time_ms' = deadline_to_timeout_ms(due)
  BY DEF ReturnRefreshed, nudge_ms_until, next_wake
<1>3. due # None => /\ nudge_time_ms' \in Nat \ {0}
                    /\ InTime(UnitsPerMs * nudge_time_ms', due, 0)
  <2>1. due # None => /\ deadline_to_timeout_ms(due) \in Nat \ {0}
                      /\ InTime(UnitsPerMs * deadline_to_timeout_ms(due), due, 0)
    BY <1>1, FreshTimer, TicksAssumption DEF InTime
  <2> HIDE DEF due
  <2> QED BY <1>2, <2>1, Zenon
<1>4. host'.at = "awake" /\ host'.told = FALSE /\ host'.lag = 0
  BY DEF ReturnRefreshed, Returns, Waiting
<1>5. RereadInTime'
  BY <1>3, <1>4, Zenon DEF RereadInTime, Watched, Due
<1> QED BY <1>4, <1>5 DEF WakesOnTime

\* he_conn_get_nudge_time, and the thread waits.
LEMMA WakeReread ==
    ASSUME ClientInv, WakeInv, get_nudge_time
    PROVE  RereadInTime' /\ WakesOnTime'
<1>1. /\ nudge' = nudge /\ connection' = connection /\ host'.at = "waits"
      /\ host.at = "awake" /\ host.lag \in 0 .. MaxLag /\ host.told \in BOOLEAN
  BY DEF get_nudge_time, Waiting, WakeInv, WakeTypeOK, Host
<1>2. RereadInTime'
  BY <1>1 DEF RereadInTime
<1>3. ASSUME Watched, ~host'.lost
      PROVE  timer' \in 0 .. Due + UnitsPerMs + MaxLag - 1
  <2>1. Due \in Nat
    BY <1>3, EarliestType DEF Watched, Due, ClientInv, ClientTypeOK, Connection
  <2>2. CASE host.told
    <3>1. timer' = timer
      BY <1>3, <2>2 DEF get_nudge_time, Waiting
    <3>2. timer \in 0 .. Due + UnitsPerMs
      BY <1>1, <1>3, <2>2 DEF WakeInv, RereadInTime
    <3> QED BY <2>1, <3>1, <3>2, TicksAssumption, LagAssumption
  <2>3. CASE ~host.told
    <3>1. /\ nudge_time_ms \in Nat \ {0}
          /\ InTime(UnitsPerMs * nudge_time_ms, Due, host.lag)
      BY <1>1, <1>3, <2>3 DEF WakeInv, RereadInTime
    <3>2. timer' = UnitsPerMs * nudge_time_ms
      BY <2>3, <3>1 DEF get_nudge_time
    <3>3. UnitsPerMs * nudge_time_ms \in Nat
      BY <3>1, TicksAssumption
    <3> QED BY <1>1, <2>1, <3>1, <3>2, <3>3, TicksAssumption, LagAssumption DEF InTime
  <2> QED BY <2>2, <2>3
<1>4. live' = live /\ Due' = Due
  BY <1>1 DEF live, Due
<1> QED BY <1>1, <1>2, <1>3, <1>4, Zenon DEF WakesOnTime, Watched, Due

-----------------------------------------------------------------------------
LEMMA NudgeType ==
    ASSUME nudge \in [phase : Phases, due : SUBSET PayloadTicks], [Next]_vars
    PROVE  nudge' \in [phase : Phases, due : SUBSET PayloadTicks]
<1>1. CASE nudge' = nudge
  BY <1>1
<1>2. CASE nudge' = Idle
  BY <1>2 DEF Idle, Phases
<1>3. CASE \E phase \in Phases : nudge' = [Idle EXCEPT !.phase = phase]
  BY <1>3 DEF Idle
<1>4. CASE nudge_take
  BY <1>4 DEF nudge_take, Phases
<1>5. CASE \E k \in PayloadTicks : nudge' = [nudge EXCEPT !.due = @ \ {k}]
  BY <1>5
<1>6. CASE Nudge
  BY <1>2, <1>3, <1>6
  DEF Nudge, nudge_refused, nudge_no_tick, nudge_tick, nudge_tick_fails,
      nudge_tick_fatal, nudge_tick_panics, TickFatal, ReturnPanicked, Returns, Phases
<1>7. CASE NudgeContinue
  BY <1>2, <1>4, <1>5, <1>7
  DEF NudgeContinue, nudge_failed, nudge_dispatch, nudge_dispatch_fatal,
      nudge_dispatch_panics, nudge_return, TickFatal, ReturnPanicked,
      ReturnRefreshed, Returns
<1>8. CASE \E ask \in AnyTick \cup {NoTick} :
              inside_packet_received(ask) \/ expresslane_rotate_if_due(ask)
  BY <1>1, <1>2, <1>8
  DEF inside_packet_received, expresslane_rotate_if_due, ReturnRefreshed, Returns
<1> QED BY <1>1, <1>6, <1>7, <1>8, Zenon
    DEF Next, vars, client_connect, client_connect_fails, client_disconnect,
        outside_data_received, data_path_panics, outside_data_fatal, Elapse,
        expresslane_rotate_no_op, get_nudge_time

LEMMA HostType == ASSUME host \in Host, [Next]_vars PROVE host' \in Host
<1>0. Waiting \in Host
  BY LagAssumption DEF Waiting, Host
<1>1. CASE host' = host
  BY <1>1
<1>2. CASE Returns
  BY <1>0, <1>2 DEF Returns, Host
<1>3. CASE \E app, ask : Notify(app, ask)
  BY <1>3 DEF Notify, Host
<1>4. CASE get_nudge_time
  BY <1>0, <1>4 DEF get_nudge_time, Host
<1>5. CASE Elapse
  BY <1>5, LagAssumption DEF Elapse, Host
<1>6. CASE Nudge
  BY <1>1, <1>2, <1>3, <1>6, Zenon
  DEF Nudge, nudge_refused, nudge_no_tick, nudge_tick, nudge_tick_fails,
      nudge_tick_fatal, nudge_tick_panics, TickFatal, ReturnPanicked
<1>7. CASE NudgeContinue
  BY <1>1, <1>2, <1>3, <1>7, Zenon
  DEF NudgeContinue, nudge_failed, nudge_take, nudge_dispatch, nudge_dispatch_fatal,
      nudge_dispatch_panics, nudge_return, TickFatal, ReturnPanicked,
      ReturnRefreshed
<1>8. CASE \E ask \in AnyTick \cup {NoTick} :
              inside_packet_received(ask) \/ expresslane_rotate_if_due(ask)
  BY <1>2, <1>3, <1>8, Zenon
  DEF inside_packet_received, expresslane_rotate_if_due, ReturnRefreshed
<1>9. CASE \E s, ask : outside_data_received(s, ask)
  BY <1>3, <1>9, Zenon DEF outside_data_received
<1> QED BY <1>1, <1>3, <1>4, <1>5, <1>6, <1>7, <1>8, <1>9, Zenon
    DEF Next, vars, client_connect, client_connect_fails, client_disconnect,
        data_path_panics, outside_data_fatal, expresslane_rotate_no_op

LEMMA ConnectWake ==
    ASSUME ClientInv', WakeInv, NEW ask \in ConnectionTicks, client_connect(ask)
    PROVE  RereadInTime' /\ WakesOnTime'
<1>1. connection'.app \in App
  BY DEF ClientInv, ClientTypeOK, Connection
<1>2. ask # NoTick
  BY DEF ConnectionTicks, NoTick
<1>3. Notify(connection'.app, ask)
  BY DEF client_connect
<1>4. timer' = notified_timeout(connection'.app, 0)
  BY <1>2, <1>3 DEF Notify, Notified, notified_timeout
<1>5. host'.at = "waits" \/ host'.told
  BY <1>2, <1>3 DEF Notify, WakeInv, WakeTypeOK, Host
<1> QED BY <1>1, <1>4, <1>5, WakeFresh, Zenon

LEMMA DataWake ==
    ASSUME ClientInv, WakeInv, NEW ask \in AnyTick \cup {NoTick},
           \/ \E s : outside_data_received(s, ask)
           \/ inside_packet_received(ask)
    PROVE  RereadInTime' /\ WakesOnTime'
<1>1. /\ live /\ nudge = Idle /\ nudge_time_ms' = nudge_time_ms
      /\ \E s : connection' = [connection EXCEPT !.state = s,
                                   !.app = Recorded(connection.app, ask)]
      /\ Notify(Recorded(connection.app, ask), ask)
  BY Zenon DEF outside_data_received, inside_packet_received, Continues
<1>2. /\ connection'.panicked = connection.panicked
      /\ connection'.app = Recorded(connection.app, ask)
  BY <1>1 DEF ClientInv, ClientTypeOK, Connection
<1> QED BY <1>1, <1>2, WakeNotified

LEMMA RefreshWake ==
    ASSUME ClientInv', ClientInv, WakeInv,
           \/ nudge_failed \/ nudge_return
           \/ \E ask \in AnyTick \cup {NoTick} : expresslane_rotate_if_due(ask)
    PROVE  RereadInTime' /\ WakesOnTime'
<1>1. connection'.app \in App
  BY DEF ClientInv, ClientTypeOK, Connection
<1>2. ReturnRefreshed(connection'.app)
  BY DEF nudge_failed, nudge_return, expresslane_rotate_if_due
<1> QED BY <1>1, <1>2, WakeRefreshed

LEMMA PanicWake ==
    ASSUME ClientInv,
           \/ \E s : data_path_panics(s)
           \/ nudge_tick_panics \/ nudge_dispatch_panics
    PROVE  RereadInTime' /\ WakesOnTime'
<1>1. connection'.panicked
  BY Zenon DEF data_path_panics, nudge_tick_panics, nudge_dispatch_panics,
         ReturnPanicked, ClientInv, ClientTypeOK, Connection
<1> QED BY <1>1, WakeTrivially

LEMMA EndWake ==
    ASSUME \/ client_disconnect
           \/ \E s \in Ended : \/ outside_data_fatal(s) \/ nudge_tick_fatal(s)
                               \/ nudge_dispatch_fatal(s)
    PROVE  RereadInTime' /\ WakesOnTime'
<1>1. ~live'
  BY DEF client_disconnect, outside_data_fatal, nudge_tick_fatal, live,
         nudge_dispatch_fatal, TickFatal, fatal_disconnect
<1> QED BY <1>1, WakeTrivially, SMTT(30)

LEMMA InsideNudgeWake ==
    ASSUME WakeInv,
           \/ nudge_no_tick \/ nudge_take
           \/ \E ask \in AnyTick \cup {NoTick} : nudge_tick(ask)
           \/ \E ask \in ConnectionTicks : nudge_tick_fails(ask)
           \/ \E k \in PayloadTicks, ask \in AnyTick \cup {NoTick} : nudge_dispatch(k, ask)
    PROVE  RereadInTime' /\ WakesOnTime'
<1>1. nudge'.phase # "idle"
  BY DEF nudge_no_tick, nudge_take, nudge_tick, nudge_tick_fails, nudge_dispatch,
         Idle, WakeInv, WakeTypeOK
<1> QED BY <1>1, WakeTrivially

LEMMA SoonerInTime ==
    ASSUME NEW before \in Nat, NEW after \in Nat, before <= after + 1
    PROVE  /\ \A t : t \in 0 .. before + UnitsPerMs
                      => sooner(t) \in 0 .. after + UnitsPerMs
           /\ \A t : t \in 0 .. before + UnitsPerMs + MaxLag - 1
                      => sooner(t) \in 0 .. after + UnitsPerMs + MaxLag - 1
           /\ \A t \in Nat, lag \in 0 .. MaxLag :
                  InTime(t, before, lag) => InTime(t, after, lag + 1)
BY TicksAssumption, LagAssumption DEF sooner, InTime

\* Time brings the deadline nearer by as much as the timer, and the lag makes
\* up for a nudge_time_ms that stays.
LEMMA ElapseWake ==
    ASSUME ClientInv, WakeInv, Elapse
    PROVE  RereadInTime' /\ WakesOnTime'
<1> SUFFICES ASSUME Watched' PROVE RereadInTime' /\ WakesOnTime'
  BY Zenon DEF RereadInTime, WakesOnTime, Watched, Due
<1>1. /\ connection.app \in App /\ connection'.app = elapsed(connection.app)
      /\ connection'.panicked = connection.panicked
  BY DEF Elapse, ClientInv, ClientTypeOK, Connection
<1>2. live
  BY ElapsedNone DEF Elapse, live, Watched
<1>3. Due # None /\ Due <= Due' + 1
  BY <1>1, EarliestElapsed, SMTT(30) DEF Watched, Due
<1>4. Due \in Nat /\ Due' \in Nat
  BY <1>1, <1>3, EarliestType, ElapsedApp DEF Watched, Due
<1>5. Watched
  BY <1>1, <1>2, <1>3 DEF Elapse, Watched
<1>6. timer' = sooner(timer) /\ nudge_time_ms' = nudge_time_ms
  BY DEF Elapse
<1>7. CASE host.at = "waits"
  <2>1. host' = host
    BY <1>7 DEF Elapse
  <2>2. ~host.lost => timer \in 0 .. Due + UnitsPerMs + MaxLag - 1
    BY <1>5, <1>7, Zenon DEF WakeInv, WakesOnTime, Watched, Due
  <2>3. ~host.lost => timer' \in 0 .. Due' + UnitsPerMs + MaxLag - 1
    BY <1>3, <1>4, <1>6, <2>2, SoonerInTime, Zenon
  <2>4. WakesOnTime'
    BY <2>1, <2>3, Zenon DEF WakesOnTime, Due
  <2>5. RereadInTime'
    BY <1>7, <2>1 DEF RereadInTime
  <2> QED BY <2>4, <2>5
<1>8. CASE host.at = "awake"
  <2>1. /\ host'.at = "awake" /\ host'.told = host.told /\ host'.lag = host.lag + 1
        /\ host.lag \in 0 .. MaxLag
    BY <1>8 DEF Elapse, WakeInv, WakeTypeOK, Host
  <2>2. CASE host.told
    <3>1. timer \in 0 .. Due + UnitsPerMs
      BY <1>5, <1>8, <2>2 DEF WakeInv, RereadInTime
    <3>2. timer' \in 0 .. Due' + UnitsPerMs
      BY <1>3, <1>4, <1>6, <3>1, SoonerInTime, Zenon
    <3> QED BY <2>1, <2>2, <3>2 DEF RereadInTime, WakesOnTime
  <2>3. CASE ~host.told
    <3>1. /\ nudge_time_ms \in Nat \ {0}
          /\ InTime(UnitsPerMs * nudge_time_ms, Due, host.lag)
      BY <1>5, <1>8, <2>3 DEF WakeInv, RereadInTime
    <3>2. UnitsPerMs * nudge_time_ms \in Nat
      BY <3>1, TicksAssumption
    <3>3. InTime(UnitsPerMs * nudge_time_ms, Due', host'.lag)
      BY <1>3, <1>4, <2>1, <3>1, <3>2, SoonerInTime, Zenon
    <3> QED BY <1>6, <2>1, <2>3, <3>1, <3>3 DEF RereadInTime, WakesOnTime
  <2> QED BY <2>2, <2>3
<1> QED BY <1>7, <1>8 DEF WakeInv, WakeTypeOK, Host

LEMMA NextWake == ClientInv /\ ClientInv' /\ WakeInv /\ [Next]_vars => WakeInv'
<1> SUFFICES ASSUME ClientInv, ClientInv', WakeInv, [Next]_vars
             PROVE  RereadInTime' /\ WakesOnTime'
  BY NudgeType, HostType DEF WakeInv, WakeTypeOK
<1>1. CASE Elapse
  BY <1>1, ElapseWake
<1>2. CASE \E ask \in ConnectionTicks : client_connect(ask)
  BY <1>2, ConnectWake
<1>3. CASE \/ \E ask \in ConnectionTicks : client_connect_fails(ask)
           \/ nudge_refused
  <2>1. ~live'
    BY <1>3 DEF client_connect_fails, nudge_refused, live
  <2> QED BY <2>1, WakeTrivially
<1>4. CASE Nudge
  BY <1>3, <1>4, EndWake, PanicWake, InsideNudgeWake DEF Nudge
<1>5. CASE NudgeContinue
  BY <1>5, EndWake, PanicWake, InsideNudgeWake, RefreshWake DEF NudgeContinue
<1>6. CASE expresslane_rotate_no_op \/ UNCHANGED vars
  BY <1>6 DEF expresslane_rotate_no_op, vars, WakeInv, RereadInTime, WakesOnTime,
              Watched, Due, live
<1>7. CASE get_nudge_time
  BY <1>7, WakeReread
<1> QED BY <1>1, <1>2, <1>3, <1>4, <1>5, <1>6, <1>7, EndWake, PanicWake, DataWake,
           RefreshWake DEF Next

\* cffi_schedule_tick_cb, the refresh of the public timer and its re-read:
\* whatever the core schedules, whichever thread it is called from and however
\* often rotate_if_due is a no-op, the waiting host's timer expires less than a
\* millisecond and the lag of the re-read after the earliest deadline, unless a
\* call has panicked or the host has undone a callback.
THEOREM WakesOnTimeHolds == Spec => []WakesOnTime
<1>1. Init => WakeInv
  BY LagAssumption DEF Init, WakeInv, WakeTypeOK, RereadInTime, Watched, WakesOnTime,
     live, Idle, Waiting, Host, Phases
<1>2. WakeInv => WakesOnTime
  BY SMTT(30) DEF WakeInv
<1> QED BY <1>1, <1>2, NextWake, ClientInvHolds, PTL DEF Spec

-----------------------------------------------------------------------------
(* The wiring and the configuration.                                       *)

WiringTypeOK ==
    /\ ssl_ctx \in [cb : [Callbacks -> Versions \cup {Unset}],
                    enable_expresslane : BOOLEAN,
                    connection_type : {Datagram, Stream}]
    /\ conn \in [context : Contexts \cup {null},
                 state : {"NONE", "CONNECTING", "ONLINE", "DISCONNECTED"}]

\* The adapters of a connection call what is registered, with the context that
\* is set, as long as no setter has been called since they were built.
AdaptersCurrent ==
    is_wired /\ ~touched =>
        \A c \in Callbacks :
            /\ wired.adapters[c].version \in {Unset, ssl_ctx.cb[c]}
            /\ wired.adapters[c].context = conn.context

WiringInv == WiringTypeOK /\ AdaptersCurrent /\ OneListener

-----------------------------------------------------------------------------
\* What the core invokes through an adapter is current if the adapters are.
LEMMA ThroughCurrent ==
    ASSUME AdaptersCurrent, is_wired, ~touched, NEW c \in Callbacks,
           NEW f \in Through(wired.adapters, c)
    PROVE  f.version = ssl_ctx.cb[f.cb] /\ f.context = conn.context
BY SMTT(30) DEF AdaptersCurrent, Through, Invoke

\* What the shim invokes itself is current by definition.
LEMMA SynthesisedCurrent ==
    ASSUME NEW f \in synthesised
    PROVE  f.version = ssl_ctx.cb[f.cb] /\ f.context = conn.context
BY SMTT(30) DEF synthesised, Invoke

LEMMA InitWiring == WiringInit => WiringInv
BY DEF WiringInit, WiringInv, WiringTypeOK, AdaptersCurrent, OneListener,
       is_wired, default_ssl_ctx, default_conn, Unset, null, Datagram, Stream

\* A setter leaves the connection alone, and is on record.
LEMMA ConfigureWiring == WiringInv /\ Configure => WiringInv'
<1> SUFFICES ASSUME WiringInv, Configure PROVE WiringInv'
  BY SMTT(30)
<1> USE DEF WiringInv
<1>1. WiringTypeOK'
  <2>1. CASE \E c \in Callbacks, v \in Versions :
                 \/ set_io_cb(c, v) \/ set_event_cb(c, v)
                 \/ set_unused_cb(c, v) \/ set_expresslane_cb(c, v)
    BY <2>1 DEF WiringTypeOK, set_io_cb, set_event_cb, set_unused_cb,
                set_expresslane_cb, set_cb
  <2>2. CASE \E n \in {Datagram, Stream, 2} : set_connection_type(n)
    BY <2>2 DEF WiringTypeOK, set_connection_type
  <2>3. CASE \E enable \in BOOLEAN : set_enable_expresslane(enable)
    BY <2>3 DEF WiringTypeOK, set_enable_expresslane
  <2>4. CASE \E context \in Contexts : set_context(context)
    BY <2>4 DEF WiringTypeOK, set_context
  <2> QED BY <2>1, <2>2, <2>3, <2>4 DEF Configure
<1>2. touched' /\ wired' = wired
  BY DEF Configure, Setting
<1> QED BY <1>1, <1>2 DEF AdaptersCurrent, OneListener, is_wired

\* he_client_connect builds the adapters from the fields of the moment.
LEMMA ConnectWiring == WiringInv /\ he_client_connect => WiringInv'
<1> SUFFICES ASSUME WiringInv, he_client_connect PROVE WiringInv'
  OBVIOUS
<1> USE DEF WiringInv
<1> DEFINE adapters == [c \in Callbacks |-> adapter(c)]
<1>1. /\ conn' = [conn EXCEPT !.state = "CONNECTING"] /\ ssl_ctx' = ssl_ctx
      /\ touched' = FALSE
      /\ wired' = [adapters |-> adapters, type |-> ssl_ctx.connection_type]
      /\ fired' \subseteq Through(adapters, "outside_write_cb")
                            \cup Through(adapters, "nudge_time_cb")
                            \cup synthesised
  BY Zenon DEF he_client_connect
<1>2. WiringTypeOK' /\ conn'.context = conn.context
  BY <1>1 DEF WiringTypeOK
<1>3. \A c \in Callbacks : /\ adapters[c].version \in {Unset, ssl_ctx.cb[c]}
                           /\ adapters[c].context = conn.context
  BY DEF adapter
<1> HIDE DEF adapters
<1>4. AdaptersCurrent'
  BY <1>1, <1>2, <1>3, Zenon DEF AdaptersCurrent
<1>5. \A f \in fired' : f.version = ssl_ctx.cb[f.cb] /\ f.context = conn.context
  <2>1. ASSUME NEW c \in Callbacks, NEW f \in Through(adapters, c)
        PROVE  f.version = ssl_ctx.cb[f.cb] /\ f.context = conn.context
    <3>1. /\ adapters[c].version # Unset
          /\ f = [cb |-> c, version |-> adapters[c].version, context |-> adapters[c].context]
      BY Zenon DEF Through, Invoke
    <3>2. f.cb = c /\ f.version = adapters[c].version /\ f.context = adapters[c].context
      BY <3>1
    <3> QED BY <1>3, <3>1, <3>2, Zenon
  <2> QED BY <1>1, <2>1, SynthesisedCurrent, WiringAssumption, Zenon
<1>6. OneListener'
  BY <1>1, <1>2, <1>5, Zenon DEF OneListener
<1> QED BY <1>2, <1>4, <1>6

\* A report of the core only invokes one callback.
LEMMA ReportsWiring == ASSUME NEW c, WiringInv, Reports(c) PROVE WiringInv'
<1> USE DEF WiringInv
<1>1. OneListener'
  BY ThroughCurrent, Zenon DEF Reports, OneListener
<1>2. UNCHANGED <<ssl_ctx, conn, wired, settings, touched>>
  BY Zenon DEF Reports
<1>3. WiringTypeOK' /\ AdaptersCurrent'
  BY <1>2 DEF WiringTypeOK, AdaptersCurrent, is_wired
<1> QED BY <1>1, <1>3

LEMMA StateWiring ==
    ASSUME NEW s \in {"ONLINE", "DISCONNECTED"}, WiringInv, StateChanged(s)
    PROVE  WiringInv'
<1> USE DEF WiringInv
<1>1. WiringTypeOK' /\ conn'.context = conn.context
  BY DEF StateChanged, WiringTypeOK
<1>2. OneListener'
  <2> SUFFICES ASSUME ~touched, NEW f \in Through(wired.adapters, "state_change_cb")
               PROVE  f.version = ssl_ctx.cb[f.cb] /\ f.context = conn.context
    BY <1>1, SMTT(30) DEF StateChanged, OneListener
  <2> QED BY ThroughCurrent, WiringAssumption DEF StateChanged
<1> QED BY <1>1, <1>2 DEF StateChanged, AdaptersCurrent, is_wired

\* An error may end the connection, of which the shim tells by itself.
LEMMA ReceivedWiring ==
    ASSUME NEW error \in {"none", "io", "packet", "fatal"}, NEW written,
           WiringInv, he_conn_outside_data_received(error, written),
           ~touched => \A f \in written : /\ f.version = ssl_ctx.cb[f.cb]
                                          /\ f.context = conn.context
    PROVE  WiringInv'
<1> USE DEF WiringInv
<1>1. /\ ssl_ctx' = ssl_ctx /\ touched' = touched
      /\ fired' \subseteq written \cup synthesised
      /\ conn' = conn \/ conn' = [conn EXCEPT !.state = "DISCONNECTED"]
      /\ wired' \in {wired, NotWired}
  BY DEF he_conn_outside_data_received, end_fired
<1>2. WiringTypeOK' /\ conn'.context = conn.context
  BY <1>1 DEF WiringTypeOK
<1>3. OneListener'
  BY <1>1, <1>2, SynthesisedCurrent DEF OneListener
<1>4. AdaptersCurrent'
  BY <1>1, <1>2 DEF AdaptersCurrent, is_wired
<1> QED BY <1>2, <1>3, <1>4

LEMMA OutsideDataWiring == WiringInv /\ OutsideData => WiringInv'
<1> SUFFICES ASSUME WiringInv, OutsideData PROVE WiringInv'
  OBVIOUS
<1>1. CASE \E error \in {"packet", "fatal"} : he_conn_outside_data_received(error, {})
  BY <1>1, ReceivedWiring, Zenon
<1>2. CASE \E c \in io_cbs \cap Callbacks, code \in {"HE_SUCCESS", "HE_ERR_FAILED"} :
               /\ is_wired
               /\ he_conn_outside_data_received(io_result(code),
                                        Through(wired.adapters, c))
  <2>1. PICK c \in Callbacks, code \in {"HE_SUCCESS", "HE_ERR_FAILED"} :
            /\ is_wired
            /\ he_conn_outside_data_received(io_result(code), Through(wired.adapters, c))
    BY <1>2
  <2>2. io_result(code) \in {"none", "io", "packet", "fatal"}
    BY DEF io_result
  <2>3. ~touched => \A f \in Through(wired.adapters, c) :
                        f.version = ssl_ctx.cb[f.cb] /\ f.context = conn.context
    BY <2>1, ThroughCurrent DEF WiringInv
  <2> QED BY <2>1, <2>2, <2>3, ReceivedWiring
<1> QED BY <1>1, <1>2, SMTT(30) DEF OutsideData

LEMMA DisconnectWiring == WiringInv /\ he_client_disconnect => WiringInv'
<1> SUFFICES ASSUME WiringInv, he_client_disconnect PROVE WiringInv'
  OBVIOUS
<1> USE DEF WiringInv
<1>1. /\ conn' = [conn EXCEPT !.state = "DISCONNECTED"]
      /\ wired' = NotWired /\ ssl_ctx' = ssl_ctx
      /\ touched' = touched
      /\ \/ is_wired /\ fired' = Through(wired.adapters, "state_change_cb")
         \/ fired' \subseteq synthesised
  BY DEF he_client_disconnect, end_fired
<1>2. WiringTypeOK' /\ conn'.context = conn.context
  BY <1>1 DEF WiringTypeOK
<1>3. OneListener'
  <2>1. ASSUME ~touched, NEW f \in fired'
        PROVE  f.version = ssl_ctx.cb[f.cb] /\ f.context = conn.context
    <3>1. CASE f \in synthesised
      BY <3>1, SynthesisedCurrent, Zenon
    <3>2. CASE is_wired /\ f \in Through(wired.adapters, "state_change_cb")
      BY <2>1, <3>2, ThroughCurrent, WiringAssumption, Zenon
    <3> QED BY <1>1, <2>1, <3>1, <3>2, Zenon
  <2> QED BY <1>1, <1>2, <2>1, Zenon DEF OneListener
<1>4. AdaptersCurrent'
  BY <1>1, Zenon DEF AdaptersCurrent, is_wired
<1> QED BY <1>2, <1>3, <1>4

LEMMA NextWiring == WiringInv /\ [WiringNext]_wiring_vars => WiringInv'
<1> SUFFICES ASSUME WiringInv, [WiringNext]_wiring_vars PROVE WiringInv'
  OBVIOUS
<1>1. CASE Configure \/ he_client_connect \/ OutsideData \/ he_client_disconnect
  BY <1>1, ConfigureWiring, ConnectWiring, OutsideDataWiring, DisconnectWiring
<1>2. CASE \E s \in {"ONLINE", "DISCONNECTED"} : StateChanged(s)
  BY <1>2, StateWiring
<1>3. CASE \/ fire_event \/ ExpresslaneStateChanged \/ ip_config
           \/ expresslane_update \/ expresslane_get_stats \/ schedule_tick
  BY <1>3, ReportsWiring, SMTT(30) DEF fire_event, ExpresslaneStateChanged, ip_config,
                             expresslane_update, expresslane_get_stats, schedule_tick
<1>4. CASE UNCHANGED wiring_vars
  BY <1>4 DEF wiring_vars, WiringInv, WiringTypeOK, AdaptersCurrent,
              OneListener, is_wired
<1> QED BY <1>1, <1>2, <1>3, <1>4 DEF WiringNext

\* he_conn_set_context and the callback setters: a client configured before it
\* connects hears everything through the callbacks and the context it set.
THEOREM OneListenerHolds == WiringSpec => []OneListener
<1>1. WiringInv => OneListener
  BY DEF WiringInv
<1> QED BY <1>1, InitWiring, NextWiring, PTL DEF WiringSpec

-----------------------------------------------------------------------------
(* The two checks of a configuration agree on what is absent.              *)

\* For any configuration at all: the credential connecting picks is missing
\* exactly when validation finds neither a pair nor a token.
LEMMA CredentialAbsent ==
    ASSUME NEW c
    PROVE  "unset" \in credentials(c) <=> ~has_user_pass(c) /\ c.auth_token = "unset"
BY DEF credentials, has_user_pass

\* he_client_is_config_valid and he_client_connect report a missing setting
\* for the same configurations, whatever the setters stored.
THEOREM AgreeOnAbsenceHolds == ConfigSpec => []AgreeOnAbsence
<1>1. AgreeOnAbsence
    BY CredentialAbsent DEF AgreeOnAbsence, is_config_valid, connect_checks
<1>2. QED
    BY <1>1, PTL

-----------------------------------------------------------------------------
(* The framing of an offload: no id gets past he_expresslane_decrypt that  *)
(* the server has not stamped.                                             *)

Planes == {"none", "expresslane", "control"}

\* The ids the server has assigned so far.
Issued == 1 .. stamped

\* A datagram in flight is sealed under the id in its header as it was sent.
InFlight(d) ==
    /\ d \in [plane : Planes, sid : Int, aad : Int, fresh : BOOLEAN]
    /\ d.plane # "none" => d.sid \in Issued /\ d.aad = d.sid

ServerOK ==
    /\ server \in [sid : Nat \ {0}, pending : Nat \cup {NoId}]
    /\ server.pending # NoId => server.pending > server.sid

\* Whatever holds an id, the core, the offload, a thread about to adopt one or
\* the network, holds one that was issued.
OffloadInv ==
    /\ ServerOK
    /\ core \in {NoId} \cup Issued
    /\ calling => core # NoId
    /\ offload \in {NoSession} \cup Issued
    /\ rx \in [RxThreads -> {NoId} \cup Issued]
    /\ DOMAIN wire = Slots /\ \A s \in Slots : InFlight(wire[s])
    /\ EgressRoutable

LEMMA StampedType ==
    ASSUME ServerOK
    PROVE  stamped \in Nat \ {0} /\ stamped >= server.sid
BY DEF ServerOK, stamped, NoId

LEMMA OffloadInitInv == OffloadInit => OffloadInv
<1> SUFFICES ASSUME OffloadInit PROVE OffloadInv
  OBVIOUS
<1>1. ServerOK
  BY DEF OffloadInit, ServerOK, NoId
<1>2. \A s \in Slots : InFlight(wire[s])
  <2>1. InFlight(Nothing)
    BY DEF InFlight, Nothing, Planes, Reserved
  <2> QED BY <2>1 DEF OffloadInit
<1> QED BY <1>1, <1>2 DEF OffloadInit, OffloadInv, EgressRoutable

-----------------------------------------------------------------------------
\* The server only ever issues more ids.
LEMMA RotationStarts ==
    ASSUME ServerOK, StartRotation
    PROVE  ServerOK' /\ Issued \subseteq Issued'
<1>1. /\ server' = [server EXCEPT !.pending = server.sid + 1]
      /\ server.pending = NoId
  BY DEF StartRotation
<1>2. server'.sid = server.sid /\ server'.pending = server.sid + 1
  BY <1>1 DEF ServerOK
<1>3. ServerOK'
  BY <1>1, <1>2 DEF ServerOK, NoId
<1>4. stamped = server.sid /\ stamped' = server.sid + 1
  BY <1>1, <1>2 DEF ServerOK, stamped, NoId
<1> QED BY <1>3, <1>4 DEF ServerOK, Issued

LEMMA RotationEnds ==
    ASSUME ServerOK, ServerReceives
    PROVE  ServerOK' /\ stamped' = stamped
<1>1. CASE egress = server.pending
  BY <1>1 DEF ServerReceives, ServerOK, stamped, NoId
<1>2. CASE egress # server.pending
  BY <1>2 DEF ServerReceives, ServerOK, stamped
<1> QED BY <1>1, <1>2

\* What was issued stays so, and with it everything that holds an id.
LEMMA IssuedGrows ==
    ASSUME OffloadInv, ServerOK', Issued \subseteq Issued',
           UNCHANGED <<core, calling, offload, rx, wire, emitted>>
    PROVE  OffloadInv'
<1>1. \A s \in Slots : InFlight(wire[s])'
  BY DEF OffloadInv, InFlight
<1>2. EgressRoutable'
  BY SMTT(30) DEF OffloadInv, EgressRoutable, Issued, stamped
<1> QED BY <1>1, <1>2, SMTT(30) DEF OffloadInv

\* he_expresslane_decrypt accepts a datagram only under the id it was sealed
\* with, whatever the network wrote into its header.
LEMMA DecryptIssued ==
    ASSUME OffloadInv, NEW s \in Slots, NEW id, decrypt(s, id)
    PROVE  id \in Issued
BY DEF OffloadInv, InFlight, decrypt, build_aad

-----------------------------------------------------------------------------
LEMMA OffloadStep == OffloadInv /\ [OffloadNext]_offload_vars => OffloadInv'
<1> SUFFICES ASSUME OffloadInv, [OffloadNext]_offload_vars PROVE OffloadInv'
  OBVIOUS
<1>0. ServerOK /\ stamped \in Nat \ {0} /\ stamped >= server.sid
  BY StampedType, SMTT(30) DEF OffloadInv
<1>1. CASE Online
  <2>1. server.sid \in Issued
    BY <1>0 DEF Issued, ServerOK
  <2> QED
    BY <1>1, <2>1, Zenon DEF Online, OffloadInv, ServerOK, Issued, stamped, InFlight,
                      EgressRoutable
<1>2. CASE StartRotation
  BY <1>0, <1>2, RotationStarts, IssuedGrows, SMTT(30) DEF StartRotation
<1>3. CASE ServerReceives
  BY <1>0, <1>3, RotationEnds, IssuedGrows DEF ServerReceives, Issued
<1>4. CASE update
  BY <1>4, Zenon DEF update, OffloadInv, ServerOK, Issued, stamped, InFlight,
              EgressRoutable
<1>5. CASE KeysInstalled
  <2>1. offload' \in Issued
    BY <1>5 DEF KeysInstalled, OffloadInv
  <2> QED
    BY <1>5, <2>1, Zenon DEF KeysInstalled, OffloadInv, ServerOK, Issued, stamped,
                      InFlight, EgressRoutable
<1>6. CASE Sends
  <2>1. offload # NoSession /\ emitted' = emitted \cup {offload}
    BY <1>6 DEF Sends, build_expresslane_header, is_reserved, NoSession, Reserved
  <2>2. offload \in Issued
    BY <2>1 DEF OffloadInv
  <2>3. EgressRoutable'
    BY <1>6, <2>1, <2>2, Zenon DEF Sends, OffloadInv, EgressRoutable, Issued, stamped
  <2> QED
    BY <1>6, <2>3, Zenon DEF Sends, OffloadInv, ServerOK, Issued, stamped, InFlight
<1>7. ASSUME NEW s \in Slots, NEW plane \in {"expresslane", "control"},
             ServerSends(s, plane)
      PROVE  OffloadInv'
  <2> DEFINE sent == [plane |-> plane, sid |-> stamped, aad |-> build_aad(stamped),
                      fresh |-> TRUE]
  <2>1. Issued' = Issued
    BY <1>7, Zenon DEF Issued, stamped, ServerSends
  <2>2. InFlight(sent)
    BY <1>0, SMTT(30) DEF InFlight, build_aad, Planes, Issued
  <2>3. wire' = [wire EXCEPT ![s] = sent]
    BY <1>7 DEF ServerSends
  <2> HIDE DEF sent
  <2>4. DOMAIN wire' = Slots /\ \A u \in Slots : InFlight(wire'[u])
    BY <2>2, <2>3, SMTT(30) DEF OffloadInv
  <2>5. \A u \in Slots : InFlight(wire[u])'
    BY <2>1, <2>4 DEF InFlight
  <2> QED
    BY <1>7, <2>1, <2>4, <2>5, Zenon DEF ServerSends, OffloadInv, ServerOK, EgressRoutable
<1>8. ASSUME NEW s \in Slots, NEW d \in arrivals(wire[s]), CoreReceives(s, d)
      PROVE  OffloadInv'
  <2>1. Issued' = Issued
    BY <1>8, Zenon DEF Issued, stamped, CoreReceives
  <2>2. core' \in Issued
    BY <1>8, Zenon DEF CoreReceives, OffloadInv, InFlight
  <2> QED
    BY <1>0, <1>8, <2>1, <2>2, Zenon
    DEF CoreReceives, OffloadInv, ServerOK, InFlight, EgressRoutable
<1>9. ASSUME NEW s \in Slots, NEW d \in arrivals(wire[s]), NEW t \in RxThreads,
             Receives(t, s, d)
      PROVE  OffloadInv'
  <2> DEFINE id == identify_packet(d).session_id
  <2>1. Issued' = Issued
    BY <1>9 DEF Issued, stamped, Receives
  <2>2. id \in Issued
    BY <1>9, DecryptIssued DEF Receives
  <2>3. rx' \in [RxThreads -> {NoId} \cup Issued]
    BY <1>9, <2>2 DEF Receives, OffloadInv
  <2>4. offload' \in Issued
    BY <1>9, Zenon DEF Receives, OffloadInv
  <2>5. wire' = [wire EXCEPT ![s].fresh = FALSE]
    BY <1>9 DEF Receives
  <2>6. DOMAIN wire' = Slots /\ \A u \in Slots : InFlight(wire'[u])
    BY <2>5, Zenon DEF OffloadInv, InFlight
  <2>7. \A u \in Slots : InFlight(wire[u])'
    BY <2>1, <2>6 DEF InFlight
  <2> QED
    BY <1>9, <2>1, <2>3, <2>4, <2>6, <2>7, Zenon
    DEF Receives, OffloadInv, ServerOK, EgressRoutable
<1>10. ASSUME NEW t \in RxThreads, Adopts(t) PROVE OffloadInv'
  <2>1. Issued' = Issued
    BY <1>10 DEF Issued, stamped, Adopts
  <2>2. rx[t] \in Issued /\ rx' \in [RxThreads -> {NoId} \cup Issued]
    BY <1>10 DEF Adopts, OffloadInv
  <2>3. offload' \in Issued
    BY <1>10, <2>2 DEF Adopts
  <2> QED
    BY <1>10, <2>1, <2>2, <2>3
    DEF Adopts, OffloadInv, ServerOK, InFlight, EgressRoutable
<1>11. CASE UNCHANGED offload_vars
  BY <1>11, Zenon DEF offload_vars, OffloadInv, ServerOK, Issued, stamped, InFlight,
              EgressRoutable
<1> QED
  BY <1>1, <1>2, <1>3, <1>4, <1>5, <1>6, <1>7, <1>8, <1>9, <1>10, <1>11, SMTT(30)
  DEF OffloadNext

\* No id is held anywhere in the client that the server has not issued.
THEOREM OffloadInvHolds == OffloadSpec => []OffloadInv
BY OffloadInitInv, OffloadStep, PTL DEF OffloadSpec

\* "a forged header cannot steer egress": every header of
\* he_conn_build_expresslane_header carries an id the server has assigned.
THEOREM EgressRoutableHolds == OffloadSpec => []EgressRoutable
<1>1. OffloadInv => EgressRoutable
  BY DEF OffloadInv
<1> QED BY <1>1, OffloadInvHolds, PTL
=============================================================================
