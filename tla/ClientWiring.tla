---------------------------- MODULE ClientWiring ----------------------------
(***************************************************************************)
(* What a connection is built from (src/lib.rs, src/cffi_*.rs).  The       *)
(* setters store callbacks and settings in he_ssl_ctx_t and he_conn_t;     *)
(* he_client_connect copies them into the adapters it hands to the core,   *)
(* each with the context pointer of the moment.  The core's callbacks go   *)
(* through the adapters; the state changes the shim itself synthesises     *)
(* read the fields as they are by then.                                    *)
(*                                                                         *)
(* A callback is the number of its registration, a context pointer a small *)
(* number.  The setters take no lock and may be called at any time; the    *)
(* README asks for them before he_client_connect.                          *)
(***************************************************************************)
EXTENDS Integers

CONSTANTS Callbacks,  \* the callbacks of he_ssl_ctx_t that are looked at
          Versions,   \* what each may be registered as
          Contexts,   \* the context pointers
          MaxSettings \* bound on the setter calls of a behaviour

ASSUME WiringAssumption == {"state_change_cb", "outside_write_cb",
                            "nudge_time_cb"} \subseteq Callbacks

VARIABLES ssl_ctx,    \* he_ssl_ctx_t
          conn,       \* he_conn_t
          wired,      \* the Connection: its adapters and transport
          fired,      \* history: the callbacks the last call has invoked
          settings,   \* history: setter calls made
          touched     \* history: a setter was called since the last connect

wiring_vars == <<ssl_ctx, conn, wired, fired, settings, touched>>

Unset == 0
Datagram == 0
Stream == 1

\* The callbacks of the server role and of PMTUD, stored and never invoked,
\* and those only wired when ExpressLane is enabled.
unused_cbs == {"server_config_cb", "auth_cb", "auth_token_cb", "auth_buf_cb",
               "populate_network_config_ipv4_cb", "pmtud_state_change_cb",
               "pmtud_time_cb"}
expresslane_cbs == {"expresslane_cb", "expresslane_metrics_cb"}
io_cbs == {"outside_write_cb", "inside_write_cb"}

NotWired == [adapters |-> <<>>, type |-> Datagram]
is_wired == wired # NotWired

\* he_ssl_ctx_t::default and he_conn_t::default.
default_ssl_ctx == [cb |-> [c \in Callbacks |-> Unset],
                    enable_expresslane |-> FALSE, connection_type |-> Datagram]

null == 0

default_conn == [context |-> null, state |-> "NONE"]

WiringInit ==
    /\ ssl_ctx = default_ssl_ctx /\ conn = default_conn
    /\ wired = NotWired
    /\ fired = {} /\ settings = 0 /\ touched = FALSE

-----------------------------------------------------------------------------
(* The setters                                                             *)

Setting == /\ settings < MaxSettings
           /\ settings' = settings + 1
           /\ touched' = TRUE
           /\ fired' = {}
           /\ UNCHANGED wired

set_cb(c, v) == /\ ssl_ctx' = [ssl_ctx EXCEPT !.cb[c] = v]
                /\ UNCHANGED conn

\* The callbacks of the data path, of the network configuration and of the
\* state: he_ssl_ctx_set_state_change_cb and its neighbours.
set_io_cb(c, v) ==
    /\ c \in io_cbs \cup {"state_change_cb", "network_config_ipv4_cb"}
    /\ set_cb(c, v)

set_event_cb(c, v) == c \in {"nudge_time_cb", "event_cb"} /\ set_cb(c, v)

set_unused_cb(c, v) == c \in unused_cbs /\ set_cb(c, v)

set_expresslane_cb(c, v) ==
    /\ c \in expresslane_cbs \cup {"expresslane_state_change_cb"}
    /\ set_cb(c, v)

\* Any integer; one that is no transport is refused with HE_ERR_BAD_PARAM.
set_connection_type(n) ==
    /\ ssl_ctx' = IF n \in {Datagram, Stream}
                  THEN [ssl_ctx EXCEPT !.connection_type = n] ELSE ssl_ctx
    /\ UNCHANGED conn

set_enable_expresslane(enable) ==
    /\ ssl_ctx' = [ssl_ctx EXCEPT !.enable_expresslane = enable]
    /\ UNCHANGED conn

set_context(context) == /\ conn' = [conn EXCEPT !.context = context]
                        /\ UNCHANGED ssl_ctx

Configure ==
    /\ Setting
    /\ \/ \E c \in Callbacks, v \in Versions :
              \/ set_io_cb(c, v) \/ set_event_cb(c, v)
              \/ set_unused_cb(c, v) \/ set_expresslane_cb(c, v)
       \/ \E n \in {Datagram, Stream, 2} : set_connection_type(n)
       \/ \E enable \in BOOLEAN : set_enable_expresslane(enable)
       \/ \E context \in Contexts : set_context(context)

-----------------------------------------------------------------------------
(* Callbacks                                                               *)

\* Callback c is invoked as version v, with a context, unless unregistered.
Invoke(c, v, context) ==
    IF v = Unset THEN {} ELSE {[cb |-> c, version |-> v, context |-> context]}

\* The core invokes callback c through its adapter.
Through(adapters, c) == Invoke(c, adapters[c].version, adapters[c].context)

\* The shim invokes the state change callback as it is registered now.
synthesised == Invoke("state_change_cb", ssl_ctx.cb["state_change_cb"],
                      conn.context)

\* Fault: the app state is left with the null context of its default.
adapter_without_context(c) ==
    [version |-> ssl_ctx.cb[c],
     context |-> IF c = "nudge_time_cb" THEN null ELSE conn.context]

\* The adapter of a callback.  Keys and metrics are wired only if enabled.
adapter(c) ==
    [version |-> IF \/ c \in unused_cbs
                    \/ c \in expresslane_cbs /\ ~ssl_ctx.enable_expresslane
                 THEN Unset ELSE ssl_ctx.cb[c],
     context |-> conn.context]

-----------------------------------------------------------------------------
(* The life of a connection                                                *)

\* he_client_connect, its checks of the credentials and the certificate passed
\* (ClientConfig).  While it starts, the core writes and asks for a tick.
\* CONNECTING is synthesised unless it is the state already.
he_client_connect ==
    /\ ~is_wired
    /\ ssl_ctx.cb["outside_write_cb"] # Unset
    /\ LET adapters == [c \in Callbacks |-> adapter(c)]
       IN  /\ wired' = [adapters |-> adapters,
                        type |-> ssl_ctx.connection_type]
           /\ fired' = Through(adapters, "outside_write_cb")
                         \cup Through(adapters, "nudge_time_cb")
                         \cup (IF conn.state = "CONNECTING" THEN {}
                                                            ELSE synthesised)
    /\ conn' = [conn EXCEPT !.state = "CONNECTING"]
    /\ touched' = FALSE
    /\ UNCHANGED <<ssl_ctx, settings>>

\* A call into the core invokes callback c, and nothing else is to be seen.
Reports(c) ==
    /\ is_wired
    /\ c \in Callbacks
    /\ fired' = Through(wired.adapters, c)
    /\ UNCHANGED <<ssl_ctx, conn, wired, settings, touched>>

\* CffiEventCallback::event: a state is cached, then passed on; two kinds of
\* event have callbacks of their own.
StateChanged(s) ==
    /\ is_wired
    /\ conn.state # "DISCONNECTED" /\ conn.state # s
    /\ fired' = Through(wired.adapters, "state_change_cb")
    /\ conn' = [conn EXCEPT !.state = s]
    /\ UNCHANGED <<ssl_ctx, wired, settings, touched>>

fire_event == Reports("event_cb")

ExpresslaneStateChanged == Reports("expresslane_state_change_cb")

\* CffiIpConfig::ip_config.
ip_config == Reports("network_config_ipv4_cb")

\* CffiExpresslaneCb::update and CffiExpresslaneMetrics::get_stats.
expresslane_update == Reports("expresslane_cb")

expresslane_get_stats == Reports("expresslane_metrics_cb")

\* cffi_schedule_tick_cb.
schedule_tick == Reports("nudge_time_cb")

\* CffiOutsideIO::send and CffiInsideIO::send: a code other than HE_SUCCESS is
\* an I/O error to the core.
io_result(code) == IF code = "HE_SUCCESS" THEN "none" ELSE "io"

\* ConnectionError::is_fatal: on a stream nothing can be skipped.
is_fatal(error, type) == \/ error = "fatal"
                         \/ error # "none" /\ type = Stream

\* The DISCONNECTED of fatal_disconnect, unless the core was first.
end_fired == IF conn.state = "DISCONNECTED" THEN {} ELSE synthesised

\* he_conn_outside_data_received: the packet is refused by the core, or it
\* makes the core write, and the host's callback returns a code.
he_conn_outside_data_received(error, written) ==
    /\ is_wired
    /\ LET fatal == is_fatal(error, wired.type)
       IN  /\ fired' = written \cup (IF fatal THEN end_fired ELSE {})
           /\ conn' = IF fatal THEN [conn EXCEPT !.state = "DISCONNECTED"] ELSE conn
           /\ wired' = IF fatal THEN NotWired ELSE wired
    /\ UNCHANGED <<ssl_ctx, settings, touched>>

OutsideData ==
    \/ \E error \in {"packet", "fatal"} : he_conn_outside_data_received(error, {})
    \/ \E c \in io_cbs \cap Callbacks, code \in {"HE_SUCCESS", "HE_ERR_FAILED"} :
          /\ is_wired
          /\ wired.adapters[c].version # Unset
          /\ he_conn_outside_data_received(io_result(code),
                                           Through(wired.adapters, c))

\* he_client_disconnect: once ONLINE the core reports the end, before that it
\* is synthesised; a client without a connection is told as well.
he_client_disconnect ==
    /\ fired' = IF is_wired /\ conn.state = "ONLINE"
                THEN Through(wired.adapters, "state_change_cb")
                ELSE end_fired
    /\ conn' = [conn EXCEPT !.state = "DISCONNECTED"]
    /\ wired' = NotWired
    /\ UNCHANGED <<ssl_ctx, settings, touched>>

WiringNext ==
    \/ Configure \/ he_client_connect \/ OutsideData \/ he_client_disconnect
    \/ \E s \in {"ONLINE", "DISCONNECTED"} : StateChanged(s)
    \/ fire_event \/ ExpresslaneStateChanged \/ ip_config
    \/ expresslane_update \/ expresslane_get_stats \/ schedule_tick

WiringSpec == WiringInit /\ [][WiringNext]_wiring_vars

-----------------------------------------------------------------------------
\* he_conn_set_context: the context "is passed back to all callbacks".  When
\* the client is configured before it connects, and no setter is called on the
\* live connection, every callback of a connection, through an adapter or
\* synthesised, the last DISCONNECTED included, is the one registered for it
\* and gets the context set for it, also after the client was configured anew
\* between two connections.
OneListener ==
    ~touched => \A f \in fired : /\ f.version = ssl_ctx.cb[f.cb]
                                 /\ f.context = conn.context
=============================================================================
