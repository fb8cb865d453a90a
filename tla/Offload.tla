------------------------------- MODULE Offload -------------------------------
(***************************************************************************)
(* The framing of an ExpressLane data plane offload (src/lib.rs,           *)
(* src/cffi_expresslane.rs): he_conn_identify_packet tells the datagrams   *)
(* of the fast path from those of the control channel, and                 *)
(* he_conn_build_expresslane_header frames what the offload sends.  The    *)
(* server may rotate the session id of the header; the new id reaches the  *)
(* offload on fast path traffic and lightway-core on control traffic, each *)
(* in its own time, and the rotation is over once the server has heard the *)
(* new id back.                                                            *)
(*                                                                         *)
(* The server, the network, the core and the host are external.  The host  *)
(* does what the documentation of the two calls asks of it: it takes the   *)
(* first id from the key callback and adopts another one only after        *)
(* he_expresslane_decrypt has succeeded under it.  A datagram is in flight *)
(* in a slot of the network until another takes its place.                 *)
(***************************************************************************)
EXTENDS Integers

CONSTANTS Slots,     \* datagrams in flight to the client
          RxThreads, \* threads of the offload that receive
          MaxSession \* bound on the session ids the server assigns

\* Session ids: 0 is a reserved one, Foreign one the server never assigned.
Reserved == 0
Assigned == 1 .. MaxSession
Foreign == MaxSession + 1

VARIABLES core,       \* the client's Connection: its session_id(), or NoId
          calling,    \* the core is in the key callback, the lock held
          offload,    \* the host's session: the id of its egress; or NoSession
          rx,         \* per thread: the id its decrypt succeeded under, if the
                      \* thread has yet to adopt it
          wire,       \* per slot: the datagram in flight to the client
          egress,     \* the header in flight to the server
          server,     \* the id the server knows the client by, and the one it
                      \* is rotating to
          emitted     \* history: the ids of the headers sent

offload_vars == <<core, calling, offload, rx, wire, egress, server, emitted>>

NoId == -1
NoSession == Reserved
Nothing == [plane |-> "none", sid |-> Reserved, aad |-> Reserved, fresh |-> FALSE]

OffloadInit ==
    /\ core = NoId /\ calling = FALSE /\ offload = NoSession
    /\ rx = [t \in RxThreads |-> NoId]
    /\ wire = [s \in Slots |-> Nothing]
    /\ egress = NoId
    /\ server = [sid |-> 1, pending |-> NoId]
    /\ emitted = {}

-----------------------------------------------------------------------------
(* The server and the network                                              *)

\* A connection comes online with the id the server has assigned.
Online == /\ core = NoId
          /\ core' = server.sid
          /\ UNCHANGED <<calling, offload, rx, wire, egress, server, emitted>>

StartRotation == /\ core # NoId
                 /\ server.pending = NoId /\ server.sid < MaxSession
                 /\ server' = [server EXCEPT !.pending = server.sid + 1]
                 /\ UNCHANGED <<core, calling, offload, rx, wire, egress,
                                emitted>>

\* The id the server stamps on what it sends.
stamped == IF server.pending = NoId THEN server.sid ELSE server.pending

\* Fault: the associated data leave the session id out.
build_aad_without_session(session_id) == Reserved

\* The associated data of a packet begin with its session id.
build_aad(session_id) == session_id

\* A datagram of the fast path takes the place of another, which is lost.  The
\* server has its keys, so the client's are on their way.
ServerSends(s, plane) ==
    /\ core # NoId
    /\ wire' = [wire EXCEPT ![s] = [plane |-> plane, sid |-> stamped,
                                    aad |-> build_aad(stamped), fresh |-> TRUE]]
    /\ UNCHANGED <<core, calling, offload, rx, egress, server, emitted>>

\* A header with the pending id completes the rotation.
ServerReceives ==
    /\ egress # NoId
    /\ egress' = NoId
    /\ server' = IF egress = server.pending
                 THEN [sid |-> server.pending, pending |-> NoId] ELSE server
    /\ UNCHANGED <<core, calling, offload, rx, wire, emitted>>

\* What the client gets to see of a datagram, and what else the network may
\* make of it: its id is altered, the bit that tells the planes apart flipped,
\* its magic spoilt, or it is cut short.
intact(d) == [form |-> "whole", plane |-> d.plane, sid |-> d.sid]

arrivals(d) ==
    {[intact(d) EXCEPT !.sid = sid] : sid \in Assigned \cup {Foreign, Reserved}}
    \cup {[intact(d) EXCEPT !.plane = plane] : plane \in {"expresslane", "control"}}
    \cup {[intact(d) EXCEPT !.form = form] : form \in {"alien", "short"}}

-----------------------------------------------------------------------------
(* The calls of the shim                                                   *)

\* he_conn_identify_packet: the out-params are defaulted, and written from the
\* header if there is a whole one that parses.
identify_packet(d) ==
    IF d.form = "short" \/ d.form = "alien"
    THEN [kind |-> "UNDECIDABLE", session_id |-> Reserved, header_len |-> 0]
    ELSE [kind |-> IF d.plane = "expresslane" THEN "EXPRESSLANE" ELSE "CONTROL",
          session_id |-> d.sid, header_len |-> 16]

is_reserved(session_id) == session_id = Reserved

\* Fault: the header carries the connection's own session_id().
build_expresslane_header_of_core(session_id, reentrant) ==
    IF is_reserved(session_id) \/ core = NoId \/ reentrant
    THEN NoId ELSE core

\* he_conn_build_expresslane_header: the id in the header, or NoId when the
\* call is refused with HE_ERR_BAD_PARAM or HE_ERR_INVALID_CONN_STATE.
build_expresslane_header(session_id, reentrant) ==
    IF is_reserved(session_id) \/ core = NoId \/ reentrant
    THEN NoId ELSE session_id

-----------------------------------------------------------------------------
(* The core and the host                                                   *)

\* CffiExpresslaneCb::update: the core hands over its keys and its session id.
update == /\ core # NoId /\ ~calling
          /\ calling' = TRUE
          /\ UNCHANGED <<core, offload, rx, wire, egress, server, emitted>>

\* The host installs the keys; only the first delivery brings an id.
KeysInstalled ==
    /\ calling
    /\ calling' = FALSE
    /\ offload' = IF offload = NoSession
                  THEN core ELSE offload
    /\ UNCHANGED <<core, rx, wire, egress, server, emitted>>

\* he_conn_outside_data_received with a control datagram that is authentic: the
\* core applies the id of the packet.
CoreReceives(s, d) ==
    /\ ~calling
    /\ wire[s].plane = "control"
    /\ identify_packet(d).kind = "CONTROL"
    /\ d.sid = wire[s].sid
    /\ core' = d.sid
    /\ UNCHANGED <<calling, offload, rx, wire, egress, server, emitted>>

\* he_expresslane_decrypt under the id of the header: a replay is refused, and
\* so is a packet sealed for another plane or under another id.
decrypt(s, session_id) ==
    /\ wire[s].plane = "expresslane"
    /\ wire[s].fresh
    /\ wire[s].aad = build_aad(session_id)

\* A thread of the offload receives a datagram that decrypts.
Receives(t, s, d) ==
    LET found == identify_packet(d)
    IN  /\ rx[t] = NoId /\ offload # NoSession
        /\ found.kind = "EXPRESSLANE"
        /\ decrypt(s, found.session_id)
        /\ wire' = [wire EXCEPT ![s].fresh = FALSE]
        /\ rx' = [rx EXCEPT ![t] = found.session_id]
        /\ UNCHANGED <<core, calling, offload, egress, server, emitted>>

\* ... and then adopts its id, unless another thread has been faster.
Adopts(t) == /\ rx[t] # NoId
             /\ offload' = rx[t]
             /\ rx' = [rx EXCEPT ![t] = NoId]
             /\ UNCHANGED <<core, calling, wire, egress, server, emitted>>

\* The host frames a packet and sends it; the header in flight before it is
\* lost.  From inside the key callback the call is refused, from elsewhere it
\* waits for the callback to return.
Sends ==
    LET header == build_expresslane_header(offload, calling)
    IN  /\ header # NoId
        /\ egress' = header
        /\ emitted' = emitted \cup {header}
        /\ UNCHANGED <<core, calling, offload, rx, wire, server>>

OffloadNext ==
    \/ Online \/ StartRotation \/ ServerReceives
    \/ update \/ KeysInstalled \/ Sends
    \/ \E s \in Slots :
          \/ \E plane \in {"expresslane", "control"} : ServerSends(s, plane)
          \/ \E d \in arrivals(wire[s]) :
                \/ CoreReceives(s, d)
                \/ \E t \in RxThreads : Receives(t, s, d)
    \/ \E t \in RxThreads : Adopts(t)

\* Fast path traffic flows both ways: the server goes on sending, a fresh
\* datagram gets through again and again, and the host goes on sending.
\* Nothing is assumed of the control channel.
OffloadFairness ==
    /\ WF_offload_vars(Online) /\ WF_offload_vars(update)
    /\ WF_offload_vars(KeysInstalled)
    /\ WF_offload_vars(\E s \in Slots : ServerSends(s, "expresslane"))
    /\ SF_offload_vars(\E t \in RxThreads, s \in Slots :
                           Receives(t, s, intact(wire[s])))
    /\ \A t \in RxThreads : WF_offload_vars(Adopts(t))
    /\ SF_offload_vars(Sends)
    /\ WF_offload_vars(ServerReceives)

OffloadSpec == OffloadInit /\ [][OffloadNext]_offload_vars /\ OffloadFairness

-----------------------------------------------------------------------------
\* "a forged header cannot steer egress": every header the client emits
\* carries an id that the server has assigned to it, whatever the network did
\* to the headers received, and however threads that receive overlap.
EgressRoutable ==
    emitted \subseteq 1 .. (IF server.pending = NoId THEN server.sid
                                                     ELSE server.pending)

\* he_conn_build_expresslane_header takes the id from the caller because with
\* the connection's own "the rotation would never complete": as long as fast
\* path traffic flows it completes, without help of the control channel, and
\* although late packets of the old id are adopted as well.
RotationCompletes ==
    \A id \in Assigned \ {1} : server.pending = id ~> server.sid = id
=============================================================================
