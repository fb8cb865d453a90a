-------------------------------- MODULE Ticks --------------------------------
(***************************************************************************)
(* CffiAppState (src/cffi_state.rs): the ticks the core has asked for and  *)
(* the timeout the host is told.  A deadline is the time left until it, in *)
(* units of which UnitsPerMs make a millisecond; 0 is due or overdue.      *)
(***************************************************************************)
EXTENDS Integers, FiniteSetsExt, Functions

CONSTANTS PayloadTicks, \* the payload ticks, by what they retransmit
          UnitsPerMs,
          MaxTimeoutMs  \* i32::MAX

ASSUME TicksAssumption == /\ UnitsPerMs \in Nat \ {0}
                          /\ MaxTimeoutMs \in Nat \ {0}
                          /\ "ConnectionTick" \notin PayloadTicks

None == -1

\* CffiAppState::default().  The list of pending ticks is a function: a tick
\* is only rescheduled after its predecessor was consumed.
app_state == [next_tick |-> None,
              pending_ticks |-> [k \in PayloadTicks |-> None]]

deadlines(app) == ({app.next_tick} \cup Range(app.pending_ticks)) \ {None}

earliest_tick_deadline(app) ==
    IF deadlines(app) = {} THEN None ELSE Min(deadlines(app))

\* Rounded up to the millisecond and capped.
duration_to_timeout_ms(d) ==
    Min({(d + UnitsPerMs - 1) \div UnitsPerMs, MaxTimeoutMs})

\* Never 0, which tells the host that there is no timer.
deadline_to_timeout_ms(d) == Max({duration_to_timeout_ms(d), 1})

nudge_ms_until(d) == IF d = None THEN 0 ELSE deadline_to_timeout_ms(d)

\* cffi_schedule_tick_cb, the deadlines: ConnectionTicks merge into the
\* earliest, the others are kept as they are.
record_tick(app, tick, d) ==
    IF tick = "ConnectionTick"
    THEN [app EXCEPT !.next_tick = IF @ = None THEN d ELSE Min({@, d})]
    ELSE [app EXCEPT !.pending_ticks[tick] = d]

\* Fault: the host is told the delay of the tick just scheduled.
notified_timeout_of_last(app, d) == UnitsPerMs * deadline_to_timeout_ms(d)

\* cffi_schedule_tick_cb, the callback: the time left on the one timer of the
\* host once it has been told the timeout, after tick d was recorded in app.
notified_timeout(app, d) ==
    UnitsPerMs * deadline_to_timeout_ms(earliest_tick_deadline(app))

\* One unit of time passes.
sooner(d) == IF d > 0 THEN d - 1 ELSE d

elapsed(app) == [next_tick |-> sooner(app.next_tick),
                 pending_ticks |->
                    [k \in PayloadTicks |-> sooner(app.pending_ticks[k])]]
=============================================================================
