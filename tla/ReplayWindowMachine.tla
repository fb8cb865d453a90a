------------------------ MODULE ReplayWindowMachine ------------------------
(***************************************************************************)
(* A replay window driven by authenticated packets, in any order and with  *)
(* any repetitions: one step is one call of ReplayWindow::commit.          *)
(* `accepted' is a history variable, the counters for which commit         *)
(* returned true.                                                          *)
(***************************************************************************)
EXTENDS ReplayWindow

CONSTANT Counters \* the wire counters that packets carry

ASSUME CountersAssumption == Counters \subseteq Nat

VARIABLES window, accepted

vars == <<window, accepted>>

Init == /\ window = default_window
        /\ accepted = {}

Commit(c) ==
    LET result == commit(window, c)
    IN  /\ window' = result.window
        /\ accepted' = IF result.ok THEN accepted \cup {c} ELSE accepted

Next == \E c \in Counters : Commit(c)

Spec == Init /\ [][Next]_vars

-----------------------------------------------------------------------------
\* The window is a value of the Rust struct.
TypeOK == window \in Window /\ accepted \in SUBSET Counters

\* The RING ALIASING INVARIANT of replay_window.rs: for every counter still in
\* the window, the bit of its slot says exactly whether that counter was
\* accepted, although counters WINDOW_SIZE apart share a slot and clear_range
\* clears whole words.
RingAliasing == ExactBits(window, accepted)

\* No counter is accepted twice: the number of packets commit accepted is the
\* number of distinct counters among them.
NoReplay == window.packets_received = Cardinality(accepted)

\* The window implements the abstract replay filter: every step that accepts
\* a packet accepts a counter that is neither a repeat nor too old.
Abstract == INSTANCE SlidingWindow WITH
                WINDOW <- WINDOW_SIZE,
                taken <- accepted,
                received <- window.packets_received

ImplementsSlidingWindow == Abstract!Spec

\* The two entry points decide every counter alike, and as the abstract filter
\* does: would_reject refuses nothing that is fresh and lets nothing through
\* that commit would refuse.  session.rs rests its refused-commit branch
\* ("UNREACHABLE BY CONSTRUCTION") on this.
PrecheckDecides ==
    \A c \in Counters :
        /\ would_reject(window, c) <=> ~commit(window, c).ok
        /\ would_reject(window, c) <=> ~Abstract!Fresh(c)

\* The inductive invariant behind the three properties above: the window
\* stands for exactly the set of counters accepted so far.
Inv == Represents(window, accepted) /\ accepted \subseteq Counters
=============================================================================
