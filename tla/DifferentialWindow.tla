------------------------- MODULE DifferentialWindow -------------------------
(***************************************************************************)
(* The shipping window and the test module's reference window fed the same *)
(* counters in lock step, as the differential tests of replay_window.rs    *)
(* do with random ones.                                                    *)
(***************************************************************************)
EXTENDS ReplayWindowMachine, ReferenceWindow

VARIABLES reference, verdicts

differential_vars == <<vars, reference, verdicts>>

DifferentialInit == Init /\ reference = default_window /\ verdicts = <<TRUE, TRUE>>

CommitBoth(c) ==
    LET old == ref_commit(reference, c)
    IN  /\ Commit(c)
        /\ reference' = old.window
        /\ verdicts' = <<commit(window, c).ok, old.ok>>

DifferentialNext == \E c \in Counters : CommitBoth(c)

DifferentialSpec == DifferentialInit /\ [][DifferentialNext]_differential_vars

\* The two windows return the same verdict for every packet of every sequence,
\* count the same packets and refuse the same counters beforehand, and each
\* in-window counter has the same bit in both although one ring-indexes it by
\* value and the other by age.
SameWindow ==
    /\ verdicts[1] = verdicts[2]
    /\ window.max_counter = reference.max_counter
    /\ window.packets_received = reference.packets_received
    /\ \A c \in Counters :
          would_reject(window, c) <=> ref_would_reject(reference, c)
    /\ window.initialized =>
          \A age \in 0 .. WINDOW_SIZE - 1 :
              age <= window.max_counter =>
                 (bit_is_set(window.bitmap, window.max_counter - age)
                    <=> ref_test_bit(reference.bitmap, age))
=============================================================================
