---------------------------- MODULE ReplayWindow ----------------------------
(***************************************************************************)
(* The anti-replay window of lightway-expresslane                          *)
(* (lightway-expresslane/src/replay_window.rs) as operators on a value of  *)
(* type ReplayWindow.  The receiver keeps one bit per recent counter in a  *)
(* ring of NUM_BLOCKS words of BLOCK_BITS bits; a counter always maps to   *)
(* the same slot, so slots are reused every WINDOW_SIZE counters.          *)
(*                                                                         *)
(* A word is the set of the positions of its set bits.  The code's masks   *)
(* `& RING_MASK' and `& BIT_MASK' are written as remainders: NUM_BLOCKS    *)
(* is asserted to be a power of two at compile time and BLOCK_BITS is 64.  *)
(***************************************************************************)
EXTENDS Integers, FiniteSets

CONSTANTS NUM_BLOCKS, \* words in the ring          (128 in the code)
          BLOCK_BITS  \* bits in one word           ( 64 in the code)

ASSUME GeometryAssumption == /\ NUM_BLOCKS \in Nat \ {0}
                             /\ BLOCK_BITS \in Nat \ {0}

WINDOW_SIZE == NUM_BLOCKS * BLOCK_BITS
Blocks == 0 .. NUM_BLOCKS - 1
Bits == 0 .. BLOCK_BITS - 1

Bitmap == [Blocks -> SUBSET Bits]

Window == [max_counter : Nat, bitmap : Bitmap,
           packets_received : Nat, initialized : BOOLEAN]

zero_bitmap == [i \in Blocks |-> {}]

default_window == [max_counter |-> 0, bitmap |-> zero_bitmap,
                   packets_received |-> 0, initialized |-> FALSE]

-----------------------------------------------------------------------------
(* Slot arithmetic                                                         *)

\* The word of the ring that holds the counter's bit.
ring_index(counter) == (counter \div BLOCK_BITS) % NUM_BLOCKS

\* The position of the counter's bit in that word.
bit_of(counter) == counter % BLOCK_BITS

\* Fault: the mask stops one bit short.
mask_between_exclusive(lo, hi) == lo .. hi - 1

mask_between(lo, hi) == lo .. hi

\* The bit test `bitmap[ring_index(c)] & bit_of(c) != 0'.
bit_is_set(bitmap, counter) == bit_of(counter) \in bitmap[ring_index(counter)]

\* The assignment `bitmap[ring_index(c)] |= bit_of(c)'.
set_bit(bitmap, counter) ==
    [bitmap EXCEPT ![ring_index(counter)] = @ \cup {bit_of(counter)}]

\* The assignment `bitmap[word] &= !mask'.
clear_mask(bitmap, word, mask) == [bitmap EXCEPT ![word] = @ \ mask]

-----------------------------------------------------------------------------
(* clear_range: the slots of the counters lo..hi are cleared, whole words  *)
(* at a time between the two ends.                                         *)

\* Fault: only the two end words are cleared.
clear_range_ends_only(bitmap, lo, hi) ==
    LET low_end == clear_mask(bitmap, ring_index(lo),
                              mask_between(bit_of(lo), BLOCK_BITS - 1))
    IN  IF lo \div BLOCK_BITS = hi \div BLOCK_BITS
        THEN clear_mask(bitmap, ring_index(lo),
                        mask_between(bit_of(lo), bit_of(hi)))
        ELSE clear_mask(low_end, ring_index(hi), mask_between(0, bit_of(hi)))

clear_range(bitmap, lo, hi) ==
    LET lo_word == lo \div BLOCK_BITS
        hi_word == hi \div BLOCK_BITS
        low_end == clear_mask(bitmap, ring_index(lo),
                              mask_between(bit_of(lo), BLOCK_BITS - 1))
        inner   == [i \in Blocks |->
                      IF \E word \in (lo_word + 1) .. (hi_word - 1) :
                            word % NUM_BLOCKS = i
                      THEN {} ELSE low_end[i]]
    IN  IF lo_word = hi_word
        THEN clear_mask(bitmap, ring_index(lo),
                        mask_between(bit_of(lo), bit_of(hi)))
        ELSE clear_mask(inner, ring_index(hi), mask_between(0, bit_of(hi)))

-----------------------------------------------------------------------------
(* The two operations.  commit returns the code's Boolean and the window   *)
(* it leaves behind.                                                       *)

\* Fault: the pre-check looks at the age only.
would_reject_age_only(w, wire_counter) ==
    /\ w.initialized
    /\ wire_counter <= w.max_counter
    /\ w.max_counter - wire_counter >= WINDOW_SIZE

would_reject(w, wire_counter) ==
    /\ w.initialized
    /\ wire_counter <= w.max_counter
    /\ \/ w.max_counter - wire_counter >= WINDOW_SIZE
       \/ bit_is_set(w.bitmap, wire_counter)

\* The bitmap after the window has been slid forward to wire_counter, before
\* the counter's own bit is set.
slide(w, wire_counter) ==
    LET diff == wire_counter - w.max_counter
    IN  IF diff >= WINDOW_SIZE THEN zero_bitmap
        ELSE IF diff > 1
             THEN clear_range(w.bitmap, w.max_counter + 1, wire_counter - 1)
        ELSE w.bitmap

accept(w, wire_counter, max, bitmap) ==
    [ok |-> TRUE,
     window |-> [max_counter |-> max,
                 bitmap |-> set_bit(bitmap, wire_counter),
                 packets_received |-> w.packets_received + 1,
                 initialized |-> TRUE]]

refuse(w) == [ok |-> FALSE, window |-> w]

\* Faults: an in-window packet is accepted without a look at its bit; a packet
\* older than the window is judged by a bit it no longer owns.
commit_untested(w, wire_counter) ==
    IF w.initialized /\ w.max_counter - wire_counter >= WINDOW_SIZE THEN refuse(w)
    ELSE IF wire_counter > w.max_counter
         THEN accept(w, wire_counter, wire_counter, slide(w, wire_counter))
    ELSE accept(w, wire_counter, w.max_counter, w.bitmap)

commit_ageless(w, wire_counter) ==
    IF ~w.initialized \/ wire_counter > w.max_counter
    THEN accept(w, wire_counter, wire_counter, slide(w, wire_counter))
    ELSE IF bit_is_set(w.bitmap, wire_counter) THEN refuse(w)
    ELSE accept(w, wire_counter, w.max_counter, w.bitmap)

commit(w, wire_counter) ==
    IF ~w.initialized THEN accept(w, wire_counter, wire_counter, zero_bitmap)
    ELSE IF wire_counter > w.max_counter
         THEN accept(w, wire_counter, wire_counter, slide(w, wire_counter))
    ELSE IF w.max_counter - wire_counter >= WINDOW_SIZE THEN refuse(w)
    ELSE IF bit_is_set(w.bitmap, wire_counter) THEN refuse(w)
    ELSE accept(w, wire_counter, w.max_counter, w.bitmap)

-----------------------------------------------------------------------------
(* The meaning of a window: which set of accepted counters it stands for.  *)

\* Every counter still in the window has its bit set exactly if it was
\* accepted (the RING ALIASING INVARIANT of replay_window.rs).
ExactBits(w, taken) ==
    w.initialized =>
        \A c \in 0 .. w.max_counter :
            w.max_counter - c < WINDOW_SIZE
                => (bit_is_set(w.bitmap, c) <=> c \in taken)

\* max_counter is the highest accepted counter, once there is one.
ExactMaximum(w, taken) ==
    /\ w.initialized <=> taken # {}
    /\ w.initialized => /\ w.max_counter \in taken
                        /\ \A c \in taken : c <= w.max_counter

Represents(w, taken) ==
    /\ w \in Window
    /\ taken \subseteq Nat /\ IsFiniteSet(taken)
    /\ w.packets_received = Cardinality(taken)
    /\ ExactMaximum(w, taken)
    /\ ExactBits(w, taken)

\* The counters a replay filter should accept after `taken'.
FreshAfter(taken, c) == c \notin taken /\ \A d \in taken : d - c < WINDOW_SIZE
=============================================================================
