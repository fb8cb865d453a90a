--------------------------- MODULE ReferenceWindow ---------------------------
(***************************************************************************)
(* The age-indexed window that replay_window.rs keeps in its tests as the  *)
(* oracle of its differential tests (mod reference): bit a of the bitmap   *)
(* belongs to the counter max_counter - a, and a new maximum shifts the    *)
(* whole bitmap.  Operators carry the prefix ref_.                         *)
(***************************************************************************)
EXTENDS ReplayWindow

\* One word shifted by n bits, 0 < n < BLOCK_BITS; bits pushed out are lost.
shl(word, n) == {b \in Bits : b - n \in word}
shr(word, n) == {b \in Bits : b + n \in word}

ref_test_bit(bitmap, position) ==
    LET block == position \div BLOCK_BITS
    IN  block < NUM_BLOCKS /\ position % BLOCK_BITS \in bitmap[block]

ref_set_bit(bitmap, position) ==
    LET block == position \div BLOCK_BITS
    IN  IF block < NUM_BLOCKS
        THEN [bitmap EXCEPT ![block] = @ \cup {position % BLOCK_BITS}]
        ELSE bitmap

\* The loops run from the last word down, so every read sees the old bitmap.
ref_shift_left(bitmap, count) ==
    LET block_shift == count \div BLOCK_BITS
        bit_shift   == count % BLOCK_BITS
        old(i)      == IF i >= 0 THEN bitmap[i] ELSE {}
        lower(i)    == shl(old(i - block_shift), bit_shift)
        upper(i)    == shr(old(i - block_shift - 1), BLOCK_BITS - bit_shift)
    IN  IF count >= WINDOW_SIZE THEN zero_bitmap
        ELSE IF bit_shift = 0 THEN [i \in Blocks |-> old(i - block_shift)]
        ELSE [i \in Blocks |-> lower(i) \cup upper(i)]

ref_would_reject(w, wire_counter) ==
    /\ w.initialized
    /\ wire_counter <= w.max_counter
    /\ LET age == w.max_counter - wire_counter
       IN  age >= WINDOW_SIZE \/ ref_test_bit(w.bitmap, age)

ref_commit(w, wire_counter) ==
    LET take(max, bitmap) ==
            [ok |-> TRUE,
             window |-> [max_counter |-> max, bitmap |-> bitmap,
                         packets_received |-> w.packets_received + 1,
                         initialized |-> TRUE]]
        diff == wire_counter - w.max_counter
        age  == w.max_counter - wire_counter
    IN  IF ~w.initialized
        THEN take(wire_counter, [w.bitmap EXCEPT ![0] = {0}])
        ELSE IF diff > 0
             THEN take(wire_counter,
                       [ref_shift_left(w.bitmap, diff) EXCEPT ![0] = @ \cup {0}])
        ELSE IF age < WINDOW_SIZE /\ ~ref_test_bit(w.bitmap, age)
             THEN take(w.max_counter, ref_set_bit(w.bitmap, age))
        ELSE refuse(w)
=============================================================================
