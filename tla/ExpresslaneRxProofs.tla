------------------------- MODULE ExpresslaneRxProofs -------------------------
(***************************************************************************)
(* The replay window, and the receiving half of a session.                 *)
(*                                                                         *)
(* The first part gives facts about the operators of ReplayWindow, for     *)
(* every ring geometry: which slots coincide, and which bits clear_range   *)
(* and set_bit change.  The second shows that the receiving half is        *)
(* correct for every window geometry, counter width, set of packets and    *)
(* number of threads.                                                      *)
(***************************************************************************)
EXTENDS ExpresslaneRx, FiniteSetTheorems, TLAPS

-----------------------------------------------------------------------------
(* THE REPLAY WINDOW                                                       *)

SameSlot(c, d) == ring_index(c) = ring_index(d) /\ bit_of(c) = bit_of(d)

-----------------------------------------------------------------------------
(* Integer division, as the code uses it on counters                       *)

\* Quotient and remainder of a counter are naturals that rebuild the counter.
LEMMA DivMod ==
    ASSUME NEW n \in Nat, NEW b \in Nat \ {0}
    PROVE  /\ n \div b \in Nat
           /\ n % b \in 0 .. b - 1
           /\ n = b * (n \div b) + (n % b)
  OBVIOUS

\* A quotient and a remainder below the divisor determine the counter.
LEMMA DivModUnique ==
    ASSUME NEW b \in Nat \ {0}, NEW q \in Nat, NEW r \in 0 .. b - 1
    PROVE  /\ b * q + r \in Nat
           /\ (b * q + r) \div b = q
           /\ (b * q + r) % b = r
  OBVIOUS

\* Consecutive multiples of a word size are a word apart.
LEMMA MultipleStep ==
    ASSUME NEW b \in Nat \ {0}, NEW p \in Nat, NEW q \in Nat, p < q
    PROVE  b * p + b <= b * q
  OBVIOUS

\* A non-zero multiple of b is at least b away from zero.
LEMMA MultipleNonzero ==
    ASSUME NEW b \in Nat \ {0}, NEW k \in Int, k # 0
    PROVE  b * k >= b \/ b * k <= -b
  OBVIOUS

\* The window size is a positive number of counters.
LEMMA WindowSizeType == WINDOW_SIZE \in Nat \ {0}
  BY GeometryAssumption DEF WINDOW_SIZE

-----------------------------------------------------------------------------
(* Slots                                                                   *)

\* ring_index and bit_of never leave the ring: the code indexes the bitmap
\* without a bounds branch.
LEMMA SlotType ==
    ASSUME NEW c \in Nat
    PROVE  ring_index(c) \in Blocks /\ bit_of(c) \in Bits
  <1>1. c \div BLOCK_BITS \in Nat /\ c % BLOCK_BITS \in 0 .. BLOCK_BITS - 1
    BY DivMod, GeometryAssumption, Zenon
  <1>2. (c \div BLOCK_BITS) % NUM_BLOCKS \in 0 .. NUM_BLOCKS - 1
    BY <1>1, DivMod, GeometryAssumption
  <1> QED
    BY <1>1, <1>2 DEF ring_index, bit_of, Blocks, Bits

\* A counter is rebuilt from its word number and its bit.
LEMMA CounterParts ==
    ASSUME NEW c \in Nat
    PROVE  /\ c \div BLOCK_BITS \in Nat
           /\ bit_of(c) \in 0 .. BLOCK_BITS - 1
           /\ c = BLOCK_BITS * (c \div BLOCK_BITS) + bit_of(c)
  BY DivMod, GeometryAssumption, Zenon DEF bit_of

\* The word number is rebuilt from the lap of the ring and the ring index.
LEMMA WordParts ==
    ASSUME NEW c \in Nat
    PROVE  \E lap \in Nat : c \div BLOCK_BITS = NUM_BLOCKS * lap + ring_index(c)
  <1>1. c \div BLOCK_BITS \in Nat
    BY CounterParts
  <1> DEFINE p == c \div BLOCK_BITS
  <1> HIDE DEF p
  <1>2. p \div NUM_BLOCKS \in Nat /\ p = NUM_BLOCKS * (p \div NUM_BLOCKS) + (p % NUM_BLOCKS)
    BY <1>1, DivMod, GeometryAssumption, Zenon DEF p
  <1> QED
    BY <1>2 DEF p, ring_index

\* Two counters less than a window apart share a slot only if they are equal:
\* the reason a slot can stand for one counter at a time.
LEMMA SlotInjective ==
    ASSUME NEW c \in Nat, NEW d \in Nat, SameSlot(c, d),
           c - d < WINDOW_SIZE, d - c < WINDOW_SIZE
    PROVE  c = d
  <1> DEFINE p == c \div BLOCK_BITS
             q == d \div BLOCK_BITS
  <1>1. /\ p \in Nat /\ c = BLOCK_BITS * p + bit_of(c)
        /\ q \in Nat /\ d = BLOCK_BITS * q + bit_of(d)
        /\ bit_of(c) \in Int
    BY CounterParts
  <1>2. PICK r \in Int : c = BLOCK_BITS * p + r /\ d = BLOCK_BITS * q + r
    BY <1>1 DEF SameSlot
  <1>3. PICK lap1 \in Nat : p = NUM_BLOCKS * lap1 + ring_index(c)
    BY WordParts
  <1>4. PICK lap2 \in Nat : q = NUM_BLOCKS * lap2 + ring_index(d)
    BY WordParts
  <1> DEFINE k == lap1 - lap2
  <1> HIDE DEF p, q
  <1>5. k \in Int /\ p - q = NUM_BLOCKS * k
    BY <1>3, <1>4, SlotType, GeometryAssumption DEF SameSlot, Blocks
  <1> HIDE DEF k
  <1>6. c - d = BLOCK_BITS * (NUM_BLOCKS * k)
    <2>1. c - d = BLOCK_BITS * p - BLOCK_BITS * q
      BY <1>1, <1>2, GeometryAssumption
    <2>2. BLOCK_BITS * p - BLOCK_BITS * q = BLOCK_BITS * (p - q)
      BY <1>1, GeometryAssumption
    <2> QED
      BY <2>1, <2>2, <1>5
  <1>7. c - d = WINDOW_SIZE * k
    BY <1>5, <1>6, GeometryAssumption DEF WINDOW_SIZE
  <1>8. k = 0
    <2> SUFFICES ASSUME k # 0 PROVE FALSE
      OBVIOUS
    <2>1. WINDOW_SIZE * k >= WINDOW_SIZE \/ WINDOW_SIZE * k <= -WINDOW_SIZE
      BY <1>5, WindowSizeType, MultipleNonzero
    <2> QED
      BY <2>1, <1>7, WindowSizeType
  <1> QED
    BY <1>7, <1>8, WindowSizeType

-----------------------------------------------------------------------------
(* Bitmaps                                                                 *)

\* Every bitmap operation yields a bitmap: 128 words of 64 bits.
LEMMA BitmapType ==
    ASSUME NEW bm \in Bitmap
    PROVE  /\ zero_bitmap \in Bitmap
           /\ \A c \in Nat : set_bit(bm, c) \in Bitmap
           /\ \A i, mask : clear_mask(bm, i, mask) \in Bitmap
           /\ \A lo, hi : clear_range(bm, lo, hi) \in Bitmap
  <1>1. zero_bitmap \in Bitmap
    BY DEF zero_bitmap, Bitmap
  <1>2. \A c \in Nat : set_bit(bm, c) \in Bitmap
    BY SlotType DEF set_bit, Bitmap
  <1>3. ASSUME NEW b \in Bitmap, NEW i, NEW mask
        PROVE  clear_mask(b, i, mask) \in Bitmap
    BY Zenon DEF clear_mask, Bitmap
  <1>4. ASSUME NEW lo, NEW hi
        PROVE  clear_range(bm, lo, hi) \in Bitmap
    <2> DEFINE low == clear_mask(bm, ring_index(lo),
                                 mask_between(bit_of(lo), BLOCK_BITS - 1))
               inner == [i \in Blocks |->
                           IF \E word \in ((lo \div BLOCK_BITS) + 1) .. ((hi \div BLOCK_BITS) - 1) :
                                 word % NUM_BLOCKS = i
                           THEN {} ELSE low[i]]
    <2>1. low \in Bitmap
      BY <1>3
    <2>2. inner \in Bitmap
      BY <2>1 DEF Bitmap
    <2> HIDE DEF inner
    <2>3. clear_mask(inner, ring_index(hi), mask_between(0, bit_of(hi))) \in Bitmap
      BY <2>2, <1>3
    <2>4. clear_mask(bm, ring_index(lo), mask_between(bit_of(lo), bit_of(hi))) \in Bitmap
      BY <1>3
    <2> QED
      BY <2>3, <2>4 DEF clear_range, inner
  <1> QED
    BY <1>1, <1>2, <1>3, <1>4

\* Setting a counter's bit makes exactly the counters of its slot look set.
LEMMA SetBit ==
    ASSUME NEW bm \in Bitmap, NEW c \in Nat, NEW d \in Nat
    PROVE  bit_is_set(set_bit(bm, c), d) <=> bit_is_set(bm, d) \/ SameSlot(c, d)
  BY SlotType DEF set_bit, bit_is_set, SameSlot, Bitmap

\* No counter's bit is set in the zeroed bitmap.
LEMMA ZeroBitmap ==
    ASSUME NEW c \in Nat
    PROVE  ~bit_is_set(zero_bitmap, c)
  BY SlotType DEF bit_is_set, zero_bitmap

\* What a masked write leaves of a counter's bit.
LEMMA ClearMask ==
    ASSUME NEW bm \in Bitmap, NEW i \in Blocks, NEW mask, NEW d \in Nat
    PROVE  bit_is_set(clear_mask(bm, i, mask), d)
             <=> bit_is_set(bm, d) /\ ~(ring_index(d) = i /\ bit_of(d) \in mask)
  BY SlotType DEF clear_mask, bit_is_set, Bitmap

\* clear_range written as one test: which words and bits of the two ends and
\* of the words between them a counter's slot must fall in to be cleared.
LEMMA ClearRangeBits ==
    ASSUME NEW bm \in Bitmap, NEW lo \in Nat, NEW hi \in Nat, NEW d \in Nat
    PROVE  LET lo_word == lo \div BLOCK_BITS
               hi_word == hi \div BLOCK_BITS
           IN  bit_is_set(clear_range(bm, lo, hi), d) <=>
                 /\ bit_is_set(bm, d)
                 /\ IF lo_word = hi_word
                    THEN ~(ring_index(d) = ring_index(lo) /\ bit_of(d) \in bit_of(lo) .. bit_of(hi))
                    ELSE /\ ~(ring_index(d) = ring_index(lo) /\ bit_of(d) \in bit_of(lo) .. (BLOCK_BITS - 1))
                         /\ ~(\E word \in (lo_word + 1) .. (hi_word - 1) :
                                  word % NUM_BLOCKS = ring_index(d))
                         /\ ~(ring_index(d) = ring_index(hi) /\ bit_of(d) \in 0 .. bit_of(hi))
  <1> DEFINE lo_word == lo \div BLOCK_BITS
             hi_word == hi \div BLOCK_BITS
             low == clear_mask(bm, ring_index(lo),
                               mask_between(bit_of(lo), BLOCK_BITS - 1))
             between(i) == \E word \in (lo_word + 1) .. (hi_word - 1) :
                               word % NUM_BLOCKS = i
             inner == [i \in Blocks |-> IF between(i) THEN {} ELSE low[i]]
  <1> HIDE DEF lo_word, hi_word, between
  <1>1. low \in Bitmap
    BY BitmapType
  <1>2. bit_is_set(low, d) <=>
           bit_is_set(bm, d) /\ ~(ring_index(d) = ring_index(lo)
                                   /\ bit_of(d) \in bit_of(lo) .. (BLOCK_BITS - 1))
    <2> HIDE DEF inner
    <2>1. ring_index(lo) \in Blocks
      BY SlotType
    <2> QED
      BY <2>1, ClearMask, Zenon DEF mask_between
  <1> HIDE DEF low
  <1>3. inner \in Bitmap
    BY <1>1 DEF Bitmap
  <1>4. bit_is_set(inner, d) <=> bit_is_set(low, d) /\ ~between(ring_index(d))
    BY SlotType DEF bit_is_set
  <1> HIDE DEF inner
  <1>5. bit_is_set(clear_mask(inner, ring_index(hi), mask_between(0, bit_of(hi))), d) <=>
           bit_is_set(inner, d) /\ ~(ring_index(d) = ring_index(hi) /\ bit_of(d) \in 0 .. bit_of(hi))
    BY <1>3, ClearMask, SlotType, Zenon DEF mask_between
  <1>6. bit_is_set(clear_mask(bm, ring_index(lo), mask_between(bit_of(lo), bit_of(hi))), d) <=>
           bit_is_set(bm, d) /\ ~(ring_index(d) = ring_index(lo) /\ bit_of(d) \in bit_of(lo) .. bit_of(hi))
    BY ClearMask, SlotType, Zenon DEF mask_between
  <1>7. clear_range(bm, lo, hi) =
           IF lo_word = hi_word
           THEN clear_mask(bm, ring_index(lo), mask_between(bit_of(lo), bit_of(hi)))
           ELSE clear_mask(inner, ring_index(hi), mask_between(0, bit_of(hi)))
    BY DEF clear_range, lo_word, hi_word, inner, between, low
  <1>8. CASE lo_word = hi_word
    BY <1>6, <1>7, <1>8 DEF lo_word, hi_word
  <1>9. CASE lo_word # hi_word
    BY <1>2, <1>4, <1>5, <1>7, <1>9 DEF lo_word, hi_word, between
  <1> QED
    BY <1>8, <1>9

-----------------------------------------------------------------------------
(* Which counters clear_range clears                                       *)

\* Counters are ordered by word first and by bit within a word.
LEMMA WordOrder ==
    ASSUME NEW c \in Nat, NEW d \in Nat
    PROVE  c <= d <=> \/ c \div BLOCK_BITS < d \div BLOCK_BITS
                      \/ /\ c \div BLOCK_BITS = d \div BLOCK_BITS
                         /\ bit_of(c) <= bit_of(d)
  <1>1. PICK p \in Nat, r \in 0 .. BLOCK_BITS - 1 :
           p = c \div BLOCK_BITS /\ r = bit_of(c) /\ c = BLOCK_BITS * p + r
    BY CounterParts
  <1>2. PICK q \in Nat, t \in 0 .. BLOCK_BITS - 1 :
           q = d \div BLOCK_BITS /\ t = bit_of(d) /\ d = BLOCK_BITS * q + t
    BY CounterParts
  <1>3. CASE p = q
    BY <1>1, <1>2, <1>3, GeometryAssumption
  <1>4. CASE p < q
    <2>1. BLOCK_BITS * p + BLOCK_BITS <= BLOCK_BITS * q
      BY <1>4, MultipleStep, GeometryAssumption
    <2>2. BLOCK_BITS * p + r < BLOCK_BITS * q + t
      BY <2>1, GeometryAssumption
    <2> QED
      BY <1>1, <1>2, <1>4, <2>2
  <1>5. CASE q < p
    <2>1. BLOCK_BITS * q + BLOCK_BITS <= BLOCK_BITS * p
      BY <1>5, MultipleStep, GeometryAssumption
    <2>2. BLOCK_BITS * q + t < BLOCK_BITS * p + r
      BY <2>1, GeometryAssumption
    <2> QED
      BY <1>1, <1>2, <1>5, <2>2
  <1> QED
    BY <1>3, <1>4, <1>5

\* Every bit of every word belongs to some counter.
LEMMA CounterAt ==
    ASSUME NEW word \in Nat, NEW bit \in Bits
    PROVE  \E e \in Nat : e \div BLOCK_BITS = word /\ bit_of(e) = bit
  <1>1. BLOCK_BITS * word + bit \in Nat
    BY GeometryAssumption DEF Bits
  <1>2. /\ (BLOCK_BITS * word + bit) \div BLOCK_BITS = word
        /\ bit_of(BLOCK_BITS * word + bit) = bit
    BY DivModUnique, GeometryAssumption DEF Bits, bit_of
  <1> QED
    BY <1>1, <1>2

\* clear_range clears the bit of every counter of the range, whichever word it
\* falls in.
LEMMA ClearRangeClears ==
    ASSUME NEW bm \in Bitmap, NEW lo \in Nat, NEW hi \in Nat, lo <= hi,
           NEW d \in lo .. hi
    PROVE  ~bit_is_set(clear_range(bm, lo, hi), d)
  <1> DEFINE lo_word == lo \div BLOCK_BITS
             hi_word == hi \div BLOCK_BITS
             word == d \div BLOCK_BITS
  <1>1. d \in Nat
    OBVIOUS
  <1>2. lo_word \in Nat /\ hi_word \in Nat /\ word \in Nat
    BY <1>1, CounterParts
  <1>3. lo_word < word \/ (lo_word = word /\ bit_of(lo) <= bit_of(d))
    BY <1>1, WordOrder
  <1>4. word < hi_word \/ (word = hi_word /\ bit_of(d) <= bit_of(hi))
    BY <1>1, WordOrder
  <1>5. /\ bit_of(d) \in 0 .. BLOCK_BITS - 1
        /\ bit_of(lo) \in 0 .. BLOCK_BITS - 1
        /\ bit_of(hi) \in 0 .. BLOCK_BITS - 1
    BY <1>1, SlotType DEF Bits
  <1>6. ring_index(d) = word % NUM_BLOCKS /\ ring_index(lo) = lo_word % NUM_BLOCKS
            /\ ring_index(hi) = hi_word % NUM_BLOCKS
    BY DEF ring_index
  <1> HIDE DEF lo_word, hi_word, word
  <1>7. CASE lo_word = hi_word
    <2>1. ring_index(d) = ring_index(lo) /\ bit_of(d) \in bit_of(lo) .. bit_of(hi)
      BY <1>2, <1>3, <1>4, <1>5, <1>6, <1>7, GeometryAssumption
    <2> QED
      BY <2>1, <1>1, <1>7, ClearRangeBits DEF lo_word, hi_word
  <1>8. CASE lo_word # hi_word
    <2>1. \/ ring_index(d) = ring_index(lo) /\ bit_of(d) \in bit_of(lo) .. (BLOCK_BITS - 1)
          \/ word \in (lo_word + 1) .. (hi_word - 1)
          \/ ring_index(d) = ring_index(hi) /\ bit_of(d) \in 0 .. bit_of(hi)
      BY <1>2, <1>3, <1>4, <1>5, <1>6, <1>8, GeometryAssumption
    <2> QED
      BY <2>1, <1>1, <1>6, <1>8, ClearRangeBits DEF lo_word, hi_word
  <1> QED
    BY <1>7, <1>8

\* clear_range leaves alone the bit of every counter that shares a slot with
\* no counter of the range, even when the masked ends fall on one word.
LEMMA ClearRangeKeeps ==
    ASSUME NEW bm \in Bitmap, NEW lo \in Nat, NEW hi \in Nat, lo <= hi,
           NEW c \in Nat, \A e \in lo .. hi : ~SameSlot(e, c)
    PROVE  bit_is_set(clear_range(bm, lo, hi), c) <=> bit_is_set(bm, c)
  <1> DEFINE lo_word == lo \div BLOCK_BITS
             hi_word == hi \div BLOCK_BITS
  <1>1. /\ lo_word \in Nat /\ hi_word \in Nat
        /\ bit_of(c) \in Bits /\ bit_of(lo) \in Bits /\ bit_of(hi) \in Bits
    BY CounterParts, SlotType
  <1>2. lo_word <= hi_word
    BY <1>1, WordOrder
  <1>3. ASSUME NEW word \in Nat, word % NUM_BLOCKS = ring_index(c),
               lo_word < word \/ (lo_word = word /\ bit_of(lo) <= bit_of(c)),
               word < hi_word \/ (word = hi_word /\ bit_of(c) <= bit_of(hi))
        PROVE  FALSE
    <2>1. PICK e \in Nat : e \div BLOCK_BITS = word /\ bit_of(e) = bit_of(c)
      BY <1>1, CounterAt
    <2>2. lo <= e /\ e <= hi
      BY <1>3, <2>1, WordOrder
    <2>3. SameSlot(e, c)
      BY <1>3, <2>1 DEF SameSlot, ring_index
    <2> QED
      BY <2>2, <2>3
  <1>4. ring_index(lo) = lo_word % NUM_BLOCKS /\ ring_index(hi) = hi_word % NUM_BLOCKS
    BY DEF ring_index
  <1>5. bit_of(c) \in Nat /\ bit_of(lo) \in Nat /\ bit_of(hi) \in Nat
    BY <1>1, GeometryAssumption DEF Bits
  <1> HIDE DEF lo_word, hi_word
  <1>6. CASE lo_word = hi_word
    <2>1. ~(ring_index(c) = ring_index(lo) /\ bit_of(c) \in bit_of(lo) .. bit_of(hi))
      BY <1>1, <1>3, <1>4, <1>6 DEF Bits
    <2> QED
      BY <2>1, <1>6, ClearRangeBits DEF lo_word, hi_word
  <1>7. CASE lo_word # hi_word
    <2>1. ~(ring_index(c) = ring_index(lo) /\ bit_of(c) \in bit_of(lo) .. (BLOCK_BITS - 1))
      <3> SUFFICES ASSUME lo_word % NUM_BLOCKS = ring_index(c), bit_of(lo) <= bit_of(c)
                   PROVE  FALSE
        BY <1>4, <1>5, GeometryAssumption
      <3>1. lo_word < hi_word
        BY <1>1, <1>2, <1>7
      <3> QED
        BY <1>1, <1>3, <3>1
    <2>2. ~(ring_index(c) = ring_index(hi) /\ bit_of(c) \in 0 .. bit_of(hi))
      <3> SUFFICES ASSUME hi_word % NUM_BLOCKS = ring_index(c), bit_of(c) <= bit_of(hi)
                   PROVE  FALSE
        BY <1>4, <1>5
      <3>1. lo_word < hi_word
        BY <1>1, <1>2, <1>7
      <3> QED
        BY <1>1, <1>3, <3>1
    <2>3. ~(\E word \in (lo_word + 1) .. (hi_word - 1) : word % NUM_BLOCKS = ring_index(c))
      BY <1>1, <1>3
    <2> QED
      BY <2>1, <2>2, <2>3, <1>7, ClearRangeBits DEF lo_word, hi_word
  <1> QED
    BY <1>6, <1>7

-----------------------------------------------------------------------------
(* The two entry points, on a window that stands for a set of counters     *)

\* The window a session starts with stands for the empty set.
LEMMA DefaultRepresents == Represents(default_window, {})
  <1>1. default_window \in Window
    BY DEF default_window, Window, zero_bitmap, Bitmap
  <1>2. IsFiniteSet({}) /\ Cardinality({}) = 0
    BY FS_EmptySet
  <1> QED
    BY <1>1, <1>2 DEF Represents, ExactMaximum, ExactBits, default_window

\* would_reject refuses exactly the counters that are not fresh.
LEMMA PrecheckExact ==
    ASSUME NEW w, NEW taken, Represents(w, taken), NEW c \in Nat
    PROVE  would_reject(w, c) <=> ~FreshAfter(taken, c)
  <1>1. w.max_counter \in Nat /\ w.initialized \in BOOLEAN /\ taken \subseteq Nat
    BY DEF Represents, Window
  <1>2. CASE ~w.initialized
    BY <1>2 DEF would_reject, FreshAfter, Represents, ExactMaximum
  <1>3. CASE w.initialized /\ c > w.max_counter
    BY <1>1, <1>3, WindowSizeType DEF would_reject, FreshAfter, Represents, ExactMaximum
  <1>4. CASE w.initialized /\ c <= w.max_counter /\ w.max_counter - c >= WINDOW_SIZE
    BY <1>1, <1>4, WindowSizeType DEF would_reject, FreshAfter, Represents, ExactMaximum
  <1>5. CASE w.initialized /\ c <= w.max_counter /\ w.max_counter - c < WINDOW_SIZE
    <2>1. bit_is_set(w.bitmap, c) <=> c \in taken
      BY <1>1, <1>5 DEF Represents, ExactBits
    <2>2. \A d \in taken : d - c < WINDOW_SIZE
      BY <1>1, <1>5, WindowSizeType DEF Represents, ExactMaximum
    <2> QED
      BY <1>1, <1>5, <2>1, <2>2, WindowSizeType DEF would_reject, FreshAfter
  <1> QED
    BY <1>1, <1>2, <1>3, <1>4, <1>5, WindowSizeType

\* commit accepts exactly what would_reject lets through, and a refused commit
\* leaves the window as it was.
LEMMA CommitVerdict ==
    ASSUME NEW w, NEW c
    PROVE  /\ commit(w, c).ok \in BOOLEAN
           /\ w.initialized \in BOOLEAN /\ w.max_counter \in Nat /\ c \in Nat
                => (commit(w, c).ok <=> ~would_reject(w, c))
           /\ ~commit(w, c).ok => commit(w, c).window = w
  BY DEF commit, accept, refuse, would_reject

\* Sliding the window forward leaves, below the new maximum, exactly the bits
\* of the accepted counters still in range.
LEMMA SlideExact ==
    ASSUME NEW w, NEW taken, Represents(w, taken), w.initialized,
           NEW c \in Nat, c > w.max_counter,
           NEW d \in 0 .. c - 1, c - d < WINDOW_SIZE
    PROVE  /\ slide(w, c) \in Bitmap
           /\ bit_is_set(slide(w, c), d) <=> d \in taken
  <1> DEFINE max == w.max_counter
  <1>1. /\ max \in Nat /\ w.bitmap \in Bitmap /\ taken \subseteq Nat
        /\ d \in Nat /\ d < c
        /\ \A e \in taken : e <= max
    BY DEF Represents, ExactMaximum, Window
  <1>2. d <= max => (bit_is_set(w.bitmap, d) <=> d \in taken)
    BY <1>1, WindowSizeType DEF Represents, ExactBits
  <1> HIDE DEF max
  <1>3. CASE c - max >= WINDOW_SIZE
    <2>1. slide(w, c) = zero_bitmap
      BY <1>1, <1>3, WindowSizeType DEF slide, max
    <2>2. d \notin taken
      BY <1>1, <1>3, WindowSizeType
    <2> QED
      BY <1>1, <2>1, <2>2, ZeroBitmap, BitmapType
  <1>4. CASE c - max < WINDOW_SIZE /\ c - max > 1
    <2>1. slide(w, c) = clear_range(w.bitmap, max + 1, c - 1)
      BY <1>1, <1>4, WindowSizeType DEF slide, max
    <2>2. max + 1 \in Nat /\ c - 1 \in Nat /\ max + 1 <= c - 1
      BY <1>1, <1>4
    <2>3. CASE d > max
      <3>1. d \in (max + 1) .. (c - 1)
        BY <1>1, <2>3
      <3>2. ~bit_is_set(slide(w, c), d)
        BY <1>1, <2>1, <2>2, <3>1, ClearRangeClears
      <3> QED
        BY <1>1, <2>1, <2>3, <3>2, BitmapType
    <2>4. CASE d <= max
      <3>1. ASSUME NEW e \in (max + 1) .. (c - 1)
            PROVE  ~SameSlot(e, d)
        <4>1. e \in Nat /\ e # d /\ e - d < WINDOW_SIZE /\ d - e < WINDOW_SIZE
          BY <1>1, <2>4, WindowSizeType
        <4> QED
          BY <1>1, <4>1, SlotInjective
      <3>2. bit_is_set(slide(w, c), d) <=> bit_is_set(w.bitmap, d)
        BY <1>1, <2>1, <2>2, <3>1, ClearRangeKeeps
      <3> QED
        BY <1>1, <1>2, <2>1, <2>4, <3>2, BitmapType
    <2> QED
      BY <1>1, <2>3, <2>4
  <1>5. CASE c - max = 1
    <2>1. slide(w, c) = w.bitmap \/ WINDOW_SIZE = 1
      BY <1>1, <1>5, WindowSizeType DEF slide, max
    <2>2. WINDOW_SIZE # 1 /\ d <= max
      BY <1>1, <1>5, WindowSizeType
    <2> QED
      BY <1>1, <1>2, <2>1, <2>2
  <1> QED
    BY <1>1, <1>3, <1>4, <1>5, WindowSizeType DEF max

\* commit keeps the window exact: the window it leaves stands for the set of
\* accepted counters, with the new one added when it was accepted.
LEMMA CommitRepresents ==
    ASSUME NEW w, NEW taken, Represents(w, taken), NEW c \in Nat
    PROVE  Represents(commit(w, c).window,
                      IF commit(w, c).ok THEN taken \cup {c} ELSE taken)
  <1> DEFINE r == commit(w, c)
             max == IF ~w.initialized \/ c > w.max_counter THEN c ELSE w.max_counter
             bm == IF ~w.initialized THEN zero_bitmap
                   ELSE IF c > w.max_counter THEN slide(w, c) ELSE w.bitmap
  <1>1. /\ w.max_counter \in Nat /\ w.initialized \in BOOLEAN
        /\ w.bitmap \in Bitmap /\ w.packets_received \in Nat
        /\ taken \subseteq Nat /\ IsFiniteSet(taken)
        /\ w.packets_received = Cardinality(taken)
    BY DEF Represents, Window
  <1>2. CASE ~r.ok
    BY <1>2, CommitVerdict
  <1>3. CASE r.ok
    <2>1. FreshAfter(taken, c)
      BY <1>1, <1>3, CommitVerdict, PrecheckExact
    <2>2. r.window = [max_counter |-> max, bitmap |-> set_bit(bm, c),
                      packets_received |-> w.packets_received + 1,
                      initialized |-> TRUE]
      BY <1>1, <1>3, Zenon DEF commit, accept, refuse
    <2>3. max \in Nat /\ c <= max /\ \A d \in taken : d <= max
      BY <1>1 DEF Represents, ExactMaximum
    <2>4. bm \in Bitmap
      <3>1. CASE w.initialized /\ c > w.max_counter
        BY <1>1, <3>1, BitmapType DEF slide
      <3> QED
        BY <1>1, <3>1, BitmapType
    <2>5. r.window \in Window
      BY <1>1, <2>2, <2>3, <2>4, BitmapType DEF Window
    <2>6. IsFiniteSet(taken \cup {c}) /\ Cardinality(taken \cup {c}) = Cardinality(taken) + 1
      BY <1>1, <2>1, FS_AddElement DEF FreshAfter
    <2>7. ExactMaximum(r.window, taken \cup {c})
      BY <1>1, <2>2, <2>3 DEF Represents, ExactMaximum
    <2>8. ASSUME NEW d \in 0 .. max, max - d < WINDOW_SIZE, d # c
          PROVE  bit_is_set(bm, d) <=> d \in taken
      <3>1. CASE ~w.initialized
        BY <1>1, <3>1, <2>3, ZeroBitmap DEF Represents, ExactMaximum
      <3>2. CASE w.initialized /\ c > w.max_counter
        <4>1. d \in 0 .. c - 1 /\ c - d < WINDOW_SIZE
          BY <1>1, <2>8, <3>2
        <4> QED
          BY <1>1, <3>2, <4>1, SlideExact
      <3>3. CASE w.initialized /\ c <= w.max_counter
        BY <1>1, <2>8, <3>3, WindowSizeType DEF Represents, ExactBits
      <3> QED
        BY <1>1, <3>1, <3>2, <3>3
    <2>9. ASSUME NEW d \in 0 .. max, max - d < WINDOW_SIZE
          PROVE  bit_is_set(set_bit(bm, c), d) <=> d \in taken \cup {c}
      <3>0. d \in Nat
        BY <2>3
      <3>1. CASE d = c
        BY <2>4, <3>0, <3>1, SetBit DEF SameSlot
      <3>2. CASE d # c
        <4>1. ~SameSlot(c, d)
          <5>1. c - d < WINDOW_SIZE
            BY <2>3, <2>9, <3>0, WindowSizeType
          <5>2. max - c < WINDOW_SIZE
            <6>1. max = c \/ (w.initialized /\ max = w.max_counter /\ w.max_counter \in taken)
              BY <1>1 DEF Represents, ExactMaximum
            <6> QED
              BY <2>1, <2>3, <6>1, WindowSizeType DEF FreshAfter
          <5>3. d - c < WINDOW_SIZE
            BY <2>3, <3>0, <5>2, WindowSizeType
          <5> QED
            BY <3>0, <3>2, <5>1, <5>3, SlotInjective
        <4>2. bit_is_set(set_bit(bm, c), d) <=> bit_is_set(bm, d)
          BY <2>4, <3>0, <4>1, SetBit
        <4> QED
          BY <2>8, <2>9, <3>2, <4>2
      <3> QED
        BY <3>1, <3>2
    <2>10. ExactBits(r.window, taken \cup {c})
      <3> SUFFICES ASSUME NEW d \in 0 .. max, max - d < WINDOW_SIZE
                   PROVE  bit_is_set(set_bit(bm, c), d) <=> d \in taken \cup {c}
        BY <2>2 DEF ExactBits
      <3> QED
        BY <2>9
    <2>11. r.window.packets_received = Cardinality(taken \cup {c})
      BY <1>1, <2>2, <2>6
    <2> QED
      BY <1>1, <1>3, <2>5, <2>6, <2>7, <2>10, <2>11 DEF Represents
  <1> QED
    BY <1>2, <1>3

-----------------------------------------------------------------------------
(* THE RECEIVING HALF                                                      *)

\* The counter of a packet is a wire counter.
LEMMA PacketCounter ==
    ASSUME NEW p \in Packet
    PROVE  p.counter \in Nat /\ p.counter \in WireCounters
BY WireAssumption DEF Packet, WireCounters

\* The associated data covers the counter and, in version 2, the flags.
LEMMA AuthenticAsSealed ==
    ASSUME NEW key, NEW p, authentic(key, p)
    PROVE  AsSealed(p)
BY WireAssumption
DEF authentic, build_aad, AsSealed, Version, version_from, Unknown

\* Cipher::decrypt fails, or succeeds with the plaintext of an authentic
\* packet.
LEMMA CipherType ==
    ASSUME NEW key, NEW p, NEW buffer, NEW a \in cipher_decrypt(key, p, buffer)
    PROVE  a.ok \in BOOLEAN /\ (a.ok => a.out = "plaintext" /\ AsSealed(p))
<1>1. CASE a = [ok |-> TRUE, out |-> "plaintext"] /\ authentic(key, p)
  BY <1>1, AuthenticAsSealed
<1>2. CASE \E left \in {buffer, "zero", "scrambled"} : a = [ok |-> FALSE, out |-> left]
  BY <1>2
<1> QED BY <1>1, <1>2, Zenon DEF cipher_decrypt

\* So do the attempts under the current and then the previous peer key.
LEMMA AttemptType ==
    ASSUME NEW p, NEW out, NEW attempt \in attempts(p, out)
    PROVE  /\ attempt.ok \in BOOLEAN
           /\ attempt.ok => attempt.out = "plaintext" /\ AsSealed(p)
<1>1. PICK first \in cipher_decrypt(current_peer, p, fresh_copy(out)) :
          attempt \in IF first.ok \/ prev_peer = NoKey THEN {first}
                     ELSE cipher_decrypt(prev_peer, p, fresh_copy(first.out))
  BY Zenon DEF attempts
<1>2. CASE attempt = first
  BY <1>1, <1>2, CipherType
<1>3. CASE attempt \in cipher_decrypt(prev_peer, p, fresh_copy(first.out))
  BY <1>3, CipherType
<1> QED BY <1>1, <1>2, <1>3, Zenon

LEMMA RxInitInv == RxInit => RxInv
<1> SUFFICES ASSUME RxInit PROVE RxInv
  OBVIOUS
<1>1. delivered_counters = {}
  BY DEF RxInit, delivered_counters
<1>2. WindowExact
  BY <1>1, DefaultRepresents DEF RxInit, WindowExact
<1>3. RxTypeOK
  BY <1>2, RxAssumption, Zenon
  DEF RxInit, RxTypeOK, WindowExact, Represents, RxCodes, Buffers
<1> QED
  BY <1>2, <1>3 DEF RxInit, RxInv, RxCore, DeliveredOnce, BufferClean, OnlyAuthentic

-----------------------------------------------------------------------------
(* Each step keeps RxCore, and leaves a clean buffer clean.  The packet is *)
(* any packet at all: the steps are those of ExpresslaneFfi and            *)
(* ExpresslaneTunnel too.                                                  *)

\* A key rotation touches neither the window nor any decrypt in progress.
LEMMA UpdatePeerKeyInv ==
    ASSUME RxCore, NEW key \in Keys \cup {INVALID}, update_peer_key(key)
    PROVE  RxCore' /\ (BufferClean => BufferClean')
<1>1. key \in Keys /\ key # NoKey
  BY WireAssumption DEF update_peer_key, is_invalid, Keys, INVALID, NoKey
<1>2. RxTypeOK'
  BY <1>1, Zenon DEF RxCore, RxTypeOK, update_peer_key
<1> QED
  BY <1>2 DEF RxCore, update_peer_key, WindowExact, delivered_counters,
              DeliveredOnce, BufferClean, OnlyAuthentic

\* A packet that passes the pre-check is fresh, and its thread gets the mutex.
LEMMA DecryptBegins ==
    ASSUME RxCore, NEW t \in RxThreads, NEW packet \in Packet, NEW room \in BOOLEAN,
           decrypt_begin(t, packet, room), precheck(packet, room) = "none",
           ~would_reject(replay_window, packet.counter)
    PROVE  RxCore' /\ (BufferClean => BufferClean')
<1> DEFINE call == [pc |-> "opening", packet |-> packet, out |-> "untouched", code |-> "none"]
           Calls == [pc : {"idle", "opening", "committing"}, packet : Packet \cup {NoPacket},
                     out : Buffers, code : RxCodes]
<1>1. call \in Calls /\ call.pc = "opening" /\ call.packet = packet
  BY DEF RxCodes, Buffers
<1>2. /\ rx_lock = NoThread /\ rx_lock' = t /\ rx' = [rx EXCEPT ![t] = call]
      /\ UNCHANGED <<current_peer, prev_peer, replay_window, peer_key_installed,
                     delivered, repeated>>
  BY Zenon DEF decrypt_begin
<1>3. RxTypeOK /\ rx \in [RxThreads -> Calls]
  BY Zenon DEF RxCore, RxTypeOK
<1> HIDE DEF call, Calls
<1>4. \A s \in RxThreads : rx[s].pc = "idle"
  BY <1>2, <1>3, RxAssumption, Zenon DEF RxTypeOK
<1>5. rx' \in [RxThreads -> Calls]
  BY <1>1, <1>2, <1>3, Zenon
<1>6. \A s \in RxThreads : rx'[s] = IF s = t THEN call ELSE rx[s]
  BY <1>2, <1>3, Zenon
<1>7. \A s \in RxThreads : IF s = t THEN rx'[s].pc = "opening" /\ rx'[s].packet = packet
                            ELSE rx'[s].pc = "idle" /\ rx'[s] = rx[s]
  BY <1>1, <1>4, <1>6, Zenon
<1>8. "opening" # "idle" /\ "opening" # "committing"
  OBVIOUS
<1>9. /\ \A s \in RxThreads : t = s <=> rx'[s].pc # "idle"
      /\ \A s \in RxThreads : rx'[s].pc # "idle" => rx'[s].packet \in Packet
  BY <1>7, <1>8, Zenon
<1>10. RxTypeOK'
  BY <1>2, <1>3, <1>5, <1>9, Zenon DEF RxTypeOK, Calls
<1>11. WindowExact' /\ DeliveredOnce' /\ OnlyAuthentic'
  BY <1>2, Zenon DEF RxCore, WindowExact, delivered_counters, DeliveredOnce, OnlyAuthentic, AsSealed
<1>12. \A s \in RxThreads : rx'[s].pc # "idle" =>
           ~would_reject(replay_window', rx'[s].packet.counter) /\ rx'[s].pc # "committing"
  BY <1>2, <1>7, <1>8, Zenon
<1>13. BufferClean => BufferClean'
  BY <1>4, <1>7, <1>8, Zenon DEF BufferClean
<1> QED BY <1>10, <1>11, <1>12, <1>13, Zenon DEF RxCore

\* A refused packet leaves the buffer alone.
LEMMA DecryptRefuses ==
    ASSUME RxCore, NEW t \in RxThreads, NEW packet \in Packet, rx[t].pc = "idle",
           NEW code \in RxCodes \ {"SUCCESS"}, RxReturn(t, packet, "untouched", code),
           UNCHANGED <<rx_lock, current_peer, prev_peer, replay_window, peer_key_installed,
                       delivered, repeated>>
    PROVE  RxCore' /\ (BufferClean => BufferClean')
<1> DEFINE call == [pc |-> "idle", packet |-> packet, out |-> "untouched", code |-> code]
           Calls == [pc : {"idle", "opening", "committing"}, packet : Packet \cup {NoPacket},
                     out : Buffers, code : RxCodes]
<1>1. call \in Calls /\ call.pc = "idle" /\ call.out = "untouched" /\ call.code # "SUCCESS"
  BY DEF Buffers
<1>2. rx' = [rx EXCEPT ![t] = call]
  BY Zenon DEF RxReturn
<1>3. RxTypeOK /\ rx \in [RxThreads -> Calls]
  BY Zenon DEF RxCore, RxTypeOK
<1> HIDE DEF call, Calls
<1>4. rx' \in [RxThreads -> Calls]
  BY <1>1, <1>2, <1>3, Zenon
<1>5. \A s \in RxThreads : rx'[s] = IF s = t THEN call ELSE rx[s]
  BY <1>2, <1>3, Zenon
<1>6. \A s \in RxThreads :
          /\ rx'[s].pc = rx[s].pc
          /\ rx'[s].pc # "idle" => rx'[s] = rx[s]
          /\ rx'[s] = rx[s] \/ (rx'[s].out = "untouched" /\ rx'[s].code # "SUCCESS")
  BY <1>1, <1>5, Zenon
<1>7. RxTypeOK'
  <2>1. \A s \in RxThreads : (rx_lock' = s) <=> (rx'[s].pc # "idle")
    BY <1>3, <1>6, Zenon DEF RxTypeOK
  <2>2. \A s \in RxThreads : rx'[s].pc # "idle" => rx'[s].packet \in Packet
    BY <1>3, <1>6, Zenon DEF RxTypeOK
  <2> QED BY <1>3, <1>4, <2>1, <2>2, Zenon DEF RxTypeOK, Calls
<1>8. WindowExact' /\ DeliveredOnce' /\ OnlyAuthentic'
  BY Zenon DEF RxCore, WindowExact, delivered_counters, DeliveredOnce, OnlyAuthentic, AsSealed
<1>9. \A s \in RxThreads : rx'[s].pc # "idle" =>
          /\ ~would_reject(replay_window', rx'[s].packet.counter)
          /\ rx'[s].pc = "committing" => rx'[s].out = "plaintext" /\ AsSealed(rx'[s].packet)
  BY <1>6, Zenon DEF RxCore
<1>10. BufferClean => BufferClean'
  BY <1>6, Zenon DEF BufferClean
<1> QED BY <1>7, <1>8, <1>9, <1>10, Zenon DEF RxCore, AsSealed

LEMMA DecryptInv ==
    ASSUME RxCore, NEW t \in RxThreads, NEW packet \in Packet, Decrypt(t, packet)
    PROVE  RxCore' /\ (BufferClean => BufferClean')
<1>1. CASE decrypt_short(t, packet)
  <2>1. "INSUFFICIENT_DATA" \in RxCodes \ {"SUCCESS"}
    BY DEF RxCodes
  <2> QED BY <1>1, <2>1, DecryptRefuses, Zenon DEF decrypt_short
<1>2. ASSUME NEW room \in BOOLEAN, decrypt_begin(t, packet, room)
      PROVE  RxCore' /\ (BufferClean => BufferClean')
  <2>1. CASE precheck(packet, room) # "none"
    <3>1. precheck(packet, room) \in RxCodes \ {"SUCCESS"}
      BY <2>1 DEF precheck, RxCodes
    <3> QED BY <1>2, <2>1, <3>1, DecryptRefuses, Zenon DEF decrypt_begin
  <2>2. CASE precheck(packet, room) = "none"
    <3>1. ~would_reject(replay_window, packet.counter)
      BY <2>2, Zenon DEF precheck
    <3> QED BY <1>2, <2>2, <3>1, DecryptBegins, Zenon
  <2> QED BY <2>1, <2>2, Zenon
<1> QED BY <1>1, <1>2, Zenon DEF Decrypt

\* The AEAD decides without touching the window.
LEMMA OpenInv ==
    ASSUME RxCore, NEW t \in RxThreads, decrypt_open(t)
    PROVE  RxCore' /\ (BufferClean => BufferClean')
<1> USE DEF RxCore, RxTypeOK, Buffers, WindowExact, delivered_counters,
            DeliveredOnce, BufferClean, OnlyAuthentic
<1>1. PICK attempt \in attempts(rx[t].packet, rx[t].out) :
          IF attempt.ok
          THEN /\ rx' = [rx EXCEPT ![t].pc = "committing", ![t].out = attempt.out]
               /\ UNCHANGED rx_lock
          ELSE /\ RxReturn(t, rx[t].packet, scrub(attempt.out), "INVALID_DATA")
               /\ rx_lock' = NoThread
  BY DEF decrypt_open
<1>2. CASE attempt.ok
  BY <1>1, <1>2, AttemptType DEF decrypt_open
<1>3. CASE ~attempt.ok
  BY <1>1, <1>3, RxAssumption DEF decrypt_open, RxReturn, scrub, RxCodes
<1> QED BY <1>2, <1>3, AttemptType, Zenon

\* The commit succeeds, because the packet passed the pre-check under the same
\* mutex, and adds its counter to the window.
LEMMA CommitAccepts ==
    ASSUME RxCore, NEW t \in RxThreads, decrypt_commit(t)
    PROVE  /\ rx[t].packet \in Packet
           /\ commit(replay_window, rx[t].packet.counter).ok
           /\ rx[t].packet.counter \notin delivered_counters
           /\ delivered' = delivered \cup {rx[t].packet}
           /\ delivered_counters' = delivered_counters \cup {rx[t].packet.counter}
<1> DEFINE c == rx[t].packet.counter
<1>1. rx[t].packet \in Packet /\ c \in Nat /\ ~would_reject(replay_window, c)
  BY PacketCounter DEF RxCore, RxTypeOK, decrypt_commit
<1>2. replay_window.initialized \in BOOLEAN /\ replay_window.max_counter \in Nat
  BY DEF RxCore, RxTypeOK, Window
<1>3. commit(replay_window, c).ok
  BY <1>1, <1>2, CommitVerdict
<1>4. c \notin delivered_counters
  BY <1>1, PrecheckExact DEF RxCore, WindowExact, FreshAfter
<1>5. delivered' = delivered \cup {rx[t].packet}
  BY <1>3 DEF decrypt_commit
<1> QED
  BY <1>1, <1>3, <1>4, <1>5 DEF delivered_counters

LEMMA CommitInv ==
    ASSUME RxCore, NEW t \in RxThreads, decrypt_commit(t)
    PROVE  RxCore' /\ (BufferClean => BufferClean')
<1> DEFINE c == rx[t].packet.counter
<1>1. /\ rx[t].packet \in Packet /\ c \in Nat
      /\ commit(replay_window, c).ok
      /\ c \notin delivered_counters
      /\ delivered' = delivered \cup {rx[t].packet}
      /\ delivered_counters' = delivered_counters \cup {c}
  BY CommitAccepts, PacketCounter
<1>2. WindowExact'
  BY <1>1, CommitRepresents, Zenon DEF RxCore, WindowExact, decrypt_commit
<1>3. repeated' = {}
  BY <1>1 DEF RxCore, DeliveredOnce, decrypt_commit, delivered_counters
<1>4. /\ rx_lock' = NoThread
      /\ rx' = [rx EXCEPT ![t] = [pc |-> "idle", packet |-> rx[t].packet,
                                  out |-> "plaintext", code |-> "SUCCESS"]]
      /\ UNCHANGED <<current_peer, prev_peer, peer_key_installed>>
  BY <1>1 DEF RxCore, decrypt_commit, RxReturn
<1>5. \A u \in RxThreads : u # t => rx[u].pc = "idle"
  BY DEF RxCore, RxTypeOK, decrypt_commit
<1>6. RxTypeOK'
  <2>1. replay_window' \in Window
    BY <1>2, SMTT(30) DEF WindowExact, Represents
  <2> QED
    BY <1>1, <1>3, <1>4, <1>5, <2>1, RxAssumption DEF RxCore, RxTypeOK, RxCodes, Buffers
<1> QED
  BY <1>1, <1>2, <1>3, <1>4, <1>5, <1>6, SMTT(30)
  DEF RxCore, decrypt_commit, RxTypeOK, DeliveredOnce, BufferClean, OnlyAuthentic

LEMMA RxStill ==
    ASSUME RxCore, UNCHANGED rx_vars
    PROVE  RxCore' /\ (BufferClean => BufferClean')
BY DEF rx_vars, RxCore, RxTypeOK, WindowExact, delivered_counters, DeliveredOnce,
       BufferClean, OnlyAuthentic

LEMMA RxStepInv == RxInv /\ [RxNext]_rx_vars => RxInv'
<1> SUFFICES ASSUME RxInv, [RxNext]_rx_vars PROVE RxInv'
  OBVIOUS
<1> QED
  BY RxStill, UpdatePeerKeyInv, DecryptInv, OpenInv, CommitInv, RxAssumption
  DEF RxInv, RxNext, RxContinue

-----------------------------------------------------------------------------
\* The receiving half keeps its window exact, its buffers clean and its mutex
\* honest, for any packets, keys and threads.
THEOREM RxInvHolds == RxSpec => []RxInv
BY RxInitInv, RxStepInv, PTL DEF RxSpec

\* The session's window stands for exactly the counters decrypt has returned:
\* packets that fail authentication never move it.
THEOREM WindowExactHolds == RxSpec => []WindowExact
<1>1. RxInv => WindowExact
  BY DEF RxInv, RxCore
<1> QED BY <1>1, RxInvHolds, PTL

\* decrypt returns no counter twice, across threads and key rotations.
THEOREM DeliveredOnceHolds == RxSpec => []DeliveredOnce
<1>1. RxInv => DeliveredOnce
  BY DEF RxInv, RxCore
<1> QED BY <1>1, RxInvHolds, PTL

\* The refused-commit branch of decrypt is unreachable, as session.rs says.
THEOREM RefusedCommitUnreachableHolds == RxSpec => []RefusedCommitUnreachable
<1>1. RxInv => RefusedCommitUnreachable
  BY DEF RxInv, RxCore, RefusedCommitUnreachable
<1> QED BY <1>1, RxInvHolds, PTL

\* decrypt never leaves ciphertext or unauthenticated plaintext in the
\* caller's buffer.
THEOREM BufferCleanHolds == RxSpec => []BufferClean
<1>1. RxInv => BufferClean
  BY DEF RxInv, RxCore
<1> QED BY <1>1, RxInvHolds, PTL

\* decrypt returns a packet only with the header its sender sealed.
THEOREM OnlyAuthenticHolds == RxSpec => []OnlyAuthentic
<1>1. RxInv => OnlyAuthentic
  BY DEF RxInv, RxCore
<1> QED BY <1>1, RxInvHolds, PTL

\* A commit takes one fresh counter, as the abstract filter does.
LEMMA CommitTakes ==
    ASSUME RxCore, NEW t \in RxThreads, decrypt_commit(t)
    PROVE  Filter!Next
<1> DEFINE c == rx[t].packet.counter
<1>1. /\ c \in WireCounters /\ c \in Nat
      /\ commit(replay_window, c).ok
      /\ delivered_counters' = delivered_counters \cup {c}
  BY CommitAccepts, PacketCounter
<1>2. ~would_reject(replay_window, c)
  BY DEF RxCore, decrypt_commit
<1>3. FreshAfter(delivered_counters, c)
  BY <1>1, <1>2, PrecheckExact, SMTT(30) DEF RxCore, WindowExact
<1>4. replay_window'.packets_received = replay_window.packets_received + 1
  BY <1>1 DEF decrypt_commit, commit, accept, refuse
<1>5. Filter!Take(c)
  BY <1>1, <1>3, <1>4 DEF Filter!Take, Filter!Fresh, FreshAfter
<1> QED
  BY <1>1, <1>5 DEF Filter!Next

\* No other step is visible to the filter.
LEMMA FilterStill ==
    ASSUME UNCHANGED <<replay_window, delivered>>
    PROVE  UNCHANGED Filter!vars
BY DEF Filter!vars, delivered_counters

LEMMA FilterInit == RxInit => Filter!Init
BY DEF RxInit, Filter!Init, delivered_counters, default_window

\* The receiving half of a session implements the abstract sliding window: a
\* successful commit takes one fresh counter, and no other step is visible.
THEOREM FilterRefinement == RxSpec => ImplementsFilter
<1>1. RxInv /\ [RxNext]_rx_vars => [Filter!Next]_Filter!vars
  BY CommitTakes, FilterStill, Zenon
  DEF RxInv, RxNext, rx_vars, RxContinue, Decrypt, update_peer_key, decrypt_short,
      decrypt_begin, decrypt_open
<1> QED
  BY <1>1, FilterInit, RxInvHolds, PTL DEF RxSpec, ImplementsFilter, Filter!Spec

-----------------------------------------------------------------------------
(* What the steps of decrypt tell their caller.                            *)

\* A call of decrypt is refused, or goes on to the AEAD with no code yet.
LEMMA DecryptTells ==
    ASSUME RxCore, NEW t \in RxThreads, NEW packet, Decrypt(t, packet)
    PROVE  /\ rx'[t].code \in RxCodes \ {"SUCCESS"}
           /\ rx'[t].pc # "idle" => rx'[t].code = "none"
           /\ \A u \in RxThreads \ {t} : rx'[u] = rx[u]
           /\ UNCHANGED <<delivered, replay_window, peer_key_installed>>
<1>0. DOMAIN rx = RxThreads
  BY DEF RxCore, RxTypeOK
<1>1. CASE decrypt_short(t, packet)
  BY <1>0, <1>1 DEF decrypt_short, RxReturn, RxCodes
<1>2. ASSUME NEW room \in BOOLEAN, decrypt_begin(t, packet, room)
      PROVE  /\ rx'[t].code \in RxCodes \ {"SUCCESS"}
             /\ rx'[t].pc # "idle" => rx'[t].code = "none"
             /\ \A u \in RxThreads \ {t} : rx'[u] = rx[u]
             /\ UNCHANGED <<delivered, replay_window, peer_key_installed>>
  <2>1. UNCHANGED <<delivered, replay_window, peer_key_installed>>
    BY <1>2 DEF decrypt_begin
  <2>2. CASE precheck(packet, room) # "none"
    <3>1. RxReturn(t, packet, "untouched", precheck(packet, room))
      BY <1>2, <2>2 DEF decrypt_begin
    <3>2. precheck(packet, room) \in RxCodes \ {"SUCCESS"}
      BY DEF precheck, RxCodes
    <3> QED BY <1>0, <2>1, <3>1, <3>2 DEF RxReturn
  <2>3. CASE precheck(packet, room) = "none"
    <3>1. rx' = [rx EXCEPT ![t] = [pc |-> "opening", packet |-> packet,
                                   out |-> "untouched", code |-> "none"]]
      BY <1>2, <2>3, SMTT(30) DEF decrypt_begin
    <3> QED BY <1>0, <2>1, <3>1 DEF RxCodes
  <2> QED BY <2>2, <2>3
<1> QED BY <1>1, <1>2 DEF Decrypt

\* The AEAD and the commit: no code yet, an error, or a success with the
\* plaintext of a packet that is now among the delivered ones.
LEMMA ContinueTells ==
    ASSUME RxCore, NEW t \in RxThreads, RxContinue(t), rx[t].code = "none"
    PROVE  /\ rx[t].pc # "idle"
           /\ rx'[t].packet = rx[t].packet /\ rx'[t].code \in RxCodes
           /\ rx'[t].pc # "idle" => rx'[t].code = "none"
           /\ rx'[t].code = "SUCCESS" => /\ rx'[t].out = "plaintext"
                                         /\ rx[t].packet \in delivered'
           /\ \A u \in RxThreads \ {t} : rx'[u] = rx[u]
           /\ delivered \subseteq delivered' /\ UNCHANGED peer_key_installed
<1> USE DEF RxCore, RxTypeOK
<1>1. CASE decrypt_open(t)
  <2>1. PICK attempt \in attempts(rx[t].packet, rx[t].out) :
            IF attempt.ok
            THEN rx' = [rx EXCEPT ![t].pc = "committing", ![t].out = attempt.out]
            ELSE RxReturn(t, rx[t].packet, scrub(attempt.out), "INVALID_DATA")
    BY <1>1 DEF decrypt_open
  <2>2. rx[t].pc = "opening" /\ UNCHANGED <<delivered, peer_key_installed>>
    BY <1>1 DEF decrypt_open
  <2>3. CASE attempt.ok
    BY <2>1, <2>2, <2>3 DEF RxCodes
  <2>4. CASE ~attempt.ok
    BY <2>1, <2>2, <2>4 DEF RxReturn, RxCodes
  <2> QED BY <2>3, <2>4
<1>2. CASE decrypt_commit(t)
  <2>1. /\ rx[t].pc = "committing" /\ rx[t].out = "plaintext"
        /\ delivered' = delivered \cup {rx[t].packet}
        /\ UNCHANGED peer_key_installed
    BY <1>2, CommitAccepts, SMTT(30) DEF decrypt_commit
  <2>2. RxReturn(t, rx[t].packet, rx[t].out, "SUCCESS")
    BY <1>2, CommitAccepts DEF decrypt_commit
  <2> QED BY <2>1, <2>2, SMTT(30) DEF RxReturn, RxCodes
<1> QED BY <1>1, <1>2, SMTT(30) DEF RxContinue
=============================================================================
