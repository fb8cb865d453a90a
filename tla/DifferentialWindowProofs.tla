---------------------- MODULE DifferentialWindowProofs ----------------------
(***************************************************************************)
(* The replay window is correct for every ring geometry and every set of   *)
(* counters: it accepts no counter twice, refuses nothing fresh,           *)
(* implements the abstract filter, and agrees with the test module's       *)
(* reference window on every sequence of packets.                          *)
(***************************************************************************)
EXTENDS DifferentialWindow, ExpresslaneRxProofs

\* A commit step, accepted or refused, keeps the window exact.
LEMMA CommitStep ==
    ASSUME Inv, NEW c \in Counters, Commit(c)
    PROVE  Inv'
  <1>1. c \in Nat
    BY CountersAssumption
  <1>2. Represents(window', accepted')
    BY <1>1, CommitRepresents DEF Commit, Inv
  <1>3. accepted' \subseteq Counters
    BY DEF Commit, Inv
  <1> QED
    BY <1>2, <1>3 DEF Inv

\* The inductive invariant: at every moment the window stands for exactly the
\* set of counters whose commit returned true.
THEOREM InvHolds == Spec => []Inv
  <1>1. Init => Inv
    BY DefaultRepresents DEF Init, Inv
  <1>2. Inv /\ [Next]_vars => Inv'
    <2> SUFFICES ASSUME Inv, [Next]_vars PROVE Inv'
      OBVIOUS
    <2>1. CASE Next
      BY <2>1, CommitStep DEF Next
    <2>2. CASE UNCHANGED vars
      BY <2>2 DEF vars, Inv
    <2> QED
      BY <2>1, <2>2
  <1> QED
    BY <1>1, <1>2, PTL DEF Spec

\* The window is a value of the Rust struct in every reachable state.
THEOREM TypeCorrect == Spec => []TypeOK
  <1>1. Inv => TypeOK
    BY DEF Inv, Represents, TypeOK
  <1> QED
    BY <1>1, InvHolds, PTL

\* The RING ALIASING INVARIANT of replay_window.rs holds for every geometry:
\* the bit of an in-window counter says whether that counter was accepted.
THEOREM RingAliasingHolds == Spec => []RingAliasing
  <1>1. Inv => RingAliasing
    BY DEF Inv, Represents, RingAliasing
  <1> QED
    BY <1>1, InvHolds, PTL

\* commit never accepts a counter twice.
THEOREM NoReplayHolds == Spec => []NoReplay
  <1>1. Inv => NoReplay
    BY DEF Inv, Represents, NoReplay
  <1> QED
    BY <1>1, InvHolds, PTL

\* would_reject and commit decide every counter alike, and exactly the fresh
\* counters pass: the refused-commit branch of session.rs cannot be reached.
THEOREM PrecheckDecidesHolds == Spec => []PrecheckDecides
  <1>1. ASSUME Inv, NEW c \in Counters
        PROVE  /\ would_reject(window, c) <=> ~commit(window, c).ok
               /\ would_reject(window, c) <=> ~Abstract!Fresh(c)
    <2>1. c \in Nat /\ window.initialized \in BOOLEAN /\ window.max_counter \in Nat
      BY <1>1, CountersAssumption DEF Inv, Represents, Window
    <2>2. would_reject(window, c) <=> ~commit(window, c).ok
      BY <2>1, CommitVerdict
    <2>3. would_reject(window, c) <=> ~FreshAfter(accepted, c)
      BY <1>1, <2>1, PrecheckExact DEF Inv
    <2> QED
      BY <2>2, <2>3 DEF FreshAfter, Abstract!Fresh
  <1>2. Inv => PrecheckDecides
    BY <1>1 DEF PrecheckDecides
  <1> QED
    BY <1>2, InvHolds, PTL

\* The ring implements the abstract sliding window: each step either takes a
\* fresh counter or changes nothing the abstract filter can see.
THEOREM Refinement == Spec => ImplementsSlidingWindow
  <1>1. Init => Abstract!Init
    BY DEF Init, Abstract!Init, default_window
  <1>2. Inv /\ [Next]_vars => [Abstract!Next]_(Abstract!vars)
    <2> SUFFICES ASSUME Inv, [Next]_vars
                 PROVE  [Abstract!Next]_(Abstract!vars)
      OBVIOUS
    <2>1. ASSUME NEW c \in Counters, Commit(c)
          PROVE  [Abstract!Next]_(Abstract!vars)
      <3>1. c \in Nat /\ window.initialized \in BOOLEAN /\ window.max_counter \in Nat
              /\ window.packets_received \in Nat
        BY CountersAssumption DEF Inv, Represents, Window
      <3>2. CASE ~commit(window, c).ok
        BY <2>1, <3>2, CommitVerdict DEF Commit, Abstract!vars
      <3>3. CASE commit(window, c).ok
        <4>1. Abstract!Fresh(c)
          BY <3>1, <3>3, CommitVerdict, PrecheckExact DEF Inv, FreshAfter, Abstract!Fresh
        <4>2. commit(window, c).window.packets_received = window.packets_received + 1
          BY <3>3 DEF commit, accept, refuse
        <4> QED
          BY <2>1, <3>3, <4>1, <4>2 DEF Commit, Abstract!Next, Abstract!Take
      <3> QED
        BY <3>2, <3>3
    <2>2. CASE UNCHANGED vars
      BY <2>2 DEF vars, Abstract!vars
    <2> QED
      BY <2>1, <2>2 DEF Next
  <1> QED
    BY <1>1, <1>2, InvHolds, PTL DEF Spec, ImplementsSlidingWindow, Abstract!Spec

-----------------------------------------------------------------------------
(* The reference window.                                                   *)

\* A position of the bitmap is a word and a bit of it.
LEMMA Position ==
    ASSUME NEW a \in 0 .. WINDOW_SIZE - 1
    PROVE  /\ a \div BLOCK_BITS \in Blocks /\ a % BLOCK_BITS \in Bits
           /\ a = BLOCK_BITS * (a \div BLOCK_BITS) + (a % BLOCK_BITS)
  <1> DEFINE q == a \div BLOCK_BITS
             r == a % BLOCK_BITS
  <1>1. /\ q \in Nat /\ r \in 0 .. BLOCK_BITS - 1 /\ a = BLOCK_BITS * q + r
    <2>1. a \in Nat
      BY WindowSizeType
    <2> QED
      BY <2>1, DivMod, GeometryAssumption, Zenon
  <1> HIDE DEF q, r
  <1>2. q < NUM_BLOCKS
    <2> SUFFICES ASSUME q >= NUM_BLOCKS PROVE FALSE
      BY <1>1, GeometryAssumption
    <2>1. q = NUM_BLOCKS \/ BLOCK_BITS * NUM_BLOCKS + BLOCK_BITS <= BLOCK_BITS * q
      BY <1>1, MultipleStep, GeometryAssumption
    <2> QED
      BY <1>1, <2>1, GeometryAssumption DEF WINDOW_SIZE
  <1> QED
    BY <1>1, <1>2, GeometryAssumption DEF Blocks, Bits, q, r

\* A word number below zero is a position below zero.
LEMMA SignedParts ==
    ASSUME NEW q \in Int, NEW r \in Bits, NEW a \in Int, a = BLOCK_BITS * q + r
    PROVE  /\ a >= 0 <=> q >= 0
           /\ a >= 0 => a \div BLOCK_BITS = q /\ a % BLOCK_BITS = r
  <1>1. CASE q >= 0
    BY <1>1, DivModUnique, GeometryAssumption DEF Bits
  <1>2. CASE q < 0
    <2>1. BLOCK_BITS * q <= -BLOCK_BITS
      BY <1>2, GeometryAssumption
    <2>2. BLOCK_BITS * q \in Int
      BY GeometryAssumption
    <2> QED
      BY <1>2, <2>1, <2>2, GeometryAssumption DEF Bits
  <1> QED
    BY <1>1, <1>2

LEMMA RefSetBit ==
    ASSUME NEW bm \in Bitmap, NEW a \in 0 .. WINDOW_SIZE - 1
    PROVE  /\ ref_set_bit(bm, a) \in Bitmap
           /\ \A b \in 0 .. WINDOW_SIZE - 1 :
                 ref_test_bit(ref_set_bit(bm, a), b) <=> ref_test_bit(bm, b) \/ b = a
  <1>1. \A b \in 0 .. WINDOW_SIZE - 1 :
            /\ b \div BLOCK_BITS \in Blocks /\ b % BLOCK_BITS \in Bits
            /\ b = BLOCK_BITS * (b \div BLOCK_BITS) + (b % BLOCK_BITS)
    BY Position
  <1>2. \A i \in Blocks : i < NUM_BLOCKS
    BY GeometryAssumption DEF Blocks
  <1>3. ref_set_bit(bm, a) = [bm EXCEPT ![a \div BLOCK_BITS] = @ \cup {a % BLOCK_BITS}]
    BY <1>1, <1>2 DEF ref_set_bit
  <1>4. ref_set_bit(bm, a) \in Bitmap
    BY <1>1, <1>3 DEF Bitmap
  <1>5. ASSUME NEW b \in 0 .. WINDOW_SIZE - 1
        PROVE  ref_test_bit(ref_set_bit(bm, a), b) <=> ref_test_bit(bm, b) \/ b = a
    <2>1. b = a <=> /\ b \div BLOCK_BITS = a \div BLOCK_BITS
                    /\ b % BLOCK_BITS = a % BLOCK_BITS
      BY <1>1, Zenon
    <2> QED
      BY <1>1, <1>2, <1>3, <2>1 DEF ref_test_bit, Bitmap
  <1> QED
    BY <1>4, <1>5

\* A shift moves every bit up by the count, across words, and fills with
\* zeros.
LEMMA RefShiftLeft ==
    ASSUME NEW bm \in Bitmap, NEW n \in Nat \ {0}
    PROVE  /\ ref_shift_left(bm, n) \in Bitmap
           /\ \A a \in 0 .. WINDOW_SIZE - 1 :
                 ref_test_bit(ref_shift_left(bm, n), a)
                   <=> a >= n /\ ref_test_bit(bm, a - n)
  <1> DEFINE s == n \div BLOCK_BITS
             r == n % BLOCK_BITS
             Old(i) == IF i >= 0 THEN bm[i] ELSE {}
  <1>1. s \in Nat /\ r \in Bits /\ n = BLOCK_BITS * s + r
    BY DivMod, GeometryAssumption, Zenon DEF Bits
  <1>2. CASE n >= WINDOW_SIZE
    <2>1. ref_shift_left(bm, n) = zero_bitmap
      BY <1>2 DEF ref_shift_left
    <2> QED
      BY <1>2, <2>1, Position, WindowSizeType
      DEF zero_bitmap, Bitmap, ref_test_bit
  <1>3. ASSUME NEW a \in 0 .. WINDOW_SIZE - 1
        PROVE  /\ a \div BLOCK_BITS \in Blocks /\ a % BLOCK_BITS \in Bits
               /\ a = BLOCK_BITS * (a \div BLOCK_BITS) + (a % BLOCK_BITS)
    BY Position
  <1>4. \A i \in Blocks : i \in Nat /\ i < NUM_BLOCKS /\ BLOCK_BITS \in Nat
    BY GeometryAssumption DEF Blocks
  <1>5. \A i \in Blocks : \A k \in Nat : Old(i - k) \in SUBSET Bits
    BY GeometryAssumption DEF Blocks, Bitmap
  <1>6. CASE n < WINDOW_SIZE /\ r = 0
    <2>1. ref_shift_left(bm, n) = [i \in Blocks |-> Old(i - s)]
      BY <1>6, WindowSizeType DEF ref_shift_left
    <2>2. ref_shift_left(bm, n) \in Bitmap
      BY <1>1, <1>5, <2>1 DEF Bitmap
    <2>3. ASSUME NEW a \in 0 .. WINDOW_SIZE - 1
          PROVE  ref_test_bit(ref_shift_left(bm, n), a)
                   <=> a >= n /\ ref_test_bit(bm, a - n)
      <3> DEFINE i == a \div BLOCK_BITS
                 b == a % BLOCK_BITS
      <3>1. /\ i \in Blocks /\ b \in Bits /\ a = BLOCK_BITS * i + b
        BY <1>3
      <3>2. ref_test_bit(ref_shift_left(bm, n), a) <=> b \in Old(i - s)
        BY <1>4, <2>1, <3>1 DEF ref_test_bit
      <3> HIDE DEF i, b, s, r
      <3>3. a - n = BLOCK_BITS * (i - s) + b
        BY <1>1, <1>4, <1>6, <3>1
      <3>4. i - s \in Int /\ a - n \in Int /\ i - s < NUM_BLOCKS
        BY <1>1, <1>4, <3>1, WindowSizeType, GeometryAssumption
      <3>5. /\ a - n >= 0 <=> i - s >= 0
            /\ a - n >= 0 => (a - n) \div BLOCK_BITS = i - s /\ (a - n) % BLOCK_BITS = b
        BY <3>1, <3>3, <3>4, SignedParts
      <3>6. a >= n <=> a - n >= 0
        BY WindowSizeType
      <3> QED
        BY <3>2, <3>4, <3>5, <3>6 DEF ref_test_bit
    <2> QED
      BY <2>2, <2>3
  <1>7. CASE n < WINDOW_SIZE /\ r # 0
    <2>1. ref_shift_left(bm, n) =
            [i \in Blocks |-> shl(Old(i - s), r) \cup shr(Old(i - s - 1), BLOCK_BITS - r)]
      BY <1>7, WindowSizeType DEF ref_shift_left
    <2>2. ref_shift_left(bm, n) \in Bitmap
      BY <2>1 DEF Bitmap, shl, shr
    <2>3. ASSUME NEW a \in 0 .. WINDOW_SIZE - 1
          PROVE  ref_test_bit(ref_shift_left(bm, n), a)
                   <=> a >= n /\ ref_test_bit(bm, a - n)
      <3> DEFINE i == a \div BLOCK_BITS
                 b == a % BLOCK_BITS
      <3>1. /\ i \in Blocks /\ b \in Bits /\ a = BLOCK_BITS * i + b
        BY <1>3
      <3>2. ref_test_bit(ref_shift_left(bm, n), a)
              <=> b - r \in Old(i - s) \/ b + (BLOCK_BITS - r) \in Old(i - s - 1)
        BY <1>4, <2>1, <3>1 DEF ref_test_bit, shl, shr
      <3>3. Old(i - s) \subseteq Bits /\ Old(i - s - 1) \subseteq Bits
        <4>1. i - s - 1 = i - (s + 1) /\ s + 1 \in Nat
          BY <1>1, <1>4, <3>1, SMTT(30)
        <4> QED
          BY <1>1, <1>5, <3>1, <4>1
      <3> HIDE DEF i, b, s, r, Old
      <3>4. /\ i \in Nat /\ i < NUM_BLOCKS /\ s \in Nat /\ BLOCK_BITS \in Nat
            /\ b \in 0 .. BLOCK_BITS - 1 /\ r \in 1 .. BLOCK_BITS - 1
            /\ a \in Int /\ NUM_BLOCKS \in Int
        BY <1>1, <1>4, <1>7, <3>1, WindowSizeType, GeometryAssumption DEF Bits
      <3>5. a >= n <=> a - n >= 0
        BY <3>4
      <3>6. CASE b >= r
        <4> DEFINE k == i - s
                   d == b - r
        <4>1. k \in Int /\ d \in Bits /\ a - n \in Int /\ k < NUM_BLOCKS
          BY <3>4, <3>6 DEF Bits
        <4>2. a - n = BLOCK_BITS * k + d
          BY <1>1, <3>1, <3>4
        <4>3. b + (BLOCK_BITS - r) \notin Bits
          BY <3>4, <3>6 DEF Bits
        <4> HIDE DEF k, d
        <4>4. /\ a - n >= 0 <=> k >= 0
              /\ a - n >= 0 => (a - n) \div BLOCK_BITS = k /\ (a - n) % BLOCK_BITS = d
          BY <4>1, <4>2, SignedParts
        <4>5. ref_test_bit(ref_shift_left(bm, n), a) <=> d \in Old(k)
          BY <3>2, <3>3, <4>3 DEF k, d
        <4> QED
          BY <3>5, <4>1, <4>4, <4>5 DEF ref_test_bit, Old
      <3>7. CASE b < r
        <4> DEFINE k == i - s - 1
                   d == b + (BLOCK_BITS - r)
        <4>1. k \in Int /\ d \in Bits /\ a - n \in Int /\ k < NUM_BLOCKS
          BY <3>4, <3>7 DEF Bits
        <4>2. a - n = BLOCK_BITS * k + d
          BY <1>1, <3>1, <3>4
        <4>3. b - r \notin Bits
          BY <3>4, <3>7 DEF Bits
        <4> HIDE DEF k, d
        <4>4. /\ a - n >= 0 <=> k >= 0
              /\ a - n >= 0 => (a - n) \div BLOCK_BITS = k /\ (a - n) % BLOCK_BITS = d
          BY <4>1, <4>2, SignedParts
        <4>5. ref_test_bit(ref_shift_left(bm, n), a) <=> d \in Old(k)
          BY <3>2, <3>3, <4>3 DEF k, d
        <4> QED
          BY <3>5, <4>1, <4>4, <4>5 DEF ref_test_bit, Old
      <3> QED
        BY <3>4, <3>6, <3>7
    <2> QED
      BY <2>2, <2>3
  <1> QED
    BY <1>2, <1>6, <1>7, WindowSizeType

\* The meaning of a reference window: bit a says whether the counter a below
\* the maximum was accepted.
RefRepresents(w, taken) ==
    /\ w \in Window
    /\ w.packets_received = Cardinality(taken)
    /\ ExactMaximum(w, taken)
    /\ \A a \in 0 .. WINDOW_SIZE - 1 :
          ref_test_bit(w.bitmap, a) <=> w.max_counter - a \in taken

LEMMA RefDefault == RefRepresents(default_window, {})
  <1>1. default_window \in Window
    BY DEF default_window, Window, zero_bitmap, Bitmap
  <1>2. Cardinality({}) = 0
    BY FS_EmptySet
  <1>3. \A a \in 0 .. WINDOW_SIZE - 1 : ~ref_test_bit(zero_bitmap, a)
    BY Position DEF ref_test_bit, zero_bitmap
  <1> QED
    BY <1>1, <1>2, <1>3 DEF RefRepresents, ExactMaximum, default_window

\* The reference refuses exactly the counters that are not fresh, in its
\* pre-check and in its commit.
LEMMA RefExact ==
    ASSUME NEW w, NEW taken, RefRepresents(w, taken), taken \subseteq Nat, NEW c \in Nat
    PROVE  /\ ref_would_reject(w, c) <=> ~FreshAfter(taken, c)
           /\ ref_commit(w, c).ok \in BOOLEAN
           /\ ref_commit(w, c).ok <=> FreshAfter(taken, c)
  <1> DEFINE max == w.max_counter
             age == max - c
  <1>1. max \in Nat /\ w.initialized \in BOOLEAN /\ WINDOW_SIZE \in Nat \ {0}
    BY WindowSizeType DEF RefRepresents, Window
  <1>2. ref_would_reject(w, c) <=> ~FreshAfter(taken, c)
    <2>1. CASE ~w.initialized
      BY <2>1 DEF ref_would_reject, FreshAfter, RefRepresents, ExactMaximum
    <2>2. CASE w.initialized /\ c > max
      BY <1>1, <2>2 DEF ref_would_reject, FreshAfter, RefRepresents, ExactMaximum
    <2>3. CASE w.initialized /\ c <= max /\ age >= WINDOW_SIZE
      BY <1>1, <2>3 DEF ref_would_reject, FreshAfter, RefRepresents, ExactMaximum
    <2>4. CASE w.initialized /\ c <= max /\ age < WINDOW_SIZE
      <3>1. age \in 0 .. WINDOW_SIZE - 1 /\ max - age = c
        BY <1>1, <2>4
      <3>2. ref_test_bit(w.bitmap, age) <=> c \in taken
        BY <3>1 DEF RefRepresents
      <3>3. \A d \in taken : d - c < WINDOW_SIZE
        BY <1>1, <2>4 DEF RefRepresents, ExactMaximum
      <3> QED
        BY <1>1, <2>4, <3>2, <3>3 DEF ref_would_reject, FreshAfter
    <2> QED
      BY <1>1, <2>1, <2>2, <2>3, <2>4
  <1>3. ref_commit(w, c).ok <=> ~ref_would_reject(w, c)
    BY <1>1 DEF ref_commit, ref_would_reject, refuse
  <1>4. ref_commit(w, c).ok \in BOOLEAN
    BY DEF ref_commit, refuse
  <1> QED
    BY <1>2, <1>3, <1>4

\* What the reference does with a packet it takes.
LEMMA RefTakes ==
    ASSUME NEW w, NEW taken, RefRepresents(w, taken), taken \subseteq Nat,
           NEW c \in Nat, FreshAfter(taken, c)
    PROVE  LET new == ref_commit(w, c).window
               max == IF ~w.initialized \/ c > w.max_counter THEN c ELSE w.max_counter
           IN  /\ new \in Window /\ new.initialized /\ new.max_counter = max
               /\ new.packets_received = w.packets_received + 1
               /\ \A a \in 0 .. WINDOW_SIZE - 1 :
                     ref_test_bit(new.bitmap, a) <=> max - a \in taken \cup {c}
  <1> DEFINE old == w.max_counter
             new == ref_commit(w, c).window
             New(m, bm) == [max_counter |-> m, bitmap |-> bm,
                            packets_received |-> w.packets_received + 1,
                            initialized |-> TRUE]
             Exact(m, bm) == \A a \in 0 .. WINDOW_SIZE - 1 :
                                ref_test_bit(bm, a) <=> m - a \in taken \cup {c}
  <1>1. /\ old \in Nat /\ w.initialized \in BOOLEAN /\ WINDOW_SIZE \in Nat \ {0}
        /\ w.bitmap \in Bitmap /\ w.packets_received \in Nat
        /\ \A a \in 0 .. WINDOW_SIZE - 1 : ref_test_bit(w.bitmap, a) <=> old - a \in taken
    BY WindowSizeType DEF RefRepresents, Window
  <1>2. ASSUME NEW m \in Nat, NEW bm \in Bitmap
        PROVE  /\ New(m, bm) \in Window /\ New(m, bm).initialized
               /\ New(m, bm).max_counter = m /\ New(m, bm).bitmap = bm
               /\ New(m, bm).packets_received = w.packets_received + 1
    BY <1>1, <1>2 DEF Window
  <1>3. ASSUME NEW bm \in Bitmap
        PROVE  [bm EXCEPT ![0] = @ \cup {0}] = ref_set_bit(bm, 0)
    <2>1. 0 \div BLOCK_BITS = 0 /\ 0 % BLOCK_BITS = 0 /\ 0 < NUM_BLOCKS
      BY GeometryAssumption
    <2> QED
      BY <2>1, Zenon DEF ref_set_bit
  <1>4. CASE ~w.initialized
    <2> DEFINE bm == [w.bitmap EXCEPT ![0] = {0}]
    <2>1. new = New(c, bm)
      BY <1>4 DEF ref_commit
    <2>2. taken = {} /\ \A a \in 0 .. WINDOW_SIZE - 1 : ~ref_test_bit(w.bitmap, a)
      BY <1>1, <1>4 DEF RefRepresents, ExactMaximum
    <2>3. bm = ref_set_bit(w.bitmap, 0)
      <3>1. 0 \in 0 .. WINDOW_SIZE - 1 /\ 0 \in Blocks
        BY <1>1, GeometryAssumption DEF Blocks
      <3>2. w.bitmap[0] = {}
        <4>1. ASSUME NEW b \in w.bitmap[0]
              PROVE  FALSE
          <5>1. b \in Bits
            BY <1>1, <3>1 DEF Bitmap
          <5>2. /\ BLOCK_BITS * 0 + b = b /\ b \in Nat
                /\ b \div BLOCK_BITS = 0 /\ b % BLOCK_BITS = b
            BY <5>1, SignedParts, GeometryAssumption DEF Bits
          <5>3. b \in 0 .. WINDOW_SIZE - 1
            <6>1. BLOCK_BITS <= WINDOW_SIZE
              BY GeometryAssumption DEF WINDOW_SIZE
            <6> QED
              BY <1>1, <5>1, <6>1, GeometryAssumption DEF Bits
          <5>4. ref_test_bit(w.bitmap, b)
            <6>1. 0 < NUM_BLOCKS
              BY GeometryAssumption
            <6> QED
              BY <4>1, <5>2, <6>1, Zenon DEF ref_test_bit
          <5> QED
            BY <2>2, <5>3, <5>4
        <4> QED
          BY <4>1
      <3> QED
        BY <1>1, <1>3, <3>2, Zenon
    <2>4. bm \in Bitmap /\ Exact(c, bm)
      <3>1. 0 \in 0 .. WINDOW_SIZE - 1
        BY <1>1
      <3>2. /\ ref_set_bit(w.bitmap, 0) \in Bitmap
            /\ \A a \in 0 .. WINDOW_SIZE - 1 :
                  ref_test_bit(ref_set_bit(w.bitmap, 0), a) <=> a = 0
        BY <1>1, <2>2, <3>1, RefSetBit
      <3>3. \A a \in 0 .. WINDOW_SIZE - 1 : c - a = c <=> a = 0
        BY <1>1
      <3> HIDE DEF bm
      <3> QED
        BY <2>2, <2>3, <3>2, <3>3
    <2> HIDE DEF bm, New
    <2> QED
      BY <1>2, <1>4, <2>1, <2>4
  <1>5. CASE w.initialized /\ c > old
    <2> DEFINE n == c - old
               shifted == ref_shift_left(w.bitmap, n)
               bm == ref_set_bit(shifted, 0)
    <2>1. n \in Nat \ {0} /\ 0 \in 0 .. WINDOW_SIZE - 1 /\ n > 0
      BY <1>1, <1>5
    <2>2. /\ shifted \in Bitmap
          /\ \A a \in 0 .. WINDOW_SIZE - 1 :
                ref_test_bit(shifted, a) <=> a >= n /\ ref_test_bit(w.bitmap, a - n)
      BY <1>1, <2>1, RefShiftLeft
    <2>3. new = New(c, bm)
      BY <1>3, <1>5, <2>1, <2>2, Zenon DEF ref_commit
    <2>4. /\ bm \in Bitmap
          /\ \A a \in 0 .. WINDOW_SIZE - 1 :
                ref_test_bit(bm, a) <=> ref_test_bit(shifted, a) \/ a = 0
      BY <2>1, <2>2, RefSetBit
    <2> HIDE DEF bm, shifted, New
    <2>5. Exact(c, bm)
      <3> SUFFICES ASSUME NEW a \in 0 .. WINDOW_SIZE - 1
                   PROVE  ref_test_bit(bm, a) <=> c - a \in taken \cup {c}
        OBVIOUS
      <3>1. \A d \in taken : d <= old
        BY <1>5 DEF RefRepresents, ExactMaximum
      <3>2. CASE a >= n
        <4>1. a - n \in 0 .. WINDOW_SIZE - 1 /\ old - (a - n) = c - a /\ a # 0
          BY <1>1, <2>1, <3>2
        <4>2. c - a # c
          BY <1>1, <4>1
        <4>3. ref_test_bit(w.bitmap, a - n) <=> c - a \in taken
          BY <1>1, <4>1
        <4> QED
          BY <2>2, <2>4, <3>2, <4>1, <4>2, <4>3
      <3>3. CASE a < n
        <4>1. c - a \notin taken
          BY <1>1, <3>1, <3>3
        <4>2. c - a = c <=> a = 0
          BY <1>1
        <4>3. ~(a >= n)
          BY <1>1, <2>1, <3>3
        <4> QED
          BY <2>2, <2>4, <4>1, <4>2, <4>3
      <3> QED
        BY <1>1, <2>1, <3>2, <3>3
    <2> QED
      BY <1>2, <1>5, <2>3, <2>4, <2>5
  <1>6. CASE w.initialized /\ c <= old
    <2> DEFINE age == old - c
               bm == ref_set_bit(w.bitmap, age)
    <2>1. age \in 0 .. WINDOW_SIZE - 1 /\ c \notin taken
      BY <1>1, <1>6 DEF FreshAfter, RefRepresents, ExactMaximum
    <2>2. new = New(old, bm)
      <3>1. ~ref_test_bit(w.bitmap, age)
        BY <1>1, <2>1
      <3> QED
        BY <1>1, <1>6, <2>1, <3>1 DEF ref_commit
    <2>3. /\ bm \in Bitmap
          /\ \A a \in 0 .. WINDOW_SIZE - 1 :
                ref_test_bit(bm, a) <=> ref_test_bit(w.bitmap, a) \/ a = age
      BY <1>1, <2>1, RefSetBit
    <2>4. \A a \in 0 .. WINDOW_SIZE - 1 : old - a = c <=> a = age
      BY <1>1
    <2> HIDE DEF bm, age, New
    <2>5. Exact(old, bm)
      BY <1>1, <2>3, <2>4
    <2>6. ~(c > old)
      BY <1>1, <1>6
    <2> QED
      BY <1>1, <1>2, <1>6, <2>2, <2>3, <2>5, <2>6
  <1> QED
    BY <1>1, <1>4, <1>5, <1>6

\* The reference's commit keeps its meaning.
LEMMA RefCommitRepresents ==
    ASSUME NEW w, NEW taken, RefRepresents(w, taken), taken \subseteq Nat,
           IsFiniteSet(taken), NEW c \in Nat
    PROVE  RefRepresents(ref_commit(w, c).window,
                         IF FreshAfter(taken, c) THEN taken \cup {c} ELSE taken)
  <1>1. CASE ~FreshAfter(taken, c)
    <2>1. ~ref_commit(w, c).ok
      BY <1>1, RefExact, Zenon
    <2>2. ref_commit(w, c).window = w
      BY <2>1 DEF ref_commit, refuse
    <2> QED
      BY <1>1, <2>2
  <1>2. CASE FreshAfter(taken, c)
    <2> DEFINE new == ref_commit(w, c).window
               max == IF ~w.initialized \/ c > w.max_counter THEN c ELSE w.max_counter
    <2>1. /\ new \in Window /\ new.initialized /\ new.max_counter = max
          /\ new.packets_received = w.packets_received + 1
          /\ \A a \in 0 .. WINDOW_SIZE - 1 :
                ref_test_bit(new.bitmap, a) <=> max - a \in taken \cup {c}
      BY <1>2, RefTakes
    <2>2. Cardinality(taken \cup {c}) = Cardinality(taken) + 1
      BY <1>2, FS_AddElement DEF FreshAfter
    <2>3. max \in taken \cup {c} /\ \A d \in taken \cup {c} : d <= max
      BY DEF RefRepresents, ExactMaximum, Window
    <2> HIDE DEF new, max
    <2> QED
      BY <1>2, <2>1, <2>2, <2>3 DEF RefRepresents, ExactMaximum, new
  <1> QED
    BY <1>1, <1>2

-----------------------------------------------------------------------------
(* Both windows, in lock step.                                             *)

\* Both stand for the counters accepted so far.
DifferentialInv == /\ Inv
                   /\ RefRepresents(reference, accepted)
                   /\ window.max_counter = reference.max_counter
                   /\ verdicts[1] = verdicts[2]

LEMMA BothRepresent ==
    ASSUME DifferentialInv
    PROVE  SameWindow
  <1>1. /\ Represents(window, accepted) /\ RefRepresents(reference, accepted)
        /\ accepted \subseteq Nat /\ WINDOW_SIZE \in Nat \ {0}
        /\ window.max_counter \in Nat
        /\ window.max_counter = reference.max_counter
    BY WindowSizeType DEF DifferentialInv, Inv, Represents, Window
  <1>2. window.packets_received = reference.packets_received
    BY <1>1 DEF Represents, RefRepresents
  <1>3. ASSUME NEW c \in Counters
        PROVE  would_reject(window, c) <=> ref_would_reject(reference, c)
    BY <1>1, PrecheckExact, RefExact, CountersAssumption, Zenon
  <1>4. ASSUME window.initialized, NEW a \in 0 .. WINDOW_SIZE - 1,
               a <= window.max_counter
        PROVE  bit_is_set(window.bitmap, window.max_counter - a)
                 <=> ref_test_bit(reference.bitmap, a)
    <2>1. /\ window.max_counter - a \in 0 .. window.max_counter
          /\ window.max_counter - (window.max_counter - a) < WINDOW_SIZE
      BY <1>1, <1>4
    <2>2. bit_is_set(window.bitmap, window.max_counter - a)
            <=> window.max_counter - a \in accepted
      BY <1>1, <1>4, <2>1 DEF Represents, ExactBits
    <2> QED
      BY <1>1, <2>2 DEF RefRepresents
  <1> QED
    BY <1>1, <1>2, <1>3, <1>4 DEF SameWindow, DifferentialInv

LEMMA CommitBothStep ==
    ASSUME DifferentialInv, NEW c \in Counters, CommitBoth(c)
    PROVE  DifferentialInv'
  <1>1. /\ c \in Nat /\ Represents(window, accepted) /\ RefRepresents(reference, accepted)
        /\ accepted \subseteq Nat /\ IsFiniteSet(accepted)
        /\ window.initialized \in BOOLEAN /\ window.max_counter \in Nat
    BY CountersAssumption DEF DifferentialInv, Inv, Represents, Window
  <1>2. /\ Commit(c) /\ reference' = ref_commit(reference, c).window
        /\ verdicts' = <<commit(window, c).ok, ref_commit(reference, c).ok>>
    BY DEF CommitBoth
  <1>3. Inv'
    BY <1>2, CommitStep DEF DifferentialInv
  <1>4. /\ commit(window, c).ok \in BOOLEAN /\ ref_commit(reference, c).ok \in BOOLEAN
        /\ commit(window, c).ok <=> FreshAfter(accepted, c)
        /\ ref_commit(reference, c).ok <=> FreshAfter(accepted, c)
    BY <1>1, CommitVerdict, PrecheckExact, RefExact, Zenon
  <1>5. accepted' = IF FreshAfter(accepted, c) THEN accepted \cup {c} ELSE accepted
    BY <1>2, <1>4 DEF Commit
  <1>6. RefRepresents(reference, accepted)'
    <2>1. RefRepresents(reference', accepted')
      BY <1>1, <1>2, <1>5, RefCommitRepresents, Zenon
    <2> QED
      BY <2>1 DEF RefRepresents, ExactMaximum, ref_test_bit
  <1>7. accepted' # {}
    BY <1>5 DEF FreshAfter
  <1>8. window'.max_counter = reference'.max_counter
    <2>1. /\ window'.max_counter \in accepted' /\ reference'.max_counter \in accepted'
          /\ \A d \in accepted' : d <= window'.max_counter /\ d <= reference'.max_counter
      BY <1>3, <1>6, <1>7 DEF Inv, Represents, RefRepresents, ExactMaximum
    <2>2. window'.max_counter \in Nat /\ reference'.max_counter \in Nat
      BY <1>3, <1>6 DEF Inv, Represents, RefRepresents, Window
    <2> QED
      BY <2>1, <2>2
  <1>9. verdicts'[1] = verdicts'[2]
    BY <1>2, <1>4
  <1> QED
    BY <1>3, <1>6, <1>8, <1>9 DEF DifferentialInv

\* Both windows stand for the same accepted counters at every moment.
THEOREM DifferentialInvHolds == DifferentialSpec => []DifferentialInv
  <1>1. DifferentialInit => DifferentialInv
    BY DefaultRepresents, RefDefault
    DEF DifferentialInit, Init, DifferentialInv, Inv
  <1>2. DifferentialInv /\ [DifferentialNext]_differential_vars => DifferentialInv'
    <2> SUFFICES ASSUME DifferentialInv, [DifferentialNext]_differential_vars
                 PROVE  DifferentialInv'
      OBVIOUS
    <2>1. CASE UNCHANGED differential_vars
      BY <2>1 DEF differential_vars, vars, DifferentialInv, Inv
    <2> QED
      BY <2>1, CommitBothStep DEF DifferentialNext
  <1> QED
    BY <1>1, <1>2, PTL DEF DifferentialSpec

\* The ring of replay_window.rs and the shifting bitmap of its test module
\* agree on every packet of every sequence, for every ring geometry: what the
\* differential tests sample.
THEOREM SameWindowHolds == DifferentialSpec => []SameWindow
  <1>1. DifferentialInv => SameWindow
    BY BothRepresent
  <1> QED
    BY <1>1, DifferentialInvHolds, PTL

\* Watching the reference does not change what the ring does, so all of the
\* above holds of the two in lock step.
THEOREM DifferentialRuns == DifferentialSpec => Spec
  <1>1. DifferentialInit => Init
    BY DEF DifferentialInit
  <1>2. [DifferentialNext]_differential_vars => [Next]_vars
    BY DEF DifferentialNext, CommitBoth, Next, differential_vars, vars
  <1> QED
    BY <1>1, <1>2, PTL DEF DifferentialSpec, Spec
=============================================================================
