CONSTANTS
    NUM_BLOCKS = 4
    BLOCK_BITS = 4
    MaxU64 = 47
    Counters = {0, 2, 3, 4, 8, 11, 15, 16, 17, 18, 19, 31, 32, 35, 46, 47}
SPECIFICATION DifferentialSpec
INVARIANTS RingAliasing NoReplay PrecheckDecides SameWindow
PROPERTY ImplementsSlidingWindow
