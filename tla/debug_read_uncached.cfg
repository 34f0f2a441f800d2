\* A debug read of the uncached window counts a memory read.
CONSTANTS
    Enabled = TRUE
    Associativity = 2
    Sets = 2
    Blocks = 2
    Configs <- MC_LruBack
    access_pen_r = 2
    access_pen_w = 2
    access_pen_b = 1
    uncached_start <- MC_uncached_start
    MemWords <- MC_MemWords
    Addrs <- MC_Addrs
    Val = {0, 1}
    Val0 = 0
    MaxOps = 3
SPECIFICATION Spec
PROPERTY DebugReadIsSideEffectFree
