\* Random replacement, write-through without allocation, with resets and the uncached window.
CONSTANTS
    Enabled = TRUE
    Associativity = 2
    Sets = 2
    Blocks = 2
    Configs <- MC_RandThroughNoalloc
    access_pen_r = 2
    access_pen_w = 2
    access_pen_b = 1
    uncached_start <- MC_uncached_start
    MemWords <- MC_MemWords
    Addrs <- MC_Addrs
    Val = {0, 1}
    Val0 = 0
    MaxOps = 4
SPECIFICATION Spec
INVARIANT LineCoherence
INVARIANT SpeedImprovementDefined
INVARIANT StallCountDoesNotWrap
INVARIANT ShownStatisticsCurrent
PROPERTY CacheRefinesMemory
PROPERTY WriteReportsChange
