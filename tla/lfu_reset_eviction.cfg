\* LFU with resets: reset() keeps stale LFU counters, and way 0 is never taken as a free way.
CONSTANTS
    Enabled = TRUE
    Associativity = 2
    Sets = 2
    Blocks = 2
    Configs <- MC_LfuThroughAlloc
    access_pen_r = 2
    access_pen_w = 2
    access_pen_b = 1
    uncached_start <- MC_uncached_start
    MemWords <- MC_MemWords
    Addrs <- MC_Row0Addrs
    Val = {0, 1}
    Val0 = 0
    MaxOps = 6
SPECIFICATION Spec
PROPERTY NoEvictionWhileWayFree
