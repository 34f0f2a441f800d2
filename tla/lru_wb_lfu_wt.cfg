\* LRU with write-back and LFU with write-through and allocation, between
\* resets: the cache implements a word memory, the LRU order arrays stay
\* permutations, and neither policy evicts while a way is free.
CONSTANTS
    Enabled = TRUE
    Associativity = 2
    Sets = 2
    Blocks = 2
    Configs <- MC_LruBackOrLfuThroughAlloc
    access_pen_r = 2
    access_pen_w = 2
    access_pen_b = 1
    uncached_start <- MC_uncached_start
    MemWords <- MC_MemWords
    Addrs <- MC_CachedAddrs
    Val = {0, 1}
    Val0 = 0
    MaxOps = 4
SPECIFICATION SpecWithoutReset
INVARIANT TypeOK
INVARIANT LineCoherence
INVARIANT LruIsPermutation
INVARIANT ShownStatisticsCurrent
PROPERTY CacheRefinesMemory
PROPERTY FlushWritesBack
PROPERTY NoEvictionWhileWayFree
PROPERTY WriteReportsChange
