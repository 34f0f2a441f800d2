\* Write-back: changes of what the cache shows against change_counter.
CONSTANTS
    Enabled = TRUE
    Associativity = 2
    Sets = 2
    Blocks = 2
    Configs <- MC_LruBack
    access_pen_r = 2
    access_pen_w = 2
    access_pen_b = 1
    uncached_start <- MC_uncached_start
    MemWords <- MC_MemWords
    Addrs <- MC_CachedAddrs
    Val = {0, 1}
    Val0 = 0
    MaxOps = 4
SPECIFICATION Spec
PROPERTY CacheViewChangeBumpsCounter
