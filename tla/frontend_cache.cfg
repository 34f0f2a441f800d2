\* Byte, half-word and word access through a write-back direct-mapped cache.
CONSTANTS
    Enabled = TRUE
    Associativity = 1
    Sets = 1
    Blocks = 1
    Configs <- MC_Configs
    access_pen_r = 2
    access_pen_w = 2
    access_pen_b = 0
    uncached_start <- MC_uncached_start
    MemWords <- MC_MemWords
    HostEndian = "LITTLE"
    Inputs <- MC_Inputs
    MaxOps = 2
SPECIFICATION Spec
PROPERTY FrontendOverCacheRefinesByteMemory
