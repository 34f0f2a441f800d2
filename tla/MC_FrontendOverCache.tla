------------------------ MODULE MC_FrontendOverCache -------------------------
EXTENDS FrontendOverCache

\* two words that share the one set of a direct-mapped cache, so that the
\* read of a sub-word store can evict the other, dirty, word
MC_MemWords == 2

\* the first word past the memory: no address is uncached
MC_uncached_start == 8

MC_Configs == {[replacement_policy |-> "RP_LRU", write_policy |-> "WP_BACK"]}

MC_NoallocConfigs ==
    {[replacement_policy |-> "RP_LRU", write_policy |-> "WP_THROUGH_NOALLOC"]}

\* 0x007f0180: bytes 0x80 (sign bit set), 0x01, 0x7f and 0x00, all
\* different, so that a misplaced lane is visible, and 0x80 alone
MC_Inputs == {ToWord(8323456), ToWord(128)}
=============================================================================
