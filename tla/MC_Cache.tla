------------------------------- MODULE MC_Cache -------------------------------
(***************************************************************************)
(* Model-checking instance of Cache: 2 ways, 2 sets, 2 words per line.     *)
(* A set holds 4 words, so word index w has row (w % 4) \div 2 and tag     *)
(* w \div 4.  The issued addresses put three different blocks (tags 0, 1,  *)
(* 2) in row 0, which forces an eviction in a 2-way set, plus a second    *)
(* word of the tag-0 block, a row-1 block and one uncached word.           *)
(***************************************************************************)
EXTENDS Cache

\* byte addresses: words 0 and 1 (tag 0, row 0), word 2 (tag 0, row 1),
\* word 4 (tag 1, row 0), word 8 (tag 2, row 0), word 12 (uncached)
MC_Addrs == {0, 4, 8, 16, 32, 48}

\* the same without the uncached word
MC_CachedAddrs == MC_Addrs \ {48}

\* the three blocks of row 0 only
MC_Row0Addrs == {0, 16, 32}

MC_uncached_start == 48

MC_MemWords == 13

\* the policies of the CacheConfig the constructor is given
LruBack == [replacement_policy |-> "RP_LRU", write_policy |-> "WP_BACK"]
LfuThroughAlloc == [replacement_policy |-> "RP_LFU", write_policy |-> "WP_THROUGH_ALLOC"]
RandThroughNoalloc == [replacement_policy |-> "RP_RAND",
                       write_policy |-> "WP_THROUGH_NOALLOC"]

MC_LruBack == {LruBack}
MC_LfuThroughAlloc == {LfuThroughAlloc}
MC_RandThroughNoalloc == {RandThroughNoalloc}
MC_LruBackOrLfuThroughAlloc == {LruBack, LfuThroughAlloc}
=============================================================================
