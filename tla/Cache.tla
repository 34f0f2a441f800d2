-------------------------------- MODULE Cache --------------------------------
(***************************************************************************)
(* The set-associative cache emulation of QtMips (machine::Cache,          *)
(* src/qtmips_machine/memory/cache.cpp).  A Cache is a FrontendMemory     *)
(* that wraps another FrontendMemory (the MMU and the memories behind      *)
(* it), modelled here as the word memory mem.                              *)
(*                                                                         *)
(* State: the line grid dt[associativity][set], the replacement data       *)
(* (lru order arrays and lfu counters), the statistics counters cnt and    *)
(* change_counter.  One action per public operation: read, a debug read,   *)
(* write, flush (sync) and reset.  Each action is the whole call: the      *)
(* private access() and kick() steps are operators on a record of the      *)
(* state, composed in the order the code runs them.                        *)
(*                                                                         *)
(* op, ret and ops are ghost variables: op is the last call on the        *)
(* interface with the value it returned, ret the bool it returned (FALSE  *)
(* for a call other than write()), and ops counts calls that change        *)
(* counters and bounds them (MaxOps).                                      *)
(***************************************************************************)
EXTENDS Integers, Sequences, TLC

LOCAL INSTANCE FiniteSetsExt
LOCAL INSTANCE Functions

CONSTANTS
    Enabled,            \* cache_config.enabled()
    Associativity,      \* cache_config.associativity()
    Sets,               \* cache_config.sets()
    Blocks,             \* cache_config.blocks(), words per line
    Configs,            \* the policies the CacheConfig passed in may name
    access_pen_r,       \* memory_access_penalty_r
    access_pen_w,       \* memory_access_penalty_w
    access_pen_b,       \* memory_access_penalty_b (0: no burst)
    uncached_start,     \* first address of the uncached window (0xf0000000)
    MemWords,           \* words of the backing store, from address 0
    Addrs,              \* byte addresses the CPU issues accesses to
    Val,                \* values the CPU writes
    Val0,               \* the word 0: unwritten and unmapped words read as it
    MaxOps              \* bound on counted calls

Ways == 0 .. Associativity - 1
Rows == 0 .. Sets - 1
Cols == 0 .. Blocks - 1
MemAddrs == {4 * i : i \in 0 .. MemWords - 1}
\* the tags of the blocks of the backing store
Tags == 0 .. (MemWords - 1) \div (Blocks * Sets)

ASSUME
    /\ Enabled \in BOOLEAN
    /\ {Associativity, Sets, Blocks} \subseteq Nat \ {0}
    /\ Configs # {}
    /\ Configs \subseteq [replacement_policy : {"RP_RAND", "RP_LRU", "RP_LFU"},
                          write_policy : {"WP_THROUGH_NOALLOC", "WP_THROUGH_ALLOC",
                                          "WP_BACK"}]
    /\ {access_pen_r, access_pen_w} \subseteq Nat \ {0} /\ access_pen_b \in Nat
    /\ Addrs \subseteq MemAddrs /\ Val0 \in Val
    \* the uncached window starts on a line boundary, so no cached line
    \* ever holds an uncached word
    /\ uncached_start % (4 * Blocks) = 0

VARIABLES
    cache_config,    \* the policies of the CacheConfig, fixed by the constructor
    dt,              \* dt[way][row]: [valid, dirty, tag, data]
    lru,             \* replc.lru[row]: ways, least recently used first
    lfu,             \* replc.lfu[row][way]: use counts
    cnt,             \* hit_read .. burst_writes
    change_counter,
    shown,           \* the value each statistics signal last delivered
    mem,             \* contents of the backing FrontendMemory *mem
    op,              \* ghost: last call and its result
    ret,             \* ghost: the bool the last call returned
    ops              \* ghost: number of counted calls

vars == <<cache_config, dt, lru, lfu, cnt, change_counter, shown, mem, op, ret, ops>>

ReplacementPolicy == cache_config.replacement_policy

WritePolicy == cache_config.write_policy

Counters == {"hit_read", "hit_write", "miss_read", "miss_write",
             "mem_reads", "mem_writes", "burst_reads", "burst_writes"}

NoCounts == [c \in Counters |-> 0]

(***************************************************************************)
(* The statistics getters and the signals that deliver them to the views   *)
(* (hit_update, miss_update, memory_reads_update, memory_writes_update and *)
(* update_statistics()'s statistics_update).  The code computes in         *)
(* unsigned 32-bit arithmetic; the operators give the integer value, which *)
(* is the unsigned result whenever it lies in 0 .. 2^32 - 1.  A ratio is a *)
(* pair <<numerator, denominator>>.                                        *)
(***************************************************************************)
get_hit_count(c) == c.hit_read + c.hit_write

get_miss_count(c) == c.miss_read + c.miss_write

get_stall_count(c) ==
    c.mem_reads * (access_pen_r - 1) + c.mem_writes * (access_pen_w - 1)
      - (IF access_pen_b # 0
         THEN c.burst_reads * (access_pen_r - access_pen_b)
              + c.burst_writes * (access_pen_w - access_pen_b)
         ELSE 0)

comp(c) == c.hit_read + c.hit_write + c.miss_read + c.miss_write

lookup_time(c) ==
    c.hit_read + c.miss_read
      + (IF WritePolicy = "WP_BACK" THEN c.hit_write + c.miss_write ELSE 0)

mem_access_time(c) ==
    c.mem_reads * access_pen_r + c.mem_writes * access_pen_w
      - (IF access_pen_b # 0
         THEN c.burst_reads * (access_pen_r - access_pen_b)
              + c.burst_writes * (access_pen_w - access_pen_b)
         ELSE 0)

get_speed_improvement(c) ==
    IF comp(c) = 0 THEN <<100, 1>>
    ELSE <<((c.miss_read + c.hit_read) * access_pen_r
              + (c.miss_write + c.hit_write) * access_pen_w) * 100,
           lookup_time(c) + mem_access_time(c)>>

get_hit_rate(c) ==
    IF comp(c) = 0 THEN <<0, 1>> ELSE <<get_hit_count(c) * 100, comp(c)>>

Signals == {"hit_update", "miss_update", "memory_reads_update",
            "memory_writes_update", "statistics_update"}

SignalValue(c, n) ==
    CASE n = "hit_update"           -> get_hit_count(c)
      [] n = "miss_update"          -> get_miss_count(c)
      [] n = "memory_reads_update"  -> c.mem_reads
      [] n = "memory_writes_update" -> c.mem_writes
      [] n = "statistics_update"    ->
            <<get_stall_count(c), get_speed_improvement(c), get_hit_rate(c)>>

\* emit the signals names of state record s
Emit(s, names) ==
    [s EXCEPT !.shown = [n \in Signals |->
                            IF n \in names THEN SignalValue(s.cnt, n) ELSE @[n]]]

HitStats == {"hit_update", "statistics_update"}
MissStats == {"miss_update", "statistics_update"}
ReadStats == {"memory_reads_update", "statistics_update"}
WriteStats == {"memory_writes_update", "statistics_update"}

(***************************************************************************)
(* The backing store.  An address outside it reads as zero and a write to *)
(* it is lost, as the MMU does for an unmapped address; like the MMU it   *)
(* drops the two low bits of the address.                                 *)
(***************************************************************************)
MemRead(m, a) ==
    LET w == a - (a % 4) IN IF w \in MemAddrs THEN m[w] ELSE Val0

MemWrite(m, a, v) ==
    LET w == a - (a % 4) IN IF w \in MemAddrs THEN [m EXCEPT ![w] = v] ELSE m

\* what the write returns: whether the stored word differs from the old one
MemChanged(m, a, v) == MemRead(m, a) # v /\ a - (a % 4) \in MemAddrs

(***************************************************************************)
(* Address decomposition and its inverse.                                  *)
(***************************************************************************)
\* (mutant) the tag divides by the line size instead of the set size
compute_location_tag_by_blocks(a) ==
    LET byte_index == a \div 4
        ssize == Blocks * Sets
        index == byte_index % ssize
    IN  [row |-> index \div Blocks, col |-> index % Blocks,
         tag |-> byte_index \div Blocks]

compute_location(a) ==
    LET byte_index == a \div 4      \* Address::get_byte_index()
        ssize == Blocks * Sets
        index == byte_index % ssize
    IN  [row |-> index \div Blocks, col |-> index % Blocks,
         tag |-> byte_index \div ssize]

base_address(tag, row) == ((tag * Blocks * Sets) + (row * Blocks)) * 4

\* disabled cache or address in [uncached_start, uncached_last]
Bypass(a) == ~Enabled \/ a >= uncached_start

\* the ways of a row holding the tag of a
Holding(d, a) ==
    LET loc == compute_location(a)
    IN  {w \in Ways : d[w][loc.row].valid /\ d[w][loc.row].tag = loc.tag}

\* compute_row_col_tag(), the decomposition location_status() and
\* debug_rword() use: compute_location()'s arithmetic, written again
compute_row_col_tag(a) ==
    LET offset == a \div 4
        ssize == Blocks * Sets
        index == offset % ssize
    IN  [tag |-> offset \div ssize, row |-> index \div Blocks,
         col |-> index % Blocks]

\* the ways the scans of location_status() and debug_rword() stop at
Found(a) ==
    LET rct == compute_row_col_tag(a)
    IN  {w \in Ways : dt[w][rct.row].valid /\ dt[w][rct.row].tag = rct.tag}

Cached(a) == Enabled /\ Found(a) # {}

debug_rword(a) ==
    LET rct == compute_row_col_tag(a)
        ways == Found(a)
    IN  IF ways = {} THEN Val0 ELSE dt[Min(ways)][rct.row].data[rct.col]

\* a cache that holds nothing for a asks the memory beneath, whose
\* location_status is the FrontendMemory default LOCSTAT_NONE
location_status(a) ==
    LET rct == compute_row_col_tag(a)
        cd == dt[Min(Found(a))][rct.row]
    IN  IF ~Cached(a) THEN "LOCSTAT_NONE"
        ELSE IF cd.dirty /\ WritePolicy = "WP_BACK" THEN "LOCSTAT_CACHED_DIRTY"
        ELSE "LOCSTAT_CACHED"

(***************************************************************************)
(* Replacement policy data.  The two LRU loops are the code's loops: the   *)
(* access update walks from the tail, the kick update from the head.       *)
(***************************************************************************)
RECURSIVE LruTouchLoop(_, _, _, _, _)

\* (mutant) the loop forgets next_asi = tmp_asi
LruTouchLoop_keeps_next(o, index, i, next_asi, tmp_asi) ==
    IF tmp_asi = index THEN o
    ELSE IF i < 0 THEN Assert(FALSE, "LRU lost the way from priority queue - access")
    ELSE LruTouchLoop([o EXCEPT ![i] = next_asi], index, i - 1, next_asi, o[i])

LruTouchLoop(o, index, i, next_asi, tmp_asi) ==
    IF tmp_asi = index THEN o
    ELSE IF i < 0 THEN Assert(FALSE, "LRU lost the way from priority queue - access")
    ELSE LruTouchLoop([o EXCEPT ![i] = next_asi], index, i - 1, o[i], o[i])

LruTouch(o, index) ==
    LruTouchLoop(o, index, Associativity - 1, index, o[Associativity - 1])

RECURSIVE LruKickLoop(_, _, _, _, _)
LruKickLoop(o, index, i, next_asi, tmp_asi) ==
    IF tmp_asi = index THEN o
    ELSE IF i >= Associativity THEN Assert(FALSE, "LRU lost the way from priority queue - kick")
    ELSE LruKickLoop([o EXCEPT ![i] = next_asi], index, i + 1, o[i], o[i])

LruKick(o, index) == LruKickLoop(o, index, 1, index, o[0])

\* the LFU victim scan: lowest counter from way 0, or the first invalid
\* way found from way 1 on
RECURSIVE LfuScan(_, _, _, _, _)

\* (mutant) the scan ignores free ways
LfuScan_no_invalid_check(s, row, i, lowest, index) ==
    IF i >= Associativity THEN index
    ELSE IF lowest > s.lfu[row][i] THEN LfuScan(s, row, i + 1, s.lfu[row][i], i)
    ELSE LfuScan(s, row, i + 1, lowest, index)

LfuScan(s, row, i, lowest, index) ==
    IF i >= Associativity THEN index
    ELSE IF ~s.dt[i][row].valid THEN i
    ELSE IF lowest > s.lfu[row][i] THEN LfuScan(s, row, i + 1, s.lfu[row][i], i)
    ELSE LfuScan(s, row, i + 1, lowest, index)

\* (mutant) LRU takes the tail (most recently used) of the order
Victims_lru_tail(s, row) ==
    CASE ReplacementPolicy = "RP_RAND" -> Ways
      [] ReplacementPolicy = "RP_LRU"  -> {s.lru[row][Associativity - 1]}
      [] ReplacementPolicy = "RP_LFU"  -> {LfuScan(s, row, 1, s.lfu[row][0], 0)}

\* the victim of a miss in row of state record s
Victims(s, row) ==
    CASE ReplacementPolicy = "RP_RAND" -> Ways     \* rand() % associativity
      [] ReplacementPolicy = "RP_LRU"  -> {s.lru[row][0]}
      [] ReplacementPolicy = "RP_LFU"  -> {LfuScan(s, row, 1, s.lfu[row][0], 0)}

\* the way access() works on in state record s: the first holding way,
\* else the victim
Slots(s, a) ==
    IF Holding(s.dt, a) # {} THEN {Min(Holding(s.dt, a))}
    ELSE Victims(s, compute_location(a).row)

(***************************************************************************)
(* kick() and access() as functions of a state record s.                   *)
(***************************************************************************)
Cur == [dt |-> dt, lru |-> lru, lfu |-> lfu, cnt |-> cnt,
        cc |-> change_counter, shown |-> shown, mem |-> mem]

Update(s) ==
    /\ UNCHANGED cache_config
    /\ dt' = s.dt
    /\ lru' = s.lru
    /\ lfu' = s.lfu
    /\ cnt' = s.cnt
    /\ change_counter' = s.cc
    /\ shown' = s.shown
    /\ mem' = s.mem

\* (mutant) the write-back loop stops one word short
WriteBlock_short(m, base, data) ==
    [a \in DOMAIN m |-> IF a >= base /\ a < base + 4 * (Blocks - 1)
                        THEN data[(a - base) \div 4] ELSE m[a]]

WriteBlock(m, base, data) ==
    [a \in DOMAIN m |-> IF a >= base /\ a < base + 4 * Blocks
                        THEN data[(a - base) \div 4] ELSE m[a]]

kick(s, w, row) ==
    LET cd == s.dt[w][row]
        wb == cd.dirty /\ WritePolicy = "WP_BACK"
    IN  [s EXCEPT
           !.mem = IF wb THEN WriteBlock(@, base_address(cd.tag, row), cd.data)
                   ELSE @,
           !.cnt = IF wb THEN [@ EXCEPT !.mem_writes = @ + Blocks,
                                       !.burst_writes = @ + Blocks - 1]
                   ELSE @,
           !.shown = IF wb THEN [@ EXCEPT !["memory_writes_update"] =
                                            s.cnt.mem_writes + Blocks]
                     ELSE @,
           !.dt[w][row].valid = FALSE,
           !.dt[w][row].dirty = FALSE,
           !.lru[row] = IF ReplacementPolicy = "RP_LRU" THEN LruKick(@, w) ELSE @,
           !.lfu[row][w] = IF ReplacementPolicy = "RP_LFU" THEN 0 ELSE @]

\* step 1 of access(): evict another block held by way w
Evict(s, w, loc) ==
    IF s.dt[w][loc.row].valid /\ s.dt[w][loc.row].tag # loc.tag
    THEN [kick(s, w, loc.row) EXCEPT !.cc = @ + 1]
    ELSE s

\* step 2: count a hit, or count a miss and load the block; each path ends
\* with its update signals and update_statistics()
\* (mutant) the miss path does not call update_statistics()
HitOrFill_no_stats(s, w, loc, write) ==
    IF s.dt[w][loc.row].valid
    THEN Emit([s EXCEPT !.cnt[IF write THEN "hit_write" ELSE "hit_read"] = @ + 1],
              HitStats)
    ELSE Emit([s EXCEPT
                 !.cnt = [@ EXCEPT ![IF write THEN "miss_write" ELSE "miss_read"] = @ + 1,
                                   !.mem_reads = @ + Blocks,
                                   !.burst_reads = @ + Blocks - 1],
                 !.dt[w][loc.row].data =
                     [i \in Cols |-> MemRead(s.mem, base_address(loc.tag, loc.row) + 4 * i)],
                 !.cc = @ + Blocks],
              {"miss_update", "memory_reads_update"})

HitOrFill(s, w, loc, write) ==
    IF s.dt[w][loc.row].valid
    THEN Emit([s EXCEPT !.cnt[IF write THEN "hit_write" ELSE "hit_read"] = @ + 1],
              HitStats)
    ELSE Emit([s EXCEPT
                 !.cnt = [@ EXCEPT ![IF write THEN "miss_write" ELSE "miss_read"] = @ + 1,
                                   !.mem_reads = @ + Blocks,
                                   !.burst_reads = @ + Blocks - 1],
                 !.dt[w][loc.row].data =
                     [i \in Cols |-> MemRead(s.mem, base_address(loc.tag, loc.row) + 4 * i)],
                 !.cc = @ + Blocks],
              MissStats \cup ReadStats)

\* step 3: replacement data, from the validity before step 2
Replacement(s, w, loc, hit) ==
    CASE ReplacementPolicy = "RP_LRU" ->
            [s EXCEPT !.lru[loc.row] = LruTouch(@, w)]
      [] ReplacementPolicy = "RP_LFU" ->
            [s EXCEPT !.lfu[loc.row][w] = IF hit THEN @ + 1 ELSE 0]
      [] OTHER -> s

\* access()'s result: a write stores a word the line did not hold
Changed(s, w, loc, write, v) == write /\ s.dt[w][loc.row].data[loc.col] # v

\* step 4: the line becomes valid, tagged, dirty on a write, and the word
\* is stored; change_counter moves when the stored word changed
\* (mutant) a write does not mark the line dirty
Store_no_dirty(s, w, loc, write, v) ==
    LET changed == Changed(s, w, loc, write, v)
    IN  [s EXCEPT
           !.dt[w][loc.row] = [@ EXCEPT !.valid = TRUE,
                                        !.tag = loc.tag,
                                        !.data[loc.col] = IF write THEN v ELSE @],
           !.cc = IF changed THEN @ + 1 ELSE @]

\* (mutant) the line keeps its old tag
Store_no_tag(s, w, loc, write, v) ==
    LET changed == Changed(s, w, loc, write, v)
    IN  [s EXCEPT
           !.dt[w][loc.row] = [@ EXCEPT !.valid = TRUE,
                                        !.dirty = @ \/ write,
                                        !.data[loc.col] = IF write THEN v ELSE @],
           !.cc = IF changed THEN @ + 1 ELSE @]

\* (mutant) the written word is not stored in the line
Store_no_data(s, w, loc, write, v) ==
    LET changed == Changed(s, w, loc, write, v)
    IN  [s EXCEPT
           !.dt[w][loc.row] = [@ EXCEPT !.valid = TRUE,
                                        !.dirty = @ \/ write,
                                        !.tag = loc.tag],
           !.cc = IF changed THEN @ + 1 ELSE @]

Store(s, w, loc, write, v) ==
    LET changed == Changed(s, w, loc, write, v)
    IN  [s EXCEPT
           !.dt[w][loc.row] = [@ EXCEPT !.valid = TRUE,
                                        !.dirty = @ \/ write,
                                        !.tag = loc.tag,
                                        !.data[loc.col] = IF write THEN v ELSE @],
           !.cc = IF changed THEN @ + 1 ELSE @]

\* access() gives the record after the call and the changed flag it returns
\* (mutant) changed is decided on the word the way held before the miss
\* loaded the block
access_changed_before_fill(s, a, w, write, v) ==
    LET loc == compute_location(a)
        s1 == Evict(s, w, loc)
        s2 == HitOrFill(s1, w, loc, write)
        s3 == Replacement(s2, w, loc, s1.dt[w][loc.row].valid)
    IN  [s |-> Store(s3, w, loc, write, v), changed |-> Changed(s, w, loc, write, v)]

access(s, a, w, write, v) ==
    LET loc == compute_location(a)
        s1 == Evict(s, w, loc)
        s2 == HitOrFill(s1, w, loc, write)
        s3 == Replacement(s2, w, loc, s1.dt[w][loc.row].valid)
    IN  [s |-> Store(s3, w, loc, write, v), changed |-> Changed(s3, w, loc, write, v)]

\* the write-through forwarding at the end of write()
\* (mutant) the forwarded write is not counted in mem_writes
Forward_uncounted(s, a, v) ==
    Emit([s EXCEPT !.mem = MemWrite(@, a, v)], WriteStats)

\* (mutant) the forwarded write never reaches the backing store
Forward_lost(s, a, v) ==
    Emit([s EXCEPT !.cnt.mem_writes = @ + 1], WriteStats)

Forward(s, a, v) ==
    Emit([s EXCEPT !.mem = MemWrite(@, a, v), !.cnt.mem_writes = @ + 1], WriteStats)

(***************************************************************************)
(* read() and write() as functions of a state record s, with w the way     *)
(* access() settles on (one of Slots(s, a)).  ReadWord gives the record    *)
(* after the call and the word returned.                                   *)
(***************************************************************************)
\* (mutant) the bypass counts the read but emits only memory_reads_update
BypassRead_no_statistics(s) ==
    Emit([s EXCEPT !.cnt.mem_reads = @ + 1], {"memory_reads_update"})

\* read() of a disabled cache or the uncached window: mem_reads++,
\* memory_reads_update and update_statistics()
BypassRead(s) == Emit([s EXCEPT !.cnt.mem_reads = @ + 1], ReadStats)

ReadWord(s, a, w) ==
    IF Bypass(a) THEN [s |-> BypassRead(s), val |-> MemRead(s.mem, a)]
    ELSE LET t == access(s, a, w, FALSE, Val0).s
             loc == compute_location(a)
         IN  [s |-> t, val |-> t.dt[w][loc.row].data[loc.col]]

\* a write miss that allocates no line
NoAllocMiss(s, a) == WritePolicy = "WP_THROUGH_NOALLOC" /\ Holding(s.dt, a) = {}

\* mutant: write() returns what access() returned (FALSE on its no-allocate
\* early return) instead of the result of mem->write_word()
WriteWord_returns_access(s, a, w, v) ==
    CASE Bypass(a) -> [s |-> Forward(s, a, v), changed |-> MemChanged(s.mem, a, v)]
      [] NoAllocMiss(s, a) ->
            [s |-> Forward(Emit([s EXCEPT !.cnt.miss_write = @ + 1], MissStats), a, v),
             changed |-> FALSE]
      [] OTHER ->
            LET t == access(s, a, w, TRUE, v)
            IN  IF WritePolicy # "WP_BACK" THEN [t EXCEPT !.s = Forward(t.s, a, v)] ELSE t

\* write() gives the record after the call and the bool it returns: what
\* access() returns under write-back, else what mem->write_word() returns
WriteWord(s, a, w, v) ==
    CASE Bypass(a) -> [s |-> Forward(s, a, v), changed |-> MemChanged(s.mem, a, v)]
      [] NoAllocMiss(s, a) ->
            [s |-> Forward(Emit([s EXCEPT !.cnt.miss_write = @ + 1], MissStats), a, v),
             changed |-> MemChanged(s.mem, a, v)]
      [] OTHER ->
            LET t == access(s, a, w, TRUE, v)
            IN  IF WritePolicy # "WP_BACK"
                THEN [s |-> Forward(t.s, a, v), changed |-> MemChanged(t.s.mem, a, v)]
                ELSE t

(***************************************************************************)
(* The operations.                                                         *)
(***************************************************************************)
Init ==
    /\ cache_config \in Configs
    \* tag and data are left uninitialised by the constructor; no path
    \* reads them before a fill sets them, so Val0 stands for any value
    /\ dt = [w \in Ways |-> [r \in Rows |->
              [valid |-> FALSE, dirty |-> FALSE, tag |-> 0,
               data |-> [c \in Cols |-> Val0]]]]
    /\ lru = [r \in Rows |-> [i \in Ways |-> i]]
    /\ lfu = [r \in Rows |-> [i \in Ways |-> 0]]
    /\ cnt = NoCounts
    /\ change_counter = 0
    \* the views start from the counters the constructor zeroes
    /\ shown = [n \in Signals |-> SignalValue(NoCounts, n)]
    /\ mem = [a \in MemAddrs |-> Val0]
    /\ op = [kind |-> "init", addr |-> 0, val |-> 0]
    /\ ret = FALSE
    /\ ops = 0

Counted == ops < MaxOps /\ ops' = ops + 1

\* (mutant) the returned word is taken before the miss fills the line
read_before_fill(a) ==
    /\ Counted
    /\ \E w \in Slots(Cur, a) :
          LET r == ReadWord(Cur, a, w)
              loc == compute_location(a)
          IN  /\ Update(r.s) /\ ret' = FALSE
              /\ op' = [kind |-> "read", addr |-> a,
                        val |-> IF Bypass(a) THEN r.val
                                ELSE dt[w][loc.row].data[loc.col]]

read(a) ==
    /\ Counted
    /\ \E w \in Slots(Cur, a) :
          LET r == ReadWord(Cur, a, w)
          IN  Update(r.s) /\ op' = [kind |-> "read", addr |-> a, val |-> r.val]
    /\ ret' = FALSE

\* read(address, debug_access = true)
debug_read(a) ==
    \/ /\ Bypass(a)
       /\ Counted
       /\ Update(BypassRead(Cur))
       /\ ret' = FALSE
       /\ op' = [kind |-> "debug_read", addr |-> a, val |-> MemRead(mem, a)]
    \/ /\ ~Bypass(a)
       /\ op' = [kind |-> "debug_read", addr |-> a,
                 val |-> IF Cached(a) THEN debug_rword(a) ELSE MemRead(mem, a)]
       /\ UNCHANGED <<cache_config, dt, lru, lfu, cnt, change_counter, shown, mem, ops>>
       /\ ret' = FALSE

write(a, v) ==
    /\ Counted
    /\ op' = [kind |-> "write", addr |-> a, val |-> v]
    /\ \E w \in Slots(Cur, a) :
          LET r == WriteWord(Cur, a, w, v) IN Update(r.s) /\ ret' = r.changed

\* the lines in flush() order: associativity index descending, set ascending
\* (mutant) the descending loop starts one way too low
FlushOrder_skips_top ==
    [k \in 1 .. (Associativity - 1) * Sets |->
        <<Associativity - 2 - (k - 1) \div Sets, (k - 1) % Sets>>]

FlushOrder ==
    [k \in 1 .. Associativity * Sets |->
        <<Associativity - 1 - (k - 1) \div Sets, (k - 1) % Sets>>]

RECURSIVE KickValid(_, _)
KickValid(s, order) ==
    IF order = <<>> THEN s
    ELSE LET w == Head(order)[1]
             r == Head(order)[2]
         IN  KickValid(IF s.dt[w][r].valid THEN kick(s, w, r) ELSE s, Tail(order))

\* flush() of state record s: every valid line kicked, one change_counter
\* step and update_statistics()
FlushAll(s) ==
    Emit([KickValid(s, FlushOrder) EXCEPT !.cc = @ + 1], {"statistics_update"})

flush ==
    /\ Enabled
    /\ Counted
    /\ Update(FlushAll(Cur))
    /\ ret' = FALSE
    /\ op' = [kind |-> "flush", addr |-> 0, val |-> 0]

\* reset(): invalidate every line, zero the statistics and emit every
\* statistics signal; replacement data, dirty bits, data and
\* change_counter are left as they are
\* (mutant) the burst counters are not zeroed
reset_keeps_bursts ==
    /\ Counted
    /\ dt' = IF Enabled
             THEN [w \in Ways |-> [r \in Rows |-> [dt[w][r] EXCEPT !.valid = FALSE]]]
             ELSE dt
    /\ cnt' = [NoCounts EXCEPT !.burst_reads = cnt.burst_reads,
                               !.burst_writes = cnt.burst_writes]
    /\ shown' = [n \in Signals |-> SignalValue(cnt', n)]
    /\ op' = [kind |-> "reset", addr |-> 0, val |-> 0]
    /\ UNCHANGED <<cache_config, lru, lfu, change_counter, mem>>
    /\ ret' = FALSE

reset ==
    /\ Counted
    /\ dt' = IF Enabled
             THEN [w \in Ways |-> [r \in Rows |-> [dt[w][r] EXCEPT !.valid = FALSE]]]
             ELSE dt
    /\ cnt' = NoCounts
    /\ shown' = [n \in Signals |-> SignalValue(cnt', n)]
    /\ op' = [kind |-> "reset", addr |-> 0, val |-> 0]
    /\ UNCHANGED <<cache_config, lru, lfu, change_counter, mem>>
    /\ ret' = FALSE

NextWithoutReset ==
    \/ \E a \in Addrs : read(a) \/ debug_read(a)
    \/ \E a \in Addrs, v \in Val : write(a, v)
    \/ flush

Next == NextWithoutReset \/ reset

Spec == Init /\ [][Next]_vars

\* Between two resets: reset drops dirty lines without writing them back
\* (cache.cpp reset(), spec 4.5), so contents survive only without it.
SpecWithoutReset == Init /\ [][NextWithoutReset]_vars

(***************************************************************************)
(* Properties.                                                             *)
(***************************************************************************)
TypeOK ==
    /\ dt \in [Ways -> [Rows -> [valid : BOOLEAN, dirty : BOOLEAN, tag : Tags,
                                  data : [Cols -> Val]]]]
    /\ lru \in [Rows -> [Ways -> Ways]]
    /\ lfu \in [Rows -> [Ways -> Nat]]
    /\ cnt \in [Counters -> Nat]
    /\ change_counter \in Nat
    /\ mem \in [MemAddrs -> Val]

\* What a read through the cache returns for each address: the word of the
\* holding line, else the backing store (read() / debug_rword()).
ReadView(a) ==
    LET ways == Found(a)
    IN  IF Enabled /\ ways # {}
        THEN dt[Min(ways)][compute_row_col_tag(a).row].data[compute_row_col_tag(a).col]
        ELSE mem[a]

View == [a \in Addrs |-> ReadView(a)]

Abstract == INSTANCE AbstractMemory WITH memory <- View

\* The cache is a memory: every read (debug or not) returns the value of
\* the last write to that address, whatever hits, misses, evictions,
\* write-backs and flushes happened in between (read(), write(), access(),
\* kick(), flush()).
CacheRefinesMemory == Abstract!Spec

\* write() returns TRUE exactly when the call changed what a read of the
\* address returns: under write-back the changed flag of access(), taken
\* after a miss has loaded the block, under write-through and outside the
\* cache the result of mem->write_word() (write(), access();
\* FrontendMemory::write_dword's && relies on it).
WriteReportsChange ==
    [][op'.kind = "write" =>
          \A a \in {op'.addr} : ret' <=> ReadView(a)' # ReadView(a)]_vars

\* A valid line that is not waiting for a write-back holds what the
\* backing store holds: under write-through every valid line, under
\* write-back every clean one (access() fill and store, write() forward).
LineCoherence ==
    \A w \in Ways, r \in Rows :
        LET cd == dt[w][r]
        IN  Enabled /\ cd.valid /\ (WritePolicy # "WP_BACK" \/ ~cd.dirty)
              => \A i \in Cols : cd.data[i] = MemRead(mem, base_address(cd.tag, r) + 4 * i)

\* flush() writes every dirty line back and leaves no valid line: after
\* it the backing store alone holds what reads return (flush(), kick()).
FlushWritesBack ==
    [][op'.kind = "flush" =>
          /\ \A a \in Addrs : mem'[a] = View[a]
          /\ \A w \in Ways, r \in Rows : ~dt'[w][r].valid]_vars

\* A line that holds a block is displaced by a read or write access
\* only when every way of its set is valid: LRU and LFU fill a free way
\* before they evict (access() victim choice, kick(), reset()).
NoEvictionWhileWayFree ==
    [][op'.kind \in {"read", "write"} =>
          \A w \in Ways, r \in Rows :
              (dt[w][r].valid /\ ~(dt'[w][r].valid /\ dt'[w][r].tag = dt[w][r].tag))
                  => \A x \in Ways : dt[x][r].valid]_vars

\* Every LRU order array stays a permutation of the ways, the condition
\* the SANITY_ASSERTs of the access() and kick() rotations check.
LruIsPermutation ==
    \A r \in Rows : IsInjective(lru[r])

\* get_speed_improvement() only guards comp = 0; whenever an access has
\* been counted the divisor lookup_time + mem_access_time is non-zero, so
\* the statistics never show inf or nan (write(), access(), kick()).
SpeedImprovementDefined ==
    comp(cnt) # 0 => lookup_time(cnt) + mem_access_time(cnt) # 0

\* get_stall_count() never wraps: whatever sequence of fills, write-backs,
\* forwarded writes and resets happened, the burst credits it subtracts
\* never exceed the penalties of the transfers counted, so the unsigned
\* result is the true stall count (access(), kick(), write(), reset(),
\* get_stall_count()).
StallCountDoesNotWrap ==
    get_stall_count(cnt) >= 0

SameRatio(x, y) == x[1] * y[2] = y[1] * x[2]

\* After every call the statistics views show the cache's current
\* counters: each path that changes a counter ends with the signal that
\* carries it and with update_statistics(), so no view is left with a
\* stale hit count, memory-access count, stall count, speed improvement
\* or hit rate (write(), read(), access(), kick(), flush(), reset()).
ShownStatisticsCurrent ==
    LET now == SignalValue(cnt, "statistics_update")
        was == shown["statistics_update"]
    IN  /\ \A n \in Signals \ {"statistics_update"} : shown[n] = SignalValue(cnt, n)
        /\ was[1] = now[1]
        /\ SameRatio(was[2], now[2])
        /\ SameRatio(was[3], now[3])

\* A debug read has no observable side effect: it changes no line, no
\* counter and no memory (spec 4.3; read() with debug_access).
DebugReadIsSideEffectFree ==
    [][op'.kind = "debug_read" =>
          UNCHANGED <<dt, lru, lfu, cnt, change_counter, mem>>]_vars

\* A line filled by a read miss is clean: only a write makes a line dirty
\* (spec 4.5 steps 4 and 7; access(), kick(), reset()).
ReadFillIsClean ==
    [][op'.kind = "read" =>
          \A w \in Ways, r \in Rows :
              (dt'[w][r].valid /\ ~(dt[w][r].valid /\ dt[w][r].tag = dt'[w][r].tag))
                  => ~dt'[w][r].dirty]_vars

\* What the cache shows of each address: its location_status and, when
\* cached, the word it holds.
CacheShown == [a \in Addrs |-> IF Cached(a) THEN <<location_status(a), debug_rword(a)>>
                               ELSE <<location_status(a)>>]

\* change_counter moves on every change of what the cache shows, so a
\* view that compares counters is never stale (spec 3, change counter;
\* access(), flush(), reset()).
CacheViewChangeBumpsCounter ==
    [][CacheShown' # CacheShown => change_counter' # change_counter]_vars
=============================================================================
