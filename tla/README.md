# TLA+ models of QtMips

This directory holds TLA+ models of the QtMips simulator's memory subsystem,
of its command-line reporter and of the program listing's scroll handling.
The modules are translated from the C++ sources under `src/`, and TLC checks
them.

## 1. Inventory of the system

| Part | Sources | State | Operations |
|---|---|---|---|
| Cache | `qtmips_machine/memory/cache.{h,cpp}` | Per line (`dt[way][row]`): `valid`, `dirty`, `tag`, `data[blocks]`. Replacement data: `replc.lru[row][way]` (an order array) or `replc.lfu[row][way]` (use counts). Counters: `hit_read`, `miss_read`, `hit_write`, `miss_write`, `mem_reads`, `mem_writes`, `burst_reads`, `burst_writes`, `change_counter`. | constructor, `read` (normal and debug), `write`, `flush`/`sync`, `reset`, `location_status`, `debug_rword`, statistics getters; `access` and `kick` are internal |
| MMU / backing memory | `memory/mmu.h`, `memory/backend/memory.h` (headers only) | a word-addressed memory behind the cache | `read`, `write` |
| FrontendMemory | `qtmips_machine/memory/frontend_memory.cpp`, `src/machine/memory/frontend_memory.cpp` | none (delegates to `read`/`write`) | byte, half-word, word and double-word accessors; `read_ctl`/`write_ctl` |
| Address | `address.h/.cpp`, `memory/address.h` | immutable value | arithmetic, `get_byte_index` |
| Peripherals, backend interfaces, program loader, ALU | headers | — | declarations only |
| CLI reporter | `src/cli/reporter.cpp` | `e_regs`, `e_cache_stats`, `e_cycles`, `e_fail`, `dump_ranges` | setters, `expect_fail`, `add_dump_range`, the stop slots `machine_exit`, `machine_exception_reached`, `machine_trap`, each running `report()` and exiting |
| Program listing | `qtmips_gui/programtableview.cpp` | `adjust_scroll_pos_in_progress`, `initial_address`, `need_addr0_save`, the `ProgramViewAddr0` setting | constructor, `adjust_scroll_pos_check`/`_process`, `resizeEvent`, `adjustColumnCount`, `go_to_address`, `focus_address(_with_save)` |
| Other GUI | `qtmips_gui/*`, `src/gui/*` | widget state | drawing, start-up, declarations |

**How the parts interact.** The core calls `FrontendMemory` accessors.
`Cache` is itself a `FrontendMemory` that overrides only the 32-bit
`read`/`write`, so these accessors reduce to word calls on the cache: a
byte or half-word store is a cache read followed by a cache write. The cache serves
an access from a line, or:
- forwards it to the MMU when the cache is disabled or the address is at or
  above `uncached_start` (`0xf0000000`);
- on a miss, evicts a victim (writing it back under write-back) and fills
  the line from the MMU;
- under write-through, forwards every write.

Views such as the cache dock and the memory view poll `change_counter` to
decide whether to redraw. The cache also emits its statistics as Qt signals
(`hit_update`, `miss_update`, `memory_reads_update`,
`memory_writes_update`, `statistics_update`), which the cache dock
displays. The CLI reporter reads the statistics at the end of a run, prints
them, writes the requested memory dumps and sets the exit code. The program
listing (`ProgramTableView`) scrolls over a window of `ProgramModel` rows
and moves the window when its top row nears an end, through a flag and a
signal queued to the Qt event loop.

**What is hard.** All of the simulator runs in one thread, so the hard part
of the cache is not concurrency. It is long sequences of legal calls:
- evictions that write a dirty block back to the old tag's address;
- LRU order-array rotations that have to stay permutations;
- the LFU scan that chooses a victim;
- a `reset` that leaves part of the line state behind;
- `flush` loops;
- debug accesses that must not disturb anything;
- the statistics formulas that divide by counted quantities.

## 2. Modules

| Module | Models | Role |
|---|---|---|
| `AbstractMemory` | a word memory: write `a := v`, read `a`, plus flush/reset that do not change contents | the specification that the cache implements |
| `Cache` | `Cache` of `cache.cpp`, with the MMU as a word memory | the detailed specification |
| `MC_Cache` | definitions of the model's addresses for TLC | model-checking instance |
| `Word32` | `uint32_t` as four byte lanes, with byte shifts, masks and casts | helper |
| `AbstractByteMemory` | a big-endian byte memory with typed, naturally aligned accesses and sign extension | the specification that the QtMips front end implements |
| `FrontendMemory` | typed accessors of `qtmips_machine/memory/frontend_memory.cpp` over a word memory | detailed specification |
| `MC_FrontendMemory` | addresses and input words | model-checking instance |
| `FrontendOverCache` | `write_ctl`/`read_ctl` of the front end on `Cache`'s `read`/`write` | composition of the two |
| `MC_FrontendOverCache` | memory size, input words, cache policies | model-checking instance |
| `SimEndianMemory` | a byte memory in the simulated byte order, any width and alignment | the specification that the byte-range front end implements |
| `ByteRangeFrontend` | typed accessors of `src/machine/memory/frontend_memory.cpp` over a byte range | detailed specification |
| `MC_ByteRangeFrontend` | addresses and the input value | model-checking instance |
| `Reporter` | `reporter.cpp`, with `machine::Address` as four 16-bit limbs | detailed specification |
| `MC_Reporter` | start addresses and lengths for `add_dump_range` | model-checking instance |
| `ProgramTableView` | `programtableview.cpp`, with `ProgramModel` and `QTableView` as environment | detailed specification |
| `MC_ProgramTableView` | offsets and addresses of the listing | model-checking instance |

How the `Cache` module corresponds to the code:
- **Variables.** `cache_config` holds the replacement and write policy of
  the `CacheConfig` the constructor is given; `Init` chooses it from
  `Configs`, and nothing changes it afterwards. `dt` holds the lines. `lru`/`lfu` hold the replacement data,
  `cnt` the statistics counters, and `change_counter` the view counter.
  `mem` is the MMU contents.
- **Ghost variables.** `op` is the last interface call and the value it
  returned. `ret` is the bool that call returned: `write()`'s result, and
  FALSE after any other call. `ops` counts calls and is bounded by
  `MaxOps`.
- **Actions.** There is one action per public operation: `read`,
  `debug_read`, `write`, `flush` (this is also `sync`) and `reset`.
- **Internal functions.** `access()` and `kick()` are pure operators on a
  record of the state. The parts of `access()` are composed in code order:
  `Evict` (the kick and `change_counter++`) → `HitOrFill` → `Replacement`
  (the LRU rotation or the LFU count) → `Store`.
- **Reads and writes as functions.** `ReadWord(s, a, w)` and
  `WriteWord(s, a, w, v)` are `read()` and `write()` on a state record `s`,
  with `w` the way `access()` settles on (`Slots(s, a)`); `FlushAll(s)` is
  `flush()`. The actions apply them to the current state, and
  `FrontendOverCache` chains them.
- **Two decompositions.** `access()` uses `compute_location`;
  `location_status()` and `debug_rword()` use `compute_row_col_tag`, which
  repeats the arithmetic. Both are operators.
- **Loops.** The code's loops are `RECURSIVE` operators that follow the same
  indices (`LruTouchLoop`, `LruKickLoop`, `LfuScan`, `KickValid`), and a
  `SANITY_ASSERT` becomes `Assert`.
- **Random replacement.** `RP_RAND` is a nondeterministic choice of way.
- **Statistics signals.** `shown` holds, for each signal, the value it last
  delivered. `Emit` sets it at each `emit` and `update_statistics()` of the
  code; `get_stall_count`, `get_speed_improvement` and `get_hit_rate` are
  operators over the counters (the two ratios as numerator/denominator
  pairs, compared by cross-multiplication).
- **Tags and data.** The constructor leaves tags and data uninitialised, but
  nothing reads them before a fill sets them, so `Init` gives them fixed
  values.

**FrontendMemory (QtMips).** Every accessor is an operator over the word
memory beneath, and returns a record of the new memory and the `changed`
result of `write`. Each is one `read` or `write` of the memory beneath plus
a pure step on the word: `merge_byte`/`merge_hword` compute the word a
sub-word store writes from the word its read returned, and `read_ctl_of`
what `read_ctl` returns from the word its one read returned. Examples:
- `write_byte` is the code's read-modify-write:
  `write(m, a, merge_byte(read(m, a), a, value))`, with the mask, the
  merge and `SH_NTH_8` in `merge_byte`.
- `write_dword` is `write(address, hi) && write(address + 32, lo)`,
  including the `&&` short-circuit.

The actions are `write_ctl`, `read_ctl` and `write_dword`; `write_ctl` and
`read_ctl` call all the other accessors.

The word memory beneath drops the low address bits, and it reads 0 and
ignores writes outside its words. That is what `Cache` and the MMU do, and
`Cache` is shown to be a word memory by `CacheRefinesMemory`.

**FrontendOverCache.** The front end on the detailed cache, as
`machine::Cache` inherits it. Its state is the cache's, and its actions are
the CPU's calls: `WriteCtl` is `write_ctl` (nothing for `AC_NONE`, one
`WriteWord` for `AC_WORD`, and for a sub-word store a `ReadWord`, the
merge, then a `WriteWord` whose way is chosen in the state the read left),
`ReadCtl` is `read_ctl` (one `ReadWord`, none for `AC_NONE`), and `Sync`
is `Cache::sync()`. The cache's own ghost `op` is replaced by the front
end's, in `AbstractByteMemory`'s format. `ByteView` maps the state to the
bytes `read_byte` would return through the cache.

Words are four byte lanes, because TLC integers are signed 32-bit.
`HostEndian` selects between the two definitions of the `SH_NTH` macros.
`FrontendRefinesByteMemory` maps the state to the byte memory as seen by
`read_byte`.

**ByteRangeFrontend.** `read_generic`/`write_generic` are translated
directly. `byteswap_if` swaps when the simulated byte order differs from
the host's. The bytes of a value's object representation are then copied
in host order to or from the byte array beneath. The host order (`native`)
and the simulated order are both chosen in `Init`, so one run covers all
four builds. `FrontendRefinesSimMemory` maps the byte array identically
onto `SimEndianMemory`. That specification encodes a value directly in the
simulated order, so the swap-and-copy path is checked against an
independent formulation.

`View` maps every address to what a debug read returns: the line's word if
it is cached, otherwise memory. `CacheRefinesMemory` checks that
`Cache` with `memory <- View` implements `AbstractMemory`. In other words,
each `read` returns the most recent `write` to that address, whatever the
hits, misses, write-backs and flushes in between.

**Reporter.** One action per public method. The setters and
`add_dump_range` are enabled only before the machine stops; each stop slot
runs `report()` (`ReportAndExit`) and ends the process, after which nothing
is enabled. `e_fail` is the set of `FailReason` flags it holds, and the
ghost `requested` the reasons passed to `expect_fail`. `machine::Address` is
a `uint64_t`, kept as four 16-bit limbs so that `operator+`, `operator<`
and `& ~3` keep their 64-bit width (`Plus`, `Less`, `AndNot3`). A dump file
is the sequence of word addresses the loop of `report()` visits (`Dump`,
`DumpLoop`); the values read from memory and the printed text are left out.

**ProgramTableView.** Each handler is an operator on a record of the
state, and a signal emitted inside a handler runs its slot in place, as a
direct Qt connection does: a scroll-value change (`SetValue`) runs
`adjust_scroll_pos_check`, which posts at most one event (`posted`). The
event loop's delivery of that event is the action
`adjust_scroll_pos_process`. `ProgramModel` is not in the repository: row
`r` shows `offset + r * cellSizeBytes`, and `adjustRowAndOffset` may put an
address at any row whose offset is one of `Offsets`. `QTableView` is
modelled by what the handlers rely on: `scrollTo` sets the scroll value,
`setCurrentIndex` makes the current row visible, and each changes the
scroll value only if it differs. The user's scrolling, resizes, `setModel`
and the calls of `go_to_address`/`focus_address` from other widgets are the
environment.

## 3. Runs

All `MC_Cache` runs use 2 ways × 2 sets × 2 words per block, `Val = {0,1}`, and memory
of 13 words with `uncached_start` = word 12. The model's addresses are:
- words 0 and 1: tag 0, row 0;
- word 2: tag 0, row 1;
- word 4: tag 1, row 0;
- word 8: tag 2, row 0;
- word 12: uncached.

For the front ends:
- `frontend_*` and the `FrontendOverCache` runs use two words.
- The `FrontendOverCache` runs use a one-way, one-set, one-word cache, so
  both words compete for the one line: a sub-word store to one word misses
  and evicts the other, dirty under write-back. They allow two counted
  calls (a store that dirties the line, then the store whose read evicts
  it); more calls make the refinement check (the step of the abstract
  byte memory is looked up for every transition) run past five minutes.
- The inputs are `0x007f0180` and `0x80`, whose lanes all differ and cover
  both sign bits.
- `frontend_dword` allows one write call, which is enough: one
  `write_dword` already shows finding F5. Reads are unbounded.

`byterange` uses eight bytes, so that one double word fits and half-words
and words sit at every alignment. It has one 64-bit input whose lanes all
differ, with the sign bit set in its byte and double word and clear in its
half-word and word; reads at other alignments see both cases. It allows two
writes. A second write overlapping the first at another width and alignment
is the case that breaks a wrong byte order.

Three tags share row 0, so its two ways fill and the third tag forces an
eviction. Every replacement path is therefore reached: a free way, LRU/LFU
choice, a dirty write-back, and a refill of a line that was evicted. `MaxOps`
(4, or 6 where a longer trace is needed) bounds the number of counted calls.
Debug reads are not counted, so the system never stops and deadlock is
checked.

| Run | Config | Result | What it shows |
|---|---|---|---|
| `lru_wb_lfu_wt` | LRU write-back or LFU write-through allocate (chosen in `Init`), no reset | pass | The cache implements a word memory (`CacheRefinesMemory`); clean lines equal memory (`LineCoherence`); after `flush` memory equals the view and no line is valid (`FlushWritesBack`); the LRU arrays stay permutations (`LruIsPermutation`); a valid line is displaced only when every way of its set is valid (`NoEvictionWhileWayFree`); after every call each statistics signal last delivered the current value of its counter or formula (`ShownStatisticsCurrent`); `write()` returns TRUE exactly when the value a read of the address returns changed (`WriteReportsChange`). Under write-back that result is `access()`'s `changed`, which is taken after a miss has loaded the block. |
| `rand_wt_noalloc` | random, write-through no-allocate, reset, uncached | pass | Refinement and coherence hold with the no-allocate miss path. The divisor of `get_speed_improvement` is non-zero once an access has been counted (`SpeedImprovementDefined`); the unsigned `get_stall_count` never wraps (`StallCountDoesNotWrap`); the signals stay current through resets and bypassed reads (`ShownStatisticsCurrent`). `write()`'s result is correct on the no-allocate miss path, where `access()` returns early and the result comes from `mem->write_word()` (`WriteReportsChange`). |
| `lfu_reset_eviction` | LFU after reset | violation | Finding F2. |
| `debug_read_uncached` | debug read at the uncached window | violation | Finding F3. |
| `reset_stale_dirty` | write-back, reset, then a read miss | violation | Finding F1. |
| `change_counter_stale` | write-back, same-value write | violation | Finding F4. |
| `frontend_cache` | front end over an LRU write-back cache, little-endian host | pass | `write_ctl` of every control code at every byte address, `read_ctl` of the six codes and `sync`, through hits, misses and dirty evictions caused by the read of a sub-word store, implement the big-endian byte memory (`FrontendOverCacheRefinesByteMemory`). |
| `frontend_dword` | with `write_dword` | violation | Finding F5. |
| `noalloc_subword_store` | front end over a write-through no-allocate cache | violation | Finding F6. |
| `byterange` | byte-range front end, both host and both simulated byte orders | pass | Every width, at every alignment in eight bytes, with all nine control codes, implements a memory in the simulated byte order. |
| `reporter` | every order of configuration calls, then any stop | pass | Each dump file holds exactly the words of the last range added for it, across limb carries (`DumpCoversRange`). A range that crosses `0xffffffff` is dumped past it, as the 64-bit `Address` gives. The clamp at `reporter.cpp:247-248` fires only on a 64-bit wrap, so no range reaches it, and the property takes that dump as intended. The exit code is 0 exactly when the run ended as the command line expected (`ExitCodeMatchesExpectation`). Dumps hold word-aligned addresses only (`TypeOK`). |
| `program_view` | 16-row listing, any `ProgramModel` placement | pass | At most one pass is queued, exactly while the flag is set (`ScrollCoalesced`); every scroll is eventually reported by a pass (`ScrollEventuallyReported`); a re-centring pass keeps the selected instruction selected (`SelectionKeepsInstruction`). |

`lru_wb_lfu_wt` covers two of the policy pairs in one run: `cache_config`
is chosen in `Init`, as the constructor takes it from its argument, and
every behaviour keeps it. The refinement runs leave out `reset`. The code's `reset` drops dirty lines
without writing them back, so it is not a memory-preserving operation.
Those runs also leave out the uncached address, which keeps the state space
small; `rand_wt_noalloc` covers the uncached path.

**Reporter bounds.** Start addresses 2, `0xfffe` and `0xfffffff6`; lengths
0, 2 and 13; two paths; at most two ranges. `0xfffe + 13` carries into the
second limb and `0xfffffff6 + 13` into the third (past `0xffffffff`);
`2 + 2` ends exactly on a word boundary, where an inclusive loop bound
would dump one word too many; two ranges can name the same path. All five
trap types, one of which matches no flag, and all four flags.

**Listing bounds.** 16 rows with one visible, so that every row can be the
top one. Rows 0 and 1 are the head (`row < 16 / 8`) and row 15 is the tail
(`row > 16 - 16 / 8`), so a pass moves the window from a top row other than
0 and the `- prev_row` of `setCurrentIndex` matters. Cells are 4 bytes.
Offsets are 0, 2, 4 and 8: going to address 42 puts it at row 10 with
offset 2, and a scroll to row 0 then takes the move to offset 0. The other
offsets give the moves that keep the top address. Go-to and focus
addresses are 8 and 42, and settings values 0 and 8. Each of the three
re-centring branches is reached with a pass queued and a row selected.

Every property of a passing run has a mutant in `PROJECT.json` that breaks
it. Each mutant is a plausible bug in the operator it replaces, for example:
- an LRU rotation that loses its carried index;
- an LFU scan without its invalid-way check;
- a flush loop that skips the top way;
- a store that does not mark the line dirty;
- a write-through forward that is not counted.

## 4. Findings

- **F1** (`cache.cpp:250`). `reset()` clears `valid` but not `dirty`.
  `access()` ORs the old dirty bit into a fresh fill, so a read after a reset
  can leave a dirty line. That line is shown as dirty and is written back on
  eviction.
- **F2** (`cache.cpp:335`, comment at 252). The LFU scan never treats way 0
  as free. After a reset, stale counts make it evict a valid way while way 0
  is empty.
- **F3** (`cache.cpp:158`). A debug read of an uncached address, or of a
  disabled cache, increments `mem_reads`.
- **F4** (`cache.cpp:412`/`422`). A same-value write under write-back makes
  a line dirty without moving `change_counter`. `reset` does not move it
  either.

- **F5** (`frontend_memory.cpp:78`). `write_dword` writes the low word to
  `address + 32` instead of `address + 4`. Because of `&&`, it skips that
  write entirely when the high word did not change.

- **F6** (`frontend_memory.cpp:55`, and `:64`). `write_byte` and
  `write_hword` read the word before writing it, and the read is an
  ordinary cache access. Under `WP_THROUGH_NOALLOC` a byte store that
  misses therefore fills a line, and it is counted as a read miss plus a
  write hit, never as a write miss. The specification says a write miss
  under no-allocate creates no line.

A big-endian build host (`HostEndian = "BIG"` in `FrontendMemory`) also
breaks `FrontendRefinesByteMemory`: the `SH_NTH` macros then number the
bytes of a numeric word from the least significant end. No run keeps that
configuration, because no supported build host is big-endian; it is listed
as a hazard at `frontend_memory.cpp:42`.

## 5. Fairness and liveness

The memory models and the reporter assume no fairness. The simulator is
single-threaded and driven by the user or the CLI, one call at a time, and
nothing in the code forces any call to happen. The reporter's process ends
after the report, so its run does not check deadlock.

`ProgramTableView`'s `Spec` has one fairness condition,
`WF_vars(adjust_scroll_pos_process)`. The signal is connected with
`Qt::QueuedConnection`, so each emit posts an event that the GUI thread's
event loop delivers once control returns to it; no handler of the view
blocks. The user's actions get no fairness. Under this assumption
`ScrollEventuallyReported` (`unseen ~> ~unseen`) holds: every scroll is
followed by a pass that reads the top row and emits `address_changed`.
A pass that left the flag set would make a later scroll wait forever, and
TLC finds that lasso.

## 6. Not modelled, and why

1. **MMU, sparse Memory and BackendMemory.** Only the headers are in
   `src/`. Behind the cache they are the word memory `mem`. Reads, writes
   and the write result (`MemRead`, `MemWrite`, `MemChanged`) are taken
   from the specification. Range insertion and removal, overlap rejection
   and offset translation could also be modelled from the specification.
   They are not modelled: no code in the repository calls them, so such a
   module would be specification-only and say nothing about this code.
2. **ProgramModel.** Its row arithmetic is in `programmodel.cpp`, which is
   not in the repository. The model lets it place an address at any row, so
   the listing's properties hold for every placement. The same gap leaves
   two listing hazards without a property: `address_changed` is not sent
   when `go_to_address` only moves the offset, and a
   `focus_address_with_save` of a visible address leaves `need_addr0_save`
   set for a later pass.
3. **Output and layout.** The reporter's printed text, the words a dump
   reads from memory, the listing's column widths and its clipboard copy
   (`keyPressEvent`) are formatting or I/O.
4. **Declarations.** The loader, peripherals, backend interfaces and ALU
   are declarations only. The other GUI files draw widgets
   (`programcounter.cpp`, `aboutdialog.cpp`), start the application
   (`main.cpp`) or only declare classes.
