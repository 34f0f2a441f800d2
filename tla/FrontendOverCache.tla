-------------------------- MODULE FrontendOverCache --------------------------
(***************************************************************************)
(* The typed accessors of FrontendMemory on the cache.  machine::Cache is *)
(* a FrontendMemory that overrides only the word read and write, so what  *)
(* the CPU calls (write_ctl, read_ctl) is the front end's code around the *)
(* cache's: a byte or half-word store is a non-debug Cache::read of the    *)
(* word followed by a Cache::write of the merged word                      *)
(* (frontend_memory.cpp write_byte / write_hword), and each read_ctl is    *)
(* one Cache::read.  Each step is one whole front-end call: the cache's    *)
(* ReadWord / WriteWord on a record of the cache state, with the pure      *)
(* merge and extension steps of FrontendMemory between them.               *)
(*                                                                         *)
(* The state is the cache's; op is the front end's ghost, in the format    *)
(* of AbstractByteMemory, and takes the place of the cache's own op.       *)
(***************************************************************************)
EXTENDS Integers, Word32

CONSTANTS
    Enabled, Associativity, Sets, Blocks, Configs,
    access_pen_r, access_pen_w, access_pen_b, uncached_start, MemWords,
    HostEndian,     \* __BYTE_ORDER of the build
    Inputs,         \* 32-bit values passed to write_ctl
    MaxOps          \* bound on the front-end calls that reach the cache

VARIABLES cache_config, dt, lru, lfu, cnt, change_counter, shown, mem, op, ops

vars == <<cache_config, dt, lru, lfu, cnt, change_counter, shown, mem, op, ops>>

cache_vars == <<cache_config, dt, lru, lfu, cnt, change_counter, shown, mem>>

WordAddrs == {4 * i : i \in 0 .. MemWords - 1}

\* the cache's own ghosts op and ret stay at their initial values and are
\* unused: write_ctl returns nothing
C == INSTANCE Cache WITH Addrs <- WordAddrs, Val <- Word, Val0 <- Zero,
                         op <- [kind |-> "init", addr |-> 0, val |-> 0],
                         ret <- FALSE

F == INSTANCE FrontendMemory

ByteAddrs == F!ByteAddrs

SubWord == {"AC_BYTE", "AC_BYTE_UNSIGNED", "AC_HALFWORD", "AC_HALFWORD_UNSIGNED"}

\* the word write_byte / write_hword store, from the word their read returned
Merged(ctl, a, old, v) ==
    IF ctl \in {"AC_BYTE", "AC_BYTE_UNSIGNED"}
    THEN F!merge_byte(old, a, Low8(v))
    ELSE F!merge_hword(old, a, Low16(v))

Init ==
    /\ C!Init
    /\ op = [kind |-> "init", ctl |-> "AC_NONE", addr |-> 0, val |-> Zero]

\* write_ctl(ctl, a, v): nothing for AC_NONE, Cache::write for AC_WORD,
\* Cache::read then Cache::write of the merged word for a sub-word store;
\* the write's way is chosen in the state the read left
WriteCtl(ctl, a, v) ==
    /\ C!Counted
    /\ op' = [kind |-> "write_ctl", ctl |-> ctl, addr |-> a, val |-> v]
    /\ \/ /\ ctl = "AC_NONE"
          /\ UNCHANGED cache_vars
       \/ /\ ctl = "AC_WORD"
          /\ \E w \in C!Slots(C!Cur, a) : C!Update(C!WriteWord(C!Cur, a, w, v).s)
       \/ /\ ctl \in SubWord
          /\ \E w1 \in C!Slots(C!Cur, a) :
                LET r == C!ReadWord(C!Cur, a, w1)
                IN  \E w2 \in C!Slots(r.s, a) :
                        C!Update(C!WriteWord(r.s, a, w2, Merged(ctl, a, r.val, v)).s)

\* read_ctl(ctl, a): 0 without a read for AC_NONE, else one Cache::read
ReadCtl(ctl, a) ==
    \/ /\ ctl = "AC_NONE"
       /\ op' = [kind |-> "read_ctl", ctl |-> ctl, addr |-> a, val |-> Zero]
       /\ UNCHANGED <<cache_vars, ops>>
    \/ /\ ctl # "AC_NONE"
       /\ C!Counted
       /\ \E w \in C!Slots(C!Cur, a) :
             LET r == C!ReadWord(C!Cur, a, w)
             IN  /\ C!Update(r.s)
                 /\ op' = [kind |-> "read_ctl", ctl |-> ctl, addr |-> a,
                           val |-> F!read_ctl_of(ctl, a, r.val)]

\* Cache::sync() (flush): no front-end call, the bytes stay as they read
Sync ==
    /\ Enabled
    /\ C!Counted
    /\ C!Update(C!FlushAll(C!Cur))
    /\ UNCHANGED op

Next ==
    \/ \E ctl \in F!Ctls, a \in ByteAddrs, v \in Inputs : WriteCtl(ctl, a, v)
    \/ \E ctl \in F!Ctls, a \in ByteAddrs : ReadCtl(ctl, a)
    \/ Sync

Spec == Init /\ [][Next]_vars

-----------------------------------------------------------------------------
\* The byte at x is what read_byte returns for x through the cache: the
\* lane of the word the holding line, else the memory, has.
ByteView == [x \in ByteAddrs |-> F!byte_of(C!View[x - (x % 4)], x)]

Abstract == INSTANCE AbstractByteMemory WITH bytes <- ByteView

\* The CPU's typed accesses through the cache act on a byte memory: the
\* read-modify-write of a byte or half-word store, whose read may miss,
\* evict and write back another block before the write lands, changes
\* exactly the bytes stored, and every read_ctl returns the bytes last
\* stored, as the big-endian byte memory says (write_byte, write_hword,
\* read_ctl, Cache::read, Cache::write, access(), kick(), flush()).
FrontendOverCacheRefinesByteMemory == Abstract!Spec

\* Under WP_THROUGH_NOALLOC a store that misses allocates no line: no
\* word becomes cached by a write_ctl (spec 4.5 access() step 2 and the
\* "no-allocate" write miss; write_byte / write_hword, Cache::write).
StoreMissAllocatesNoLine ==
    [][op'.kind = "write_ctl" /\ C!WritePolicy = "WP_THROUGH_NOALLOC" =>
          \A a \in WordAddrs : C!Cached(a)' => C!Cached(a)]_vars
=============================================================================
