------------------------------- MODULE Reporter -------------------------------
(***************************************************************************)
(* The command-line reporter of the simulator (Reporter,                   *)
(* src/src/cli/reporter.cpp).  Before the machine runs, the command line   *)
(* sets what the final report contains (regs(), cache_stats(), cycles(),   *)
(* add_dump_range()) and which failures are expected (expect_fail()).      *)
(* The machine then stops through one of three signals, and the slot that  *)
(* receives it prints the report and ends the process with an exit code.   *)
(*                                                                         *)
(* Addresses are machine::Address (src/qtmips_machine/memory/address.h),   *)
(* a uint64_t.  They are kept as four 16-bit limbs, least significant      *)
(* first, so that the 64-bit sums and comparisons of the dump loop keep    *)
(* their width.  What the dump reads from memory is left out: a dump file  *)
(* is the sequence of word addresses it shows, in order.                   *)
(*                                                                         *)
(* FailReason (declared in reporter.h, not in the repository) is a set of  *)
(* bit flags, as the | and & on e_fail treat it; e_fail is the set of the  *)
(* flags it holds.  requested is a ghost: the reasons passed to            *)
(* expect_fail.                                                            *)
(***************************************************************************)
EXTENDS Integers, Sequences

CONSTANTS FailReasons,  \* FR_I, FR_A, FR_O, FR_J
          Traps,        \* the SimulatorException types machine_trap receives
          Starts,       \* start addresses passed to add_dump_range, as limbs
          Lens,         \* lengths passed to add_dump_range (small naturals)
          Paths,        \* output file paths
          MaxRanges     \* bound on add_dump_range calls

\* the flag machine_trap tests for each exception type; other types match
\* no flag
TrapReason == [UnsupportedInstruction |-> "FR_I", UnsupportedAluOperation |-> "FR_A",
               Overflow |-> "FR_O", UnalignedJump |-> "FR_J"]

ASSUME FailReasons = {"FR_I", "FR_A", "FR_O", "FR_J"}
ASSUME Traps \subseteq {"UnsupportedInstruction", "UnsupportedAluOperation",
                        "Overflow", "UnalignedJump", "Other"}

VARIABLES e_regs, e_cache_stats, e_cycles, e_fail, dump_ranges,
          requested,   \* ghost: every reason passed to expect_fail
          stop,        \* the signal the machine stopped with, or "none"
          trap,        \* the exception type program_trap carried, or "none"
          exit_code,   \* the code passed to QCoreApplication::exit
          printed,     \* the sections of the report, in order
          files        \* path -> the word addresses written to it

vars == <<e_regs, e_cache_stats, e_cycles, e_fail, dump_ranges, requested,
          stop, trap, exit_code, printed, files>>

(***************************************************************************)
(* machine::Address: 64-bit unsigned arithmetic on 16-bit limbs.           *)
(***************************************************************************)
Limb == 0 .. 65535
Address(n) == <<n % 65536, (n \div 65536) % 65536, 0, 0>>   \* 0 <= n < 2^31

RECURSIVE AddFrom(_, _, _, _)
AddFrom(a, b, i, carry) ==
    IF i > 4 THEN <<>>
    ELSE <<(a[i] + b[i] + carry) % 65536>>
           \o AddFrom(a, b, i + 1, (a[i] + b[i] + carry) \div 65536)

\* Address::operator+ / operator+=: the sum modulo 2^64
Plus(a, b) == AddFrom(a, b, 1, 0)

\* Address::operator<: the limbs compared from the most significant
RECURSIVE LessFrom(_, _, _)
LessFrom(a, b, i) ==
    IF i = 0 THEN FALSE
    ELSE IF a[i] # b[i] THEN a[i] < b[i] ELSE LessFrom(a, b, i - 1)
Less(a, b) == LessFrom(a, b, 4)

\* Address::operator& with ~3 (the int -4 widened to 0xff..fc)
AndNot3(a) == [a EXCEPT ![1] = @ - (@ % 4)]

\* 0xffffffff_addr
AddrTop32 == <<65535, 65535, 0, 0>>

(***************************************************************************)
(* report(): the sections it prints and the dump loop.                     *)
(***************************************************************************)
\* the statistics sections, in the order of the if blocks; the second and
\* third print d-cache stall and speed lines, the fourth cycles and stalls
Sections(regs, cache_stats, cycles) ==
    (IF regs THEN <<"regs">> ELSE <<>>)
    \o (IF cache_stats THEN <<"i-cache", "d-cache">> ELSE <<>>)
    \o (IF cycles THEN <<"d-cache-cycles">> ELSE <<>>)
    \o (IF cycles THEN <<"cycles">> ELSE <<>>)

\* for (addr = start; addr < end; addr += 4)
RECURSIVE DumpLoop(_, _)
\* (mutant) the loop runs while addr <= end
DumpLoop_inclusive(addr, end) ==
    IF Less(addr, end) \/ addr = end
    THEN <<addr>> \o DumpLoop(Plus(addr, Address(4)), end)
    ELSE <<>>

DumpLoop(addr, end) ==
    IF Less(addr, end)
    THEN <<addr>> \o DumpLoop(Plus(addr, Address(4)), end)
    ELSE <<>>

\* one DumpRange: start rounded down to a word, end = start + len, and
\* the 32-bit clamp when the sum wrapped
\* (mutant) the start is not rounded down to its word
Dump_unaligned(range) ==
    LET end0 == Plus(range.start, Address(range.len))
        end == IF Less(end0, range.start) THEN AddrTop32 ELSE end0
    IN  DumpLoop(range.start, end)

\* (mutant) the end is computed from the rounded-down start
Dump_end_from_aligned(range) ==
    LET start == AndNot3(range.start)
        end0 == Plus(start, Address(range.len))
        end == IF Less(end0, start) THEN AddrTop32 ELSE end0
    IN  DumpLoop(start, end)

Dump(range) ==
    LET start == AndNot3(range.start)
        end0 == Plus(range.start, Address(range.len))
        end == IF Less(end0, start) THEN AddrTop32 ELSE end0
    IN  DumpLoop(start, end)

\* the foreach over dump_ranges: each range truncates and writes its file
RECURSIVE WriteDumps(_, _)
WriteDumps(f, ranges) ==
    IF ranges = <<>> THEN f
    ELSE WriteDumps([f EXCEPT ![Head(ranges).path] = Dump(Head(ranges))],
                    Tail(ranges))

\* report() followed by QCoreApplication::exit(code)
ReportAndExit(signal, e, code) ==
    /\ stop' = signal
    /\ trap' = e
    /\ exit_code' = code
    /\ printed' = Sections(e_regs, e_cache_stats, e_cycles)
    /\ files' = WriteDumps(files, dump_ranges)
    /\ UNCHANGED <<e_regs, e_cache_stats, e_cycles, e_fail, dump_ranges, requested>>

(***************************************************************************)
(* The operations.                                                         *)
(***************************************************************************)
Configuring == stop = "none"
Config(v) == /\ Configuring
             /\ UNCHANGED <<stop, trap, exit_code, printed, files>>
             /\ UNCHANGED v

Init ==
    /\ e_regs = FALSE /\ e_cache_stats = FALSE /\ e_cycles = FALSE
    /\ e_fail = {}
    /\ dump_ranges = <<>>
    /\ requested = {}
    /\ stop = "none"
    /\ trap = "none"
    /\ exit_code = 0
    /\ printed = <<>>
    /\ files = [p \in Paths |-> <<>>]

regs == e_regs' = TRUE /\ Config(<<e_cache_stats, e_cycles, e_fail, dump_ranges, requested>>)
cache_stats == e_cache_stats' = TRUE /\ Config(<<e_regs, e_cycles, e_fail, dump_ranges, requested>>)
cycles == e_cycles' = TRUE /\ Config(<<e_regs, e_cache_stats, e_fail, dump_ranges, requested>>)

\* (mutant) the reason replaces the earlier ones instead of joining them
expect_fail_overwrites(reason) ==
    /\ e_fail' = {reason}
    /\ requested' = requested \cup {reason}
    /\ Config(<<e_regs, e_cache_stats, e_cycles, dump_ranges>>)

expect_fail(reason) ==
    /\ e_fail' = e_fail \cup {reason}
    /\ requested' = requested \cup {reason}
    /\ Config(<<e_regs, e_cache_stats, e_cycles, dump_ranges>>)

add_dump_range(start, len, path) ==
    /\ Len(dump_ranges) < MaxRanges
    /\ dump_ranges' = Append(dump_ranges, [start |-> start, len |-> len, path |-> path])
    /\ Config(<<e_regs, e_cache_stats, e_cycles, e_fail, requested>>)

machine_exit ==
    /\ Configuring
    /\ ReportAndExit("program_exit", "none", IF e_fail # {} THEN 1 ELSE 0)

\* the switch on the exception cause only prints
machine_exception_reached ==
    /\ Configuring
    /\ ReportAndExit("stop_on_exception_reached", "none", 0)

machine_trap(e) ==
    /\ Configuring
    /\ LET expected == e \in DOMAIN TrapReason /\ TrapReason[e] \in e_fail
       IN  ReportAndExit("program_trap", e, IF expected THEN 0 ELSE 1)

Next ==
    \/ regs \/ cache_stats \/ cycles
    \/ \E r \in FailReasons : expect_fail(r)
    \/ \E s \in Starts, n \in Lens, p \in Paths : add_dump_range(s, n, p)
    \/ machine_exit
    \/ machine_exception_reached
    \/ \E e \in Traps : machine_trap(e)

\* once the process has exited nothing is enabled: the run may stop
Spec == Init /\ [][Next]_vars

(***************************************************************************)
(* Properties.                                                             *)
(***************************************************************************)
Range == [start : Starts, len : Lens, path : Paths]

WordAddress == {a \in [1 .. 4 -> Limb] : a[1] % 4 = 0}

\* The settings and the exit state have their types, and a dump file holds
\* word-aligned addresses only.
TypeOK ==
    /\ {e_regs, e_cache_stats, e_cycles} \subseteq BOOLEAN
    /\ e_fail \subseteq FailReasons /\ requested \subseteq FailReasons
    /\ dump_ranges \in Seq(Range) /\ Len(dump_ranges) <= MaxRanges
    /\ stop \in {"none", "program_exit", "stop_on_exception_reached", "program_trap"}
    /\ exit_code \in {0, 1}
    /\ files \in [Paths -> Seq(WordAddress)]

\* The words a dump of range r shows, counted rather than looped over:
\* from the word holding r.start, every word that begins below
\* r.start + r.len, i.e. ceil((r.len + r.start % 4) / 4) of them.
WordsOf(r) ==
    [k \in 1 .. (r.len + (r.start[1] % 4) + 3) \div 4 |->
        Plus(AndNot3(r.start), Address(4 * (k - 1)))]

\* the last range added for path p
LastFor(p) ==
    dump_ranges[CHOOSE i \in DOMAIN dump_ranges :
                    /\ dump_ranges[i].path = p
                    /\ \A j \in DOMAIN dump_ranges : j > i => dump_ranges[j].path # p]

\* After the report each file holds, in order, exactly the words of the
\* last range added for it: the 64-bit loop of report() with its rounded
\* start, its end computed from the unrounded start and its carries across
\* limbs (and past 0xffffffff) dumps neither a word too few nor too many
\* (add_dump_range(), report()).
DumpCoversRange ==
    stop # "none" =>
        \A p \in Paths :
            files[p] = IF \E i \in DOMAIN dump_ranges : dump_ranges[i].path = p
                       THEN WordsOf(LastFor(p)) ELSE <<>>

\* The exit code says whether the run ended as the command line expected:
\* 0 after a normal exit only when no failure was expected, after a trap
\* only when one of the reasons passed to expect_fail names that trap, and
\* always after a stop on an exception; whatever order and number of
\* expect_fail calls came before (expect_fail(), machine_exit(),
\* machine_trap(), machine_exception_reached()).
ExitCodeMatchesExpectation ==
    stop # "none" =>
        (exit_code = 0 <=>
            \/ stop = "program_exit" /\ requested = {}
            \/ stop = "stop_on_exception_reached"
            \/ /\ stop = "program_trap"
               /\ \E e \in DOMAIN TrapReason : trap = e /\ TrapReason[e] \in requested)
=============================================================================
