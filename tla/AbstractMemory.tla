--------------------------- MODULE AbstractMemory ---------------------------
(***************************************************************************)
(* What a FrontendMemory promises its user (the CPU pipeline): a word     *)
(* memory.  A write stores a value at an address, a read (debug or not)   *)
(* returns the value last stored there, and sync/flush/reset do not       *)
(* change what a later read returns.  The ghost record op is the last      *)
(* call made on the interface together with the value it returned.        *)
(***************************************************************************)
EXTENDS Integers

CONSTANTS
    Addrs,      \* the word addresses the user issues accesses to
    Val         \* the values the user writes; 0 is the initial content

ASSUME 0 \in Val

VARIABLES memory, op

vars == <<memory, op>>

Init ==
    /\ memory = [a \in Addrs |-> 0]
    /\ op = [kind |-> "init", addr |-> 0, val |-> 0]

Write(a, v) ==
    /\ op' = [kind |-> "write", addr |-> a, val |-> v]
    /\ memory' = [memory EXCEPT ![a] = v]

\* Both a normal and a debug read return the stored word.
Read(a, kind) ==
    /\ op'.kind = kind /\ op'.addr = a
    /\ op' = [kind |-> kind, addr |-> a, val |-> memory[a]]
    /\ UNCHANGED memory

\* flush/sync and reset are invisible to the contents.
Sync(kind) ==
    /\ op' = [kind |-> kind, addr |-> 0, val |-> 0]
    /\ UNCHANGED memory

Next ==
    \/ \E a \in Addrs, v \in Val : Write(a, v)
    \/ \E a \in Addrs, k \in {"read", "debug_read"} : Read(a, k)
    \/ \E k \in {"flush", "reset"} : Sync(k)

Spec == Init /\ [][Next]_vars
=============================================================================
