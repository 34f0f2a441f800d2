------------------------- MODULE AbstractByteMemory -------------------------
(***************************************************************************)
(* What the typed accessors of FrontendMemory promise: a byte-addressed    *)
(* memory of the simulated big-endian MIPS machine.  A half-word, word or  *)
(* double-word access covers the naturally aligned bytes around its        *)
(* address (the low address bits are dropped, as the header says), the     *)
(* most significant byte at the lowest address.  read_ctl extends a        *)
(* signed byte or half-word with copies of its top bit.  Bytes outside     *)
(* the memory are dropped on write.                                        *)
(***************************************************************************)
EXTENDS Integers, Word32

CONSTANTS ByteAddrs,    \* the mapped byte addresses
          Inputs        \* the 32-bit values written

VARIABLES bytes, op
vars == <<bytes, op>>

Ctls == {"AC_NONE", "AC_BYTE", "AC_HALFWORD", "AC_WORD",
         "AC_BYTE_UNSIGNED", "AC_HALFWORD_UNSIGNED"}

Size == [AC_NONE |-> 0, AC_BYTE |-> 1, AC_HALFWORD |-> 2, AC_WORD |-> 4,
         AC_BYTE_UNSIGNED |-> 1, AC_HALFWORD_UNSIGNED |-> 2]

Signed == {"AC_BYTE", "AC_HALFWORD"}

\* the low n bytes of v stored big-endian at the n-aligned address below a
Store(b, a, n, v) ==
    IF n = 0 THEN b
    ELSE LET a0 == a - (a % n)
         IN [x \in DOMAIN b |-> IF a0 <= x /\ x < a0 + n
                                THEN v[n - 1 - (x - a0)] ELSE b[x]]

\* the n bytes at the n-aligned address below a, as a 32-bit value
Load(a, n, signed) ==
    IF n = 0 THEN Zero
    ELSE LET a0  == a - (a % n)
             ext == IF signed /\ bytes[a0] >= 128 THEN 255 ELSE 0
         IN [k \in Lanes |-> IF k < n THEN bytes[a0 + n - 1 - k] ELSE ext]

Init ==
    /\ bytes = [x \in ByteAddrs |-> 0]
    /\ op = [kind |-> "init", ctl |-> "AC_NONE", addr |-> 0, val |-> Zero]

WriteCtl(ctl, a, v) ==
    /\ op' = [kind |-> "write_ctl", ctl |-> ctl, addr |-> a, val |-> v]
    /\ bytes' = Store(bytes, a, Size[ctl], v)

ReadCtl(ctl, a) ==
    /\ op' = [kind |-> "read_ctl", ctl |-> ctl, addr |-> a,
              val |-> Load(a, Size[ctl], ctl \in Signed)]
    /\ UNCHANGED bytes

\* the high word at the aligned address, the low word in the next four bytes
WriteDword(a, hi, lo) ==
    /\ op' = [kind |-> "write_dword", ctl |-> "AC_NONE", addr |-> a,
              val |-> <<hi, lo>>]
    /\ bytes' = Store(Store(bytes, a, 4, hi), (a - (a % 4)) + 4, 4, lo)

Next ==
    \/ \E ctl \in Ctls, a \in ByteAddrs, v \in Inputs : WriteCtl(ctl, a, v)
    \/ \E ctl \in Ctls, a \in ByteAddrs : ReadCtl(ctl, a)
    \/ \E a \in ByteAddrs, hi, lo \in Inputs : WriteDword(a, hi, lo)

Spec == Init /\ [][Next]_vars
=============================================================================
