-------------------------- MODULE SimEndianMemory ---------------------------
(***************************************************************************)
(* What the typed accessors of the byte-range FrontendMemory promise: a    *)
(* byte-addressed memory of a machine with byte order `endian`.  An access *)
(* of n bytes at address a covers bytes a .. a+n-1, whatever the alignment; *)
(* on a big-endian machine the most significant byte is at a, on a         *)
(* little-endian one the least significant.  A signed read extends the     *)
(* value to 64 bits with copies of its top bit.                            *)
(***************************************************************************)
EXTENDS Integers

CONSTANTS ByteAddrs, Inputs, Ctls, Size, Signed

VARIABLES bytes, endian, op
vars == <<bytes, endian, op>>

Lanes64 == 0 .. 7
Zero64  == [k \in Lanes64 |-> 0]

\* the byte of an n-byte value v stored at a + i
Encode(v, n, i) == IF endian = "BIG" THEN v[n - 1 - i] ELSE v[i]

\* the n bytes at a as a 64-bit value, zero- or sign-extended
Decode(a, n, signed) ==
    LET msb == IF endian = "BIG" THEN bytes[a] ELSE bytes[a + n - 1]
    IN [k \in Lanes64 |->
          IF k < n THEN (IF endian = "BIG" THEN bytes[a + n - 1 - k]
                                           ELSE bytes[a + k])
          ELSE IF signed /\ msb >= 128 THEN 255 ELSE 0]

Fits(ctl, a) == \A i \in 0 .. Size[ctl] - 1 : a + i \in ByteAddrs

Init ==
    /\ bytes = [x \in ByteAddrs |-> 0]
    /\ endian \in {"LITTLE", "BIG"}
    /\ op = [kind |-> "init", ctl |-> "AC_NONE", addr |-> 0, val |-> Zero64]

\* a write records the unsigned code of its width: the signed and unsigned
\* codes of one width store the same bytes
WidthCode(n) == CHOOSE c \in Ctls \ Signed : Size[c] = n

\* In Write and Read the first conjuncts follow from the op' equality; they
\* come first so that a step of another call is rejected before the value
\* of this one is computed.
Write(n, a, v) ==
    /\ op'.kind = "write" /\ op'.addr = a
    /\ op' = [kind |-> "write", ctl |-> WidthCode(n), addr |-> a, val |-> v]
    /\ bytes' = [x \in ByteAddrs |->
                   IF a <= x /\ x < a + n THEN Encode(v, n, x - a) ELSE bytes[x]]
    /\ UNCHANGED endian

Read(ctl, a) ==
    /\ op'.kind = "read_ctl" /\ op'.ctl = ctl /\ op'.addr = a
    /\ Fits(ctl, a)
    /\ op' = [kind |-> "read_ctl", ctl |-> ctl, addr |-> a,
              val |-> IF Size[ctl] = 0 THEN Zero64
                      ELSE Decode(a, Size[ctl], ctl \in Signed)]
    /\ UNCHANGED <<bytes, endian>>

Next ==
    \/ \E ctl \in Ctls, a \in ByteAddrs, v \in Inputs :
          Write(Size[ctl], a, v) /\ Fits(ctl, a)
    \/ \E ctl \in Ctls, a \in ByteAddrs : Read(ctl, a)

Spec == Init /\ [][Next]_vars
=============================================================================
