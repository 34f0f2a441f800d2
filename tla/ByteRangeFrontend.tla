-------------------------- MODULE ByteRangeFrontend -------------------------
(***************************************************************************)
(* The typed accessors of the byte-range machine::FrontendMemory           *)
(* (src/src/machine/memory/frontend_memory.cpp).  Every accessor is        *)
(* write_generic<T> / read_generic<T>: the value is byte-swapped when the  *)
(* simulated machine's byte order differs from the host's (NATIVE_ENDIAN), *)
(* and its object representation, in host byte order, is copied to or     *)
(* from sizeof(T) bytes of the memory beneath by the abstract              *)
(* read(void *, Address, size, options) / write(Address, void *, size,    *)
(* options) pair.                                                         *)
(*                                                                         *)
(* `native` is the host byte order the simulator is built for and          *)
(* `simulated` the simulated_machine_endian it is constructed with; Init   *)
(* chooses both, the host among HostEndians.  Values are 64 bits,          *)
(* as eight byte lanes (lane k holds bits 8k .. 8k+7).                     *)
(***************************************************************************)
EXTENDS Integers

CONSTANTS ByteAddrs,    \* addresses of the bytes beneath
          Inputs,       \* RegisterValues passed to write_ctl
          MaxOps,       \* bound on the number of write calls
          HostEndians   \* NATIVE_ENDIAN of the builds considered

VARIABLES mem,          \* the bytes beneath: address -> byte
          native,       \* NATIVE_ENDIAN
          simulated,    \* simulated_machine_endian
          op,           \* ghost: the last call and the value it returned
          ops           \* ghost: number of write calls so far

vars == <<mem, native, simulated, op, ops>>

Lanes64 == 0 .. 7
Byte    == 0 .. 255
Value   == [Lanes64 -> Byte]
Zero64  == [k \in Lanes64 |-> 0]

Ctls == {"AC_NONE", "AC_I8", "AC_U8", "AC_I16", "AC_U16",
         "AC_I32", "AC_U32", "AC_I64", "AC_U64"}

\* sizeof(T) of the accessor each control code dispatches to
Size == [AC_NONE |-> 0, AC_I8 |-> 1, AC_U8 |-> 1, AC_I16 |-> 2, AC_U16 |-> 2,
         AC_I32 |-> 4, AC_U32 |-> 4, AC_I64 |-> 8, AC_U64 |-> 8]

Signed == {"AC_I8", "AC_I16", "AC_I32", "AC_I64"}

\* the unsigned code of the width of ctl
UnsignedOf(ctl) == CHOOSE c \in Ctls \ Signed : Size[c] = Size[ctl]

\* accesses whose bytes all lie in the memory beneath
Fits(ctl, a) == \A i \in 0 .. Size[ctl] - 1 : a + i \in ByteAddrs

\* RegisterValue built from an n-byte integer, signed (int8_t ...) or not
RegisterValue(v, n, signed) ==
    [k \in Lanes64 |-> IF k < n THEN v[k]
                       ELSE IF signed /\ v[n - 1] >= 128 THEN 255 ELSE 0]

\* value.as_u8() ... as_u64(): the low n bytes
As(v, n) == RegisterValue(v, n, FALSE)

\* byteswap_if(value, cond) for a T of n bytes
byteswap_if(v, n, cond) ==
    IF cond THEN [k \in Lanes64 |-> IF k < n THEN v[n - 1 - k] ELSE 0]
            ELSE v

\* (mutant) the bytes put out least significant first, as shifts and masks
\* would, whatever the host
ObjectByte_shifted(v, n, i) == v[i]

\* byte i of the object representation of an n-byte T on the host
ObjectByte(v, n, i) == IF native = "LITTLE" THEN v[i] ELSE v[n - 1 - i]

\* the n-byte T whose object representation is the bytes at a
FromObject(m, a, n) ==
    [k \in Lanes64 |-> IF k >= n THEN 0
                       ELSE IF native = "LITTLE" THEN m[a + k]
                       ELSE m[a + n - 1 - k]]

read_generic(m, n, a) ==
    byteswap_if(FromObject(m, a, n), n, simulated # native)

\* (mutant) one byte past the value is copied (a zero), an off-by-one in
\* the size passed to write
write_generic_past_end(m, n, a, value) ==
    LET swapped == byteswap_if(value, n, simulated # native)
    IN [x \in DOMAIN m \cup {a + n} |->
          IF a <= x /\ x < a + n THEN ObjectByte(swapped, n, x - a)
          ELSE IF x = a + n THEN 0 ELSE m[x]]

write_generic(m, n, a, value) ==
    LET swapped == byteswap_if(value, n, simulated # native)
    IN [x \in DOMAIN m |->
          IF a <= x /\ x < a + n THEN ObjectByte(swapped, n, x - a) ELSE m[x]]

\* the switch of write_ctl: write_u8(offset, value.as_u8()) ...
write_ctl(m, ctl, a, value) ==
    IF ctl = "AC_NONE" THEN m
    ELSE write_generic(m, Size[ctl], a, As(value, Size[ctl]))

\* the switch of read_ctl: (int8_t)read_u8(address), read_u8(address) ...
read_ctl(m, ctl, a) ==
    IF ctl = "AC_NONE" THEN Zero64
    ELSE RegisterValue(read_generic(m, Size[ctl], a), Size[ctl], ctl \in Signed)

Counted == ops < MaxOps /\ ops' = ops + 1

Init ==
    /\ mem = [x \in ByteAddrs |-> 0]
    /\ native \in HostEndians
    /\ simulated \in {"LITTLE", "BIG"}
    /\ op = [kind |-> "init", ctl |-> "AC_NONE", addr |-> 0, val |-> Zero64]
    /\ ops = 0

WriteCtl(ctl, a, v) ==
    /\ Counted
    /\ op' = [kind |-> "write", ctl |-> UnsignedOf(ctl),
              addr |-> a, val |-> v]
    /\ mem' = write_ctl(mem, ctl, a, v)
    /\ UNCHANGED <<native, simulated>>

\* reads leave the memory beneath as it is, so they are not bounded
ReadCtl(ctl, a) ==
    /\ op' = [kind |-> "read_ctl", ctl |-> ctl, addr |-> a,
              val |-> read_ctl(mem, ctl, a)]
    /\ UNCHANGED <<mem, native, simulated, ops>>

Next ==
    \/ \E ctl \in Ctls, a \in ByteAddrs, v \in Inputs :
          Fits(ctl, a) /\ WriteCtl(ctl, a, v)
    \/ \E ctl \in Ctls, a \in ByteAddrs : Fits(ctl, a) /\ ReadCtl(ctl, a)

Spec == Init /\ [][Next]_vars

-----------------------------------------------------------------------------
\* Every byte beneath is a byte and every read returns a 64-bit value.
TypeOK ==
    /\ mem \in [ByteAddrs -> Byte]
    /\ op.val \in Value
    /\ ops \in 0 .. MaxOps

Abstract == INSTANCE SimEndianMemory WITH bytes <- mem, endian <- simulated

\* On every build, host and simulated byte order alike, write_ctl and
\* read_ctl act as a memory of the simulated byte order: a read of any
\* width at any alignment returns the bytes last written there, ordered by
\* the simulated machine and zero- or sign-extended by its control code.
FrontendRefinesSimMemory == Abstract!Spec
=============================================================================
