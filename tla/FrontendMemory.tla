--------------------------- MODULE FrontendMemory ---------------------------
(***************************************************************************)
(* The typed accessors of machine::FrontendMemory                          *)
(* (src/qtmips_machine/memory/frontend_memory.cpp): byte, half-word,       *)
(* double-word and control-code access built on the one 32-bit read/write  *)
(* pair that Cache and the MMU implement.                                  *)
(*                                                                         *)
(* Beneath the front end is a word memory: Cache.tla shows that the cache  *)
(* implements one (CacheRefinesMemory), and the MMU is one.  Like both, it *)
(* drops the two low address bits, reads 0 and ignores writes outside its  *)
(* words, and reports from write whether the word changed.                 *)
(*                                                                         *)
(* HostEndian is the __BYTE_ORDER the simulator is compiled for; it        *)
(* selects the SH_NTH_8 / SH_NTH_16 macros.                                *)
(***************************************************************************)
EXTENDS Integers, Word32

CONSTANTS HostEndian,   \* "LITTLE" or "BIG"
          WordAddrs,    \* word-aligned addresses of the memory beneath
          Inputs,       \* 32-bit values passed to the write accessors
          MaxOps        \* bound on the number of write calls

ASSUME HostEndian \in {"LITTLE", "BIG"}
ASSUME \A a \in WordAddrs : a % 4 = 0

VARIABLES mem,  \* the word memory beneath: word address -> Word
          op,   \* ghost: the last call and the value it returned
          ops   \* ghost: number of write calls so far

vars == <<mem, op, ops>>

ByteAddrs == {w + i : w \in WordAddrs, i \in 0 .. 3}

Ctls == {"AC_NONE", "AC_BYTE", "AC_HALFWORD", "AC_WORD",
         "AC_BYTE_UNSIGNED", "AC_HALFWORD_UNSIGNED"}

WordOf(a) == a - (a % 4)

\* FrontendMemory::read / write as Cache and the MMU implement them
read(m, a) == IF WordOf(a) \in WordAddrs THEN m[WordOf(a)] ELSE Zero

write(m, a, v) ==
    IF WordOf(a) \in WordAddrs
    THEN [mem |-> [m EXCEPT ![WordOf(a)] = v], changed |-> m[WordOf(a)] # v]
    ELSE [mem |-> m, changed |-> FALSE]

\* bit position of the byte / half-word at offset a inside its word
SH_NTH_8(a) == IF HostEndian = "LITTLE" THEN (3 - (a % 4)) * 8
                                         ELSE (a % 4) * 8
SH_NTH_16(a) == LET a2 == (a % 4) - (a % 2)        \* a & 0b10
                IN IF HostEndian = "LITTLE" THEN (2 - a2) * 8 ELSE a2 * 8

(***************************************************************************)
(* Each accessor is one read or write of the memory beneath and a pure     *)
(* step on the word: merge_* computes the word write_byte / write_hword    *)
(* store from the word their read returned, read_ctl_of what read_ctl      *)
(* returns from the word its one read returned.  FrontendOverCache.tla     *)
(* applies the same steps around the cache's read and write.               *)
(***************************************************************************)
\* (mutant) the merge keeps the masked lane of the old word instead of the
\* other three: (read(address) & mask) | ...
merge_byte_keeps_mask(old, a, value) ==
    LET nth  == SH_NTH_8(a)
        mask == Shl(ToWord(255), nth)
    IN BitOr(BitAnd(old, mask), BitAnd(Shl(ToWord(value), nth), mask))

\* (read(address) & ~mask) | ((value << nth) & mask)
merge_byte(old, a, value) ==
    LET nth  == SH_NTH_8(a)
        mask == Shl(ToWord(255), nth)
    IN BitOr(BitAnd(old, BitNot(mask)), BitAnd(Shl(ToWord(value), nth), mask))

merge_hword(old, a, value) ==
    LET nth  == SH_NTH_16(a)
        mask == Shl(ToWord(65535), nth)
    IN BitOr(BitAnd(old, BitNot(mask)), BitAnd(Shl(ToWord(value), nth), mask))

\* read-modify-write of the byte / half-word lanes of the word at a
write_byte(m, a, value) == write(m, a, merge_byte(read(m, a), a, value))

write_hword(m, a, value) == write(m, a, merge_hword(read(m, a), a, value))

write_word(m, a, value) == write(m, a, value)

\* write(address, hi) && write(address + 32, lo)
write_dword(m, a, hi, lo) ==
    LET first == write(m, a, hi)
    IN IF first.changed THEN write(first.mem, a + 32, lo) ELSE first

\* (uint8_t) (word >> nth) and (uint16_t) (word >> nth)
byte_of(word, a)  == Low8(Shr(word, SH_NTH_8(a)))
hword_of(word, a) == Low16(Shr(word, SH_NTH_16(a)))

read_byte(m, a)  == byte_of(read(m, a), a)
read_hword(m, a) == hword_of(read(m, a), a)
read_word(m, a)  == read(m, a)

\* the switch of write_ctl; the (uint8_t) and (uint16_t) casts of value
write_ctl(m, ctl, a, value) ==
    CASE ctl = "AC_NONE" -> m
      [] ctl \in {"AC_BYTE", "AC_BYTE_UNSIGNED"} ->
            write_byte(m, a, Low8(value)).mem
      [] ctl \in {"AC_HALFWORD", "AC_HALFWORD_UNSIGNED"} ->
            write_hword(m, a, Low16(value)).mem
      [] ctl = "AC_WORD" -> write_word(m, a, value).mem

\* the switch of read_ctl, with its unsigned sign-extension arithmetic,
\* for a control code other than AC_NONE whose one read returned word
read_ctl_of(ctl, a, word) ==
    LET b == byte_of(word, a)
        h == hword_of(word, a)
    IN CASE ctl = "AC_BYTE" -> ToWord((b % 256) - ((b \div 128) % 2) * 128 * 2)
         [] ctl = "AC_HALFWORD" ->
               ToWord((h % 65536) - ((h \div 32768) % 2) * 32768 * 2)
         [] ctl = "AC_WORD" -> word
         [] ctl = "AC_BYTE_UNSIGNED" -> ToWord(b)
         [] ctl = "AC_HALFWORD_UNSIGNED" -> ToWord(h)

\* AC_NONE returns 0 without a read
read_ctl(m, ctl, a) ==
    IF ctl = "AC_NONE" THEN Zero ELSE read_ctl_of(ctl, a, read(m, a))

Counted == ops < MaxOps /\ ops' = ops + 1

Init ==
    /\ mem = [w \in WordAddrs |-> Zero]
    /\ op = [kind |-> "init", ctl |-> "AC_NONE", addr |-> 0, val |-> Zero]
    /\ ops = 0

WriteCtl(ctl, a, v) ==
    /\ Counted
    /\ op' = [kind |-> "write_ctl", ctl |-> ctl, addr |-> a, val |-> v]
    /\ mem' = write_ctl(mem, ctl, a, v)

\* reads change nothing beneath (a word memory), so they are not bounded
ReadCtl(ctl, a) ==
    /\ op' = [kind |-> "read_ctl", ctl |-> ctl, addr |-> a,
              val |-> read_ctl(mem, ctl, a)]
    /\ UNCHANGED <<mem, ops>>

WriteDword(a, hi, lo) ==
    /\ Counted
    /\ op' = [kind |-> "write_dword", ctl |-> "AC_NONE", addr |-> a,
              val |-> <<hi, lo>>]
    /\ mem' = write_dword(mem, a, hi, lo).mem

NextWithoutDword ==
    \/ \E ctl \in Ctls, a \in ByteAddrs, v \in Inputs : WriteCtl(ctl, a, v)
    \/ \E ctl \in Ctls, a \in ByteAddrs : ReadCtl(ctl, a)

Next ==
    \/ NextWithoutDword
    \/ \E a \in ByteAddrs, hi, lo \in Inputs : WriteDword(a, hi, lo)

Spec == Init /\ [][Next]_vars
SpecWithoutDword == Init /\ [][NextWithoutDword]_vars

-----------------------------------------------------------------------------
\* The memory beneath keeps exactly its word addresses, each holding four
\* bytes, and every call returns a 32-bit value (two for write_dword).
TypeOK ==
    /\ mem \in [WordAddrs -> Word]
    /\ op.val \in Word \cup (Word \X Word)
    /\ ops \in 0 .. MaxOps

\* The byte at address x is what read_byte returns for x.
View == [x \in ByteAddrs |-> read_byte(mem, x)]

Abstract == INSTANCE AbstractByteMemory WITH bytes <- View

\* Every write_ctl, read_ctl and write_dword acts as the big-endian byte
\* memory says: a read returns the bytes last written at those addresses,
\* assembled most significant first and sign- or zero-extended by its
\* control code, and a write changes exactly the bytes it covers.
FrontendRefinesByteMemory == Abstract!Spec
=============================================================================
