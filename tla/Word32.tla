------------------------------- MODULE Word32 -------------------------------
(***************************************************************************)
(* The C++ uint32_t as four byte lanes: lane k holds bits 8k .. 8k+7.      *)
(* TLC integers are 32-bit signed, so a word with its top bit set cannot   *)
(* be held as one integer; shifts by whole bytes, masks and the casts the  *)
(* memory front end uses are defined lane by lane, which is what they do   *)
(* to the bits.                                                            *)
(***************************************************************************)
EXTENDS Integers
LOCAL INSTANCE Bitwise

Lanes == 0 .. 3
Byte  == 0 .. 255
Word  == [Lanes -> Byte]

\* (uint32_t) x for an integer x: x modulo 2^32, lane by lane
ToWord(x) == [k \in Lanes |-> (x \div 2^(8 * k)) % 256]

Zero == ToWord(0)

\* w << nth and w >> nth, nth a multiple of 8; bits shifted out are lost
Shl(w, nth) == [k \in Lanes |-> IF k >= nth \div 8 THEN w[k - nth \div 8] ELSE 0]
Shr(w, nth) == [k \in Lanes |-> IF k + nth \div 8 <= 3 THEN w[k + nth \div 8] ELSE 0]

\* w & u, w | u, ~w
BitAnd(w, u) == [k \in Lanes |-> w[k] & u[k]]
BitOr(w, u)  == [k \in Lanes |-> w[k] | u[k]]
BitNot(w)    == [k \in Lanes |-> 255 - w[k]]

\* (uint8_t) w and (uint16_t) w
Low8(w)  == w[0]
Low16(w) == w[0] + 256 * w[1]
=============================================================================
