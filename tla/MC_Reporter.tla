------------------------------ MODULE MC_Reporter ------------------------------
(***************************************************************************)
(* Model-checking instance of Reporter.  The dump ranges start inside a  *)
(* word (2), just below a 16-bit limb boundary (0xfffe) and just below    *)
(* 2^32 (0xfffffff6).  A length of 0 ends inside the first word; 2 ends   *)
(* exactly on the next word boundary (0x10000 for 0xfffe); 13 runs over   *)
(* four words, across the limb boundary and past 0xffffffff.  Two paths   *)
(* let two ranges go to one file or to two.                               *)
(***************************************************************************)
EXTENDS Reporter

MC_Starts == {Address(2), Address(65534), <<65526, 65535, 0, 0>>}

MC_Lens == {0, 2, 13}
=============================================================================
