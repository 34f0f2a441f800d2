------------------------ MODULE MC_ByteRangeFrontend ------------------------
EXTENDS ByteRangeFrontend

\* eight bytes: one double word, and half words and words at every alignment
MC_ByteAddrs == 0 .. 7

\* all lanes different, so a misplaced byte is visible; the sign bit is set
\* in the low byte and in the double word, clear in the low half word and
\* word, and reads at other alignments see both
MC_Inputs ==
    { [k \in Lanes64 |-> << 129, 2, 131, 4, 5, 134, 7, 136 >>[k + 1]] }
=============================================================================
