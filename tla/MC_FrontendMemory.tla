------------------------- MODULE MC_FrontendMemory --------------------------
EXTENDS FrontendMemory

\* two words, so that a double word fits and a neighbouring word can be hurt
MC_WordAddrs == {0, 4}

\* bytes 0x80 (sign bit set), 0x7f (clear), 0x01 and 0x00, all different
\* so that a misplaced lane is visible: 0x007f0180 and 0x80
MC_Inputs == {ToWord(8323456), ToWord(128)}
=============================================================================
