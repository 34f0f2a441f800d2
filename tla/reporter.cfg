\* The CLI reporter: configuration calls, one stop signal, the report and
\* the exit code.  The process exits after the report, so a state with
\* nothing enabled is where every run ends.
CONSTANTS
    FailReasons = {"FR_I", "FR_A", "FR_O", "FR_J"}
    Traps = {"UnsupportedInstruction", "UnsupportedAluOperation", "Overflow",
             "UnalignedJump", "Other"}
    Starts <- MC_Starts
    Lens <- MC_Lens
    Paths = {"dump0", "dump1"}
    MaxRanges = 2
SPECIFICATION Spec
CHECK_DEADLOCK FALSE
INVARIANT TypeOK
INVARIANT DumpCoversRange
INVARIANT ExitCodeMatchesExpectation
