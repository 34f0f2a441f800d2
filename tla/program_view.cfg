\* The program listing's scroll handling against every ProgramModel
\* placement, with the event loop as the only fair process.
CONSTANTS
    Rows = 16
    Visible = 1
    RowBytes = 4
    Offsets <- MC_Offsets
    Addrs <- MC_Addrs
    Stored <- MC_Stored
SPECIFICATION Spec
INVARIANT ScrollCoalesced
PROPERTY ScrollEventuallyReported
PROPERTY SelectionKeepsInstruction
