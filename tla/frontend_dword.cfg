CONSTANTS
    HostEndian = "LITTLE"
    WordAddrs <- MC_WordAddrs
    Inputs <- MC_Inputs
    MaxOps = 1
SPECIFICATION Spec
PROPERTY FrontendRefinesByteMemory
