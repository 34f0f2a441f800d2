CONSTANTS
    ByteAddrs <- MC_ByteAddrs
    Inputs <- MC_Inputs
    MaxOps = 2
    HostEndians = {"LITTLE", "BIG"}
SPECIFICATION Spec
INVARIANT TypeOK
PROPERTY FrontendRefinesSimMemory
