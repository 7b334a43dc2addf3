SPECIFICATION Spec
CONSTANTS
    ByteMod = 4
    VectorBase = 3
    VectorStep = 2
    RstVector = 9
    MaxRetired = 2
    AluVal <- MCAluVal
    AluFlag <- MCAluFlag
    Pendings <- MCPendings
PROPERTIES
    OpcodeTableTiming
