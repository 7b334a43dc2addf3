SPECIFICATION DevicesSpec
CONSTANTS
    TimaMod = 3
    CounterMod = 32
    DivUnit = 8
    Period <- MCPeriod
    Keys <- MCKeys
    Devices = {"Bus"}
    DataBits = 4
    RxBits = 4
    BitTicks = 20
    HalfTicks = 10
    MaxGlitch = 9
    Periods = {19, 20, 21}
INVARIANTS
    DivWriteRestarts
