SPECIFICATION UploadSpec
CONSTANTS
    ByteMod = 4
    Xor <- MCXor
    Magic <- MCMagic
    MaxLength = 3
    Roms <- MCRoms
    MinGap = 6
    TxTime = 7
    MaxFaults = 0
PROPERTIES
    SwapIsAnswered
