SPECIFICATION FairSystemSpec
CONSTANTS
    MaxBusy = 5
    Sources = {0, 2, 4}
INVARIANTS
    SystemTypeOK
    BoundedLatency
PROPERTIES
    RequestsConserved
    NoUnexpectedInterrupt
    HaltEnds
