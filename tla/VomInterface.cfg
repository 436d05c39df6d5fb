CONSTANTS
    Names <- MCNames
    ItfType <- MCItfType
    RdOf <- MCRdOf
    PhysHandle <- MCPhysHandle
    Handles <- MCHandles
    LocalHandle = 0
    Macs = {}
    HwMac = "hw"
    RdTable = 1
    INVALID = INVALID
    MaxRestarts = 2
SPECIFICATION Spec
INVARIANT TypeOK
INVARIANT VppMatchesOm
INVARIANT DesiredProgrammed
INVARIANT LldpProgrammed
INVARIANT ItemsTruthful
PROPERTY WriteIdempotent
