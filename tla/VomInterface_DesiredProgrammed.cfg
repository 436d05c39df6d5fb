CONSTANTS
    Names <- MCNames
    ItfType <- MCItfType
    RdOf <- MCRdOf
    PhysHandle <- MCPhysHandle
    Handles <- MCHandles
    LocalHandle = 0
    Macs = {"m1"}
    HwMac = "hw"
    RdTable = 1
    INVALID = INVALID
    MaxRestarts = 1
SPECIFICATION Spec
INVARIANT DesiredProgrammed
