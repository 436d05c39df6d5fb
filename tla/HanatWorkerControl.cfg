CONSTANTS
    PoolIds = {0}
    Prefixes <- MCPrefixesCanonical
    Slots = {0, 1}
    NoValue = NoValue
    AddrBits = 4
    BucketFibs = {0, 1}
    BucketArgs <- MCBucketArgs
    SwIfIndices = {0, 1}
    Modes = {"inside"}
    IfSlots = {0, 1}
    NullVec = NullVec
    FeatureResults = {0, FeatureError}
    VNET_API_ERROR_VALUE_EXIST = VNET_API_ERROR_VALUE_EXIST
    VNET_API_ERROR_NO_SUCH_ENTRY = VNET_API_ERROR_NO_SUCH_ENTRY
SPECIFICATION Spec
INVARIANT TypeOK
INVARIANT PoolLpmAgree
INVARIANT InterfaceIndexConsistent
\* an assert(0) or a free of a wild pointer ends the process
CHECK_DEADLOCK FALSE
