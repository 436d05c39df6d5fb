CONSTANTS
    Fibs = {0}
    Prefixes <- MCPrefixesNested
    Addresses <- MCAddressesNested
    Values = {0, 1}
    NoValue = NoValue
    AddrBits = 4
    AssertAborts = TRUE
SPECIFICATION Spec
PROPERTY LpmImplementsLongestMatch
CHECK_DEADLOCK FALSE
