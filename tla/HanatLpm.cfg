CONSTANTS
    Fibs = {0, 1}
    Prefixes <- MCPrefixesDistinct
    Addresses <- MCAddressesDistinct
    Values = {0, 1}
    NoValue = NoValue
    AddrBits = 4
    AssertAborts = TRUE
SPECIFICATION Spec
INVARIANT TypeOK
INVARIANT RefcountMatchesEntries
PROPERTY LpmImplementsLongestMatch
