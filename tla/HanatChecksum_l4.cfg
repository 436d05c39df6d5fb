CONSTANTS
  AccBits <- MCAccBits
  IntBits <- MCIntBits
  AddrBits <- MCAddrBits
  PortBits <- MCPortBits
  FoldBits <- MCFoldBits
SPECIFICATION Spec
INVARIANT L4DeltaCorrect
