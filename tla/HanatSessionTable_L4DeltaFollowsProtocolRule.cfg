CONSTANTS
  Packets <- MCPackets
  Fibs <- MCFibs
  CacheEntries <- MCCacheEntries
  Updates <- MCUpdates
  Buffers <- MCBuffers
  Tunnels <- MCTunnels
  s1 = s1
  s2 = s2
  s3 = s3
  NoSlot = NoSlot
  Slots <- MCSlots
  PageOf <- MCPageOf
  PageSize = 2
  StaleTimeout = 2
  MaxTime = 2
  AccBits <- MCAccBits
  IntBits <- MCIntBits
  AddrBits <- MCAddrBits
  PortBits <- MCPortBits
  FoldBits <- MCFoldBits
SPECIFICATION Spec
SYMMETRY MCSymmetry
VIEW LiveView
INVARIANT L4DeltaFollowsProtocolRule
