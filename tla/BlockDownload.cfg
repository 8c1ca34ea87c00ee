SPECIFICATION FairSpec
CONSTANTS
  g = g
  a1 = a1
  a2 = a2
  a3 = a3
  x1 = x1
  p1 = p1
  p2 = p2
  Blocks <- MCBlocks
  Parent <- MCParent
  Genesis = g
  Bad = {x1}
  Peers = {p1, p2}
  ChainOf <- MCChainOf
  Mined = {a1}
  Responsive = {p1}
  Nobody = Nobody
  NoBlock = NoBlock
  MAX_BLOCKS_IN_TRANSIT_PER_PEER = 1
  BLOCK_DOWNLOAD_WINDOW = 1
INVARIANTS
  InFlightIsConsistent
  StallersOweBlocks

  
CHECK_DEADLOCK FALSE
