CONSTANTS
  HeaderSize = 2
  WordSize = 64
  Regions <- MCRegions
  Sizes = {1, 2, 3}
  Aligns = {2, 4}
SPECIFICATION FairSpec
INVARIANT LiveBlocksApart
