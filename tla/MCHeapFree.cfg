CONSTANTS
  HeaderSize = 2
  WordSize = 64
  Regions <- MCRegions
  Sizes = {0, 1, 3}
  Aligns = {}
SPECIFICATION FairSpec
PROPERTY FreeCompletes
