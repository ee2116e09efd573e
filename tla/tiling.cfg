CONSTANTS
  WX = 0
  WY = 3
  WW = 131
  WH = 117
  BW = 1
  BH = 2
  InUse = {"tile", "deck", "bstack", "bstackhoriz", "centredmaster", "centredfloatingmaster", "horizgrid", "monocle", "gaplessgrid", "grid", "nrowgrid", "dwindle", "spiral"}
  DefGaps <- MCGaps
  GapSteps <- MCGapSteps
  MfactArgs <- MCMfactArgs
  CfactArgs = {8}
  NewSizes = {30}
  MaxGap = 3
  MaxMasters = 2
  MaxClients = 6
SPECIFICATION TilingSpec
CONSTRAINT Bounded
INVARIANTS Placed Fills
PROPERTIES ChangesLocal 
