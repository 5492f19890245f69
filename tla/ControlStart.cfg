SPECIFICATION FairSpec
CONSTANTS
  ChanCap = 1
  MaxRpcs = 0
PROPERTY StartedServiceServes
